-------------------------- MODULE ConnectionProofs --------------------------
(***************************************************************************)
(* Proofs about what tasks share on the way to a server: the question      *)
(* about an unknown host key (HostTrust), the pooled FTP clients           *)
(* (FtpPool), the batches that calls are put in (MicroBatcher), the pages  *)
(* of a listing (HttpWalk), the removals of a tree over SFTP (SftpTree),   *)
(* the runner of the synchronous facade (SyncRunner), the paths derived    *)
(* from one (PathAlgebra), what a path remembers of its item (ArtItems)    *)
(* and the classes of the protocols (ProtocolMap), for any number of       *)
(* tasks, threads, path objects, pages, nodes and names; at the end, the   *)
(* suite of them all that TLC checks (MCBackends).                         *)
(***************************************************************************)
EXTENDS MCBackends, FiniteSetTheorems, SequenceTheorems, WellFoundedInduction, TLAPS

(* The question about a host key. *)

HtPlaces == HtOver \cup {"idle", "lock", "asking", "connect"}

\* The task that asks has the lock, is the only one, and asks about a target
\* nobody knows.
HtAskedAlone ==
    /\ htLock = {t \in HtTasks : htPc[t] = "asking"}
    /\ \A t, u \in htLock : t = u
    /\ htLock # {} => HtTarget(htConf) \notin htKnown

\* What is known was recorded before or said yes to.
HtInv ==
    /\ htConf \in HtConfs /\ htTrusted \subseteq htKnown
    /\ htPc \in [HtTasks -> HtPlaces]
    /\ htYes = htKnown
    /\ HtAskedAlone
    /\ HtNeverUnverified

\* A host the policy lets a task connect to is known, or the user waived it.
LEMMA HtPolicyWaived ==
    ASSUME NEW conf \in HtConfs, HtPolicy(conf) \notin {"ask", "yes"}
    PROVE  \/ conf.checking = "off"
           \/ conf.checking = "config" /\ conf.policy \in {"accept-new", "no"}
<1>1. conf.checking \in {"off", "config", "unset"}
      /\ conf.policy \in {"ask", "yes", "accept-new", "no", "bogus"}
  BY DEF HtConfs
<1>2. CASE conf.checking = "off" BY <1>2
<1>3. CASE conf.checking = "unset" BY <1>3 DEF HtPolicy
<1>4. CASE conf.checking = "config" BY <1>1, <1>4 DEF HtPolicy
<1> QED BY <1>1, <1>2, <1>3, <1>4

\* HtInv holds initially.
LEMMA HtInitHolds == HtInit => HtInv
<1> SUFFICES ASSUME HtInit PROVE HtInv
  OBVIOUS
<1>1. \A t \in HtTasks : htPc[t] = "idle" BY DEF HtInit
<1> QED BY <1>1 DEF HtInit, HtInv, HtPlaces, HtAskedAlone, HtNeverUnverified

\* Every step keeps HtInv.
LEMMA HtStepKeeps == HtInv /\ [HtNext]_htVars => HtInv'
<1> SUFFICES ASSUME HtInv, [HtNext]_htVars PROVE HtInv'
  OBVIOUS
<1> USE DEF HtInv
<1>1. CASE UNCHANGED htVars
  BY <1>1 DEF htVars, HtAskedAlone, HtNeverUnverified, HtTarget
<1>2. ASSUME NEW t \in HtTasks, HtBegin(t) PROVE HtInv'
  BY <1>2 DEF HtBegin, HtPlaces, HtAskedAlone, HtNeverUnverified, HtTarget
<1>3. ASSUME NEW t \in HtTasks, HtNoQuestion(t) PROVE HtInv'
  BY <1>3 DEF HtNoQuestion, HtNothingToAsk, HtPlaces, HtAskedAlone, HtNeverUnverified, HtTarget, HtAskedTarget
<1>4. ASSUME NEW t \in HtTasks, HtAsk(t) PROVE HtInv'
  BY <1>4 DEF HtAsk, HtLockFree, HtNothingToAsk, HtPlaces, HtAskedAlone, HtNeverUnverified, HtTarget, HtAskedTarget
<1>5. ASSUME NEW t \in HtTasks, HtAnswer(t) PROVE HtInv'
  <2>1. PICK answer \in {"yes", "no"} :
          /\ htYes' = IF answer = "yes" THEN htYes \cup {HtAskedTarget} ELSE htYes
          /\ htKnown' = htKnown \cup (IF answer = "yes" THEN {HtAskedTarget} ELSE {})
          /\ htTrusted' = htTrusted \cup (IF answer = "yes" THEN {HtAskedTarget} ELSE {})
          /\ htPc' = [htPc EXCEPT ![t] = IF answer = "yes" THEN "connect" ELSE "error"]
    BY <1>5 DEF HtAnswer, HtAccepted
  <2>2. htPc[t] = "asking" /\ htLock' = htLock \ {t} /\ htConf' = htConf
    BY <1>5 DEF HtAnswer
  <2>3. HtAskedAlone'
    BY <2>1, <2>2 DEF HtAskedAlone
  <2>4. HtNeverUnverified'
    BY <2>1, <2>2 DEF HtNeverUnverified, HtTarget
  <2>5. (htPc \in [HtTasks -> HtPlaces])'
    BY <2>1 DEF HtPlaces, HtOver
  <2> QED BY <2>1, <2>2, <2>3, <2>4, <2>5
<1>6. ASSUME NEW t \in HtTasks, HtCancel(t) PROVE HtInv'
  BY <1>6 DEF HtCancel, HtPlaces, HtOver, HtAskedAlone, HtNeverUnverified, HtTarget
<1>7. ASSUME NEW t \in HtTasks, HtConnect(t) PROVE HtInv'
  <2>1. HtConnects => \/ HtTarget(htConf) \in htYes
                      \/ htConf.checking = "off"
                      \/ htConf.checking = "config" /\ htConf.policy \in {"accept-new", "no"}
    BY HtPolicyWaived DEF HtConnects
  <2>2. /\ htPc' = [htPc EXCEPT ![t] = IF HtConnects THEN "served" ELSE "refused"]
        /\ htPc[t] = "connect"
        /\ UNCHANGED <<htConf, htKnown, htTrusted, htLock, htYes>>
    BY <1>7 DEF HtConnect
  <2>3. HtNeverUnverified'
    BY <2>1, <2>2 DEF HtNeverUnverified, HtTarget
  <2>4. HtAskedAlone'
    BY <2>2 DEF HtAskedAlone, HtTarget
  <2> QED BY <2>2, <2>3, <2>4 DEF HtPlaces, HtOver
<1> QED BY <1>1, <1>2, <1>3, <1>4, <1>5, <1>6, <1>7 DEF HtNext, HtDone

\* HtInv is inductive: only the task with the lock learns a key, and it asks
\* only when there is none.
LEMMA HtInvariance == HtSpec => []HtInv
<1>1. HtInit => HtInv BY HtInitHolds
<1>2. HtInv /\ [HtNext]_htVars => HtInv' BY HtStepKeeps
<1> QED BY <1>1, <1>2, PTL DEF HtSpec

\* However many tasks meet an unknown host at once, the user is asked one
\* question at a time and none after a yes, and no request is served by a host
\* that was neither recorded nor said yes to nor waived.
THEOREM VerifiedOnce == HtSpec => []HtVerifiedOnce
<1>1. HtInv => HtVerifiedOnce
  <2> SUFFICES ASSUME HtInv PROVE HtOneQuestion
    BY DEF HtInv, HtVerifiedOnce
  <2>1. CASE htLock = {}
    BY <2>1, FS_EmptySet DEF HtInv, HtAskedAlone, HtOneQuestion
  <2>2. CASE htLock # {}
    <3>1. PICK t \in htLock : htLock = {t}
      BY <2>2 DEF HtInv, HtAskedAlone
    <3>2. Cardinality(htLock) = 1
      BY <3>1, FS_Singleton
    <3> QED BY <2>2, <3>2 DEF HtInv, HtAskedAlone, HtOneQuestion
  <2> QED BY <2>1, <2>2
<1> QED BY <1>1, HtInvariance, PTL

-----------------------------------------------------------------------------
(* The pool of FTP clients.                                                *)

FpInside == {"ensure", "login", "asking", "again", "request", "reply"}
FpTaskSet == [at : FpPlaces, key : FpPasswords, lock : Nat, client : Nat,
              password : FpPasswords \cup FpEntries, cached : BOOLEAN]

\* The tasks that may still log a client in; each logs in one at most.
FpToLogIn == {t \in FpTasks : fpTask[t].at \in {"idle", "wait", "ensure", "login", "asking", "again"}}

FpTypes ==
    /\ fpMade \in Nat /\ fpClients \in Nat
    /\ fpLocks \in [FpPasswords -> Nat] /\ fpCache \in [FpPasswords -> Nat]
    /\ fpTask \in [FpTasks -> FpTaskSet]
    /\ fpWire \in [1..Cardinality(FpTasks) -> Seq(FpTasks)]
    /\ DOMAIN fpGot = FpTasks
    /\ fpStore \in FpEntries /\ fpRefused \subseteq {"old", "bad"}
    /\ fpTerminal \in BOOLEAN /\ fpRaced \in BOOLEAN

\* The keyring's old password is gone once the server refused it; only a typed
\* password that the server takes gets in.
FpStoreFits ==
    /\ FpRefusedForgotten
    /\ \A t \in FpTasks :
         /\ fpTask[t].at = "login" /\ fpTask[t].cached => fpTask[t].password \in {"good", "old"}
         /\ fpTask[t].at = "again" => fpTask[t].password \in {"good", "bad"}

\* One task at a time is inside a lock.
FpAlone ==
    /\ \A t \in FpTasks : fpTask[t].at \in FpInside => fpTask[t].lock \in fpHeld
    /\ \A t, u \in FpTasks :
         fpTask[t].at \in FpInside /\ fpTask[u].at \in FpInside /\ fpTask[t].lock = fpTask[u].lock => t = u

\* Keys share neither locks nor clients, and a pooled client is open.
FpPoolFits ==
    /\ \A k \in FpPasswords : fpLocks[k] <= fpMade /\ fpCache[k] <= fpClients
    /\ \A k, l \in FpPasswords : /\ fpLocks[k] = fpLocks[l] /\ fpLocks[k] # 0 => k = l
                                 /\ fpCache[k] = fpCache[l] /\ fpCache[k] # 0 => k = l
    /\ fpClosed \subseteq 1..fpClients
    /\ \A k \in FpPasswords : fpCache[k] \notin fpClosed

FpClientsFit == fpClients + Cardinality(FpToLogIn) <= Cardinality(FpTasks)

\* Until somebody is cancelled or disconnected inside _op, a task works under
\* the lock of its key with the client of its key, and a reply on the wire is
\* for the task that is about to read it.
FpTaskInOrder(t) ==
    /\ fpTask[t].at \in FpInside \cup {"wait"} =>
         fpTask[t].lock = fpLocks[fpTask[t].key] /\ fpTask[t].lock # 0
    /\ fpTask[t].at \in {"request", "reply"} =>
         fpTask[t].client = fpCache[fpTask[t].key] /\ fpTask[t].client # 0
    /\ fpTask[t].at = "reply" => fpWire[fpTask[t].client] = <<t>>
    /\ fpGot[t] \subseteq {t}

FpAwaited(c) == \E t \in FpTasks : fpTask[t].at = "reply" /\ fpTask[t].client = c

FpInOrder ==
    /\ \A t \in FpTasks : FpTaskInOrder(t)
    /\ \A c \in 1..Cardinality(FpTasks) : fpWire[c] = <<>> \/ FpAwaited(c)

FpInv == FpTypes /\ FpStoreFits /\ FpAlone /\ FpPoolFits /\ FpClientsFit /\ (fpRaced \/ FpInOrder)

\* What each step makes of the task that takes it; the other tasks stay.
FpBecomes(t, place) ==
    /\ fpTask' \in [FpTasks -> FpTaskSet]
    /\ fpTask'[t].at = place
    /\ \A u \in FpTasks : u # t => fpTask'[u] = fpTask[u]

FpSame(t) == /\ fpTask'[t].key = fpTask[t].key /\ fpTask'[t].lock = fpTask[t].lock
             /\ fpTask'[t].client = fpTask[t].client /\ fpTask'[t].cached = fpTask[t].cached

\* A step of a task replaces what is known of it.
LEMMA FpUpdates ==
    ASSUME FpTypes, NEW t \in FpTasks, NEW task \in FpTaskSet, fpTask' = [fpTask EXCEPT ![t] = task]
    PROVE  FpBecomes(t, task.at) /\ fpTask'[t] = task
BY DEF FpTypes, FpBecomes

\* Going to another place changes nothing else.
LEMMA FpGoes ==
    ASSUME FpTypes, NEW t \in FpTasks, NEW place \in FpPlaces, FpGo(t, place)
    PROVE  FpBecomes(t, place) /\ FpSame(t) /\ fpTask'[t].password = fpTask[t].password
BY DEF FpTypes, FpGo, FpBecomes, FpSame, FpTaskSet

\* A task waits under the lock of its key, a new one if there was none.
LEMMA FpOpens ==
    ASSUME FpTypes, NEW t \in FpTasks, FpOp(t)
    PROVE  /\ FpBecomes(t, "wait")
           /\ \E key \in FpPasswords, lock \in Nat :
                /\ fpTask'[t].key = key /\ fpTask'[t].lock = lock
                /\ fpLocks' = [fpLocks EXCEPT ![key] = lock]
                /\ \/ fpLocks[key] # 0 /\ lock = fpLocks[key] /\ fpMade' = fpMade
                   \/ fpLocks[key] = 0 /\ lock = fpMade + 1 /\ fpMade' = fpMade + 1
<1>1. PICK key \in FpPasswords :
        LET lock == IF fpLocks[key] = 0 THEN fpMade + 1 ELSE fpLocks[key]
        IN  /\ fpLocks' = [fpLocks EXCEPT ![key] = lock]
            /\ fpMade' = IF fpLocks[key] = 0 THEN lock ELSE fpMade
            /\ fpTask' = [fpTask EXCEPT ![t] = [@ EXCEPT !.at = "wait", !.key = key, !.lock = lock]]
  BY DEF FpOp
<1> DEFINE lock == IF fpLocks[key] = 0 THEN fpMade + 1 ELSE fpLocks[key]
<1>2. lock \in Nat
  BY DEF FpTypes
<1> HIDE DEF lock
<1>3. fpTask' = [fpTask EXCEPT ![t] = [@ EXCEPT !.at = "wait", !.key = key, !.lock = lock]]
  BY <1>1 DEF lock
<1>4. FpBecomes(t, "wait") /\ fpTask'[t].key = key /\ fpTask'[t].lock = lock
  BY <1>2, <1>3 DEF FpTypes, FpBecomes, FpTaskSet, FpPlaces
<1>5. /\ fpLocks' = [fpLocks EXCEPT ![key] = lock]
      /\ \/ fpLocks[key] # 0 /\ lock = fpLocks[key] /\ fpMade' = fpMade
         \/ fpLocks[key] = 0 /\ lock = fpMade + 1 /\ fpMade' = fpMade + 1
  BY <1>1 DEF lock
<1> QED BY <1>2, <1>4, <1>5

\* A step that logs nobody in keeps the room there is for logins.
LEMMA FpToLogInShrinks ==
    ASSUME FpTypes, FpClientsFit, NEW t \in FpTasks, NEW place \in FpPlaces, FpBecomes(t, place),
           fpClients' = fpClients,
           place \in {"wait", "ensure", "login", "asking", "again", "idle"} => t \in FpToLogIn
    PROVE  FpClientsFit'
<1>1. FpToLogIn' \subseteq FpToLogIn
  BY DEF FpBecomes, FpToLogIn
<1>2. IsFiniteSet(FpToLogIn)
  BY FpAssumption, FS_Subset DEF FpToLogIn
<1>3. /\ Cardinality(FpToLogIn') <= Cardinality(FpToLogIn)
      /\ Cardinality(FpToLogIn') \in Nat /\ Cardinality(FpToLogIn) \in Nat /\ Cardinality(FpTasks) \in Nat
  BY <1>1, <1>2, FpAssumption, FS_Subset, FS_CardinalityType
<1> QED BY <1>3 DEF FpClientsFit, FpTypes

\* A task is in order after another task's step that leaves its lock, its
\* client and what it read alone.
LEMMA FpOthersInOrder ==
    ASSUME FpTypes, NEW u \in FpTasks, FpTaskInOrder(u), fpTask'[u] = fpTask[u],
           fpGot'[u] = fpGot[u],
           fpLocks[fpTask[u].key] # 0 => fpLocks'[fpTask[u].key] = fpLocks[fpTask[u].key],
           fpTask[u].at \in {"request", "reply"} => fpCache'[fpTask[u].key] = fpCache[fpTask[u].key],
           fpTask[u].at = "reply" => fpWire'[fpTask[u].client] = fpWire[fpTask[u].client]
    PROVE  FpTaskInOrder(u)'
<1>1. fpTask[u] \in FpTaskSet
  BY DEF FpTypes
<1> QED BY <1>1 DEF FpTaskInOrder, FpTaskSet

\* The same for a step that leaves the wires alone and is no cancelled read.
LEMMA FpQuietInOrder ==
    ASSUME FpTypes, FpInOrder, NEW t \in FpTasks, NEW place \in FpPlaces, FpBecomes(t, place),
           fpTask[t].at # "reply", place # "reply",
           UNCHANGED <<fpWire, fpGot>>,
           \A k \in FpPasswords : fpLocks[k] # 0 => fpLocks'[k] = fpLocks[k],
           \A u \in FpTasks : u # t /\ fpTask[u].at \in {"request", "reply"} =>
               fpCache'[fpTask[u].key] = fpCache[fpTask[u].key],
           FpTaskInOrder(t)'
    PROVE  FpInOrder'
<1>1. ASSUME NEW u \in FpTasks PROVE FpTaskInOrder(u)'
  <2>1. CASE u # t
    <3>1. /\ fpTask'[u] = fpTask[u] /\ FpTaskInOrder(u) /\ fpTask[u].key \in FpPasswords
          /\ fpGot'[u] = fpGot[u]
      BY <2>1 DEF FpBecomes, FpInOrder, FpTypes, FpTaskSet
    <3> QED BY <2>1, <3>1, FpOthersInOrder
  <2> QED BY <2>1
<1>2. ASSUME NEW c \in 1..Cardinality(FpTasks), fpWire'[c] # <<>> PROVE FpAwaited(c)'
  BY <1>2 DEF FpInOrder, FpAwaited, FpBecomes
<1> QED BY <1>1, <1>2 DEF FpInOrder

\* FpOp keeps the invariant.
LEMMA FpOpKeeps == ASSUME FpInv, NEW t \in FpTasks, FpOp(t) PROVE FpInv'
<1>1. FpBecomes(t, "wait") /\ fpTask[t].at = "idle"
      /\ UNCHANGED <<fpHeld, fpCache, fpClients, fpClosed, fpWire, fpStore, fpGot, fpRefused, fpFixed>>
  BY FpOpens DEF FpOp, FpInv
<1>2. PICK key \in FpPasswords, lock \in Nat :
        /\ fpTask'[t].key = key /\ fpTask'[t].lock = lock
        /\ fpLocks' = [fpLocks EXCEPT ![key] = lock]
        /\ \/ fpLocks[key] # 0 /\ lock = fpLocks[key] /\ fpMade' = fpMade
           \/ fpLocks[key] = 0 /\ lock = fpMade + 1 /\ fpMade' = fpMade + 1
  BY FpOpens DEF FpInv
<1>3. FpTypes'
  BY <1>1, <1>2 DEF FpInv, FpTypes, FpBecomes, fpFixed
<1>4. FpStoreFits'
  BY <1>1 DEF FpInv, FpStoreFits, FpRefusedForgotten, FpBecomes
<1>5. FpAlone'
  BY <1>1 DEF FpInv, FpAlone, FpBecomes, FpInside
<1>6. FpPoolFits'
  BY <1>1, <1>2 DEF FpInv, FpPoolFits, FpTypes
<1>7. FpClientsFit'
  <2>1. t \in FpToLogIn BY <1>1 DEF FpToLogIn
  <2> QED BY <1>1, <2>1, FpToLogInShrinks DEF FpInv, FpPlaces
<1>8. ASSUME FpInOrder PROVE FpInOrder'
  <2>1. \A k \in FpPasswords : fpLocks[k] # 0 => fpLocks'[k] = fpLocks[k]
    BY <1>2 DEF FpInv, FpTypes
  <2>2. fpTask'[t].lock = fpLocks'[fpTask'[t].key] /\ fpTask'[t].lock # 0
    BY <1>2 DEF FpInv, FpTypes
  <2>3. FpTaskInOrder(t)'
    BY <1>1, <1>8, <2>2 DEF FpInOrder, FpTaskInOrder, FpBecomes
  <2>4. fpTask[t].at # "reply" /\ UNCHANGED <<fpWire, fpGot, fpCache>> /\ FpTypes /\ "wait" \in FpPlaces
    BY <1>1 DEF FpInv, FpPlaces
  <2> QED BY <1>1, <1>8, <2>1, <2>3, <2>4, FpQuietInOrder
<1> QED BY <1>1, <1>3, <1>4, <1>5, <1>6, <1>7, <1>8 DEF FpInv, fpFixed

\* Inside a lock the task stays alone wherever it goes.
LEMMA FpStaysAlone ==
    ASSUME FpAlone, NEW t \in FpTasks, NEW place, FpBecomes(t, place), fpTask[t].at \in FpInside,
           fpTask'[t].lock = fpTask[t].lock, fpHeld' = fpHeld
    PROVE  FpAlone'
BY DEF FpAlone, FpBecomes

\* Giving the lock back leaves the others with theirs.
LEMMA FpLeavesAlone ==
    ASSUME FpAlone, NEW t \in FpTasks, NEW place, FpBecomes(t, place), place \notin FpInside,
           \/ fpTask[t].at \in FpInside /\ fpHeld' = fpHeld \ {fpTask[t].lock}
           \/ fpHeld' = fpHeld
    PROVE  FpAlone'
BY DEF FpAlone, FpBecomes

\* The tasks inside with the same key, or with the same client, are one.
LEMMA FpOneInside ==
    ASSUME FpInv, FpInOrder, NEW t \in FpTasks, NEW u \in FpTasks,
           fpTask[t].at \in FpInside, fpTask[u].at \in FpInside,
           \/ fpTask[t].key = fpTask[u].key
           \/ /\ fpTask[t].at \in {"request", "reply"} /\ fpTask[u].at \in {"request", "reply"}
              /\ fpTask[t].client = fpTask[u].client
    PROVE  t = u
<1>1. fpTask[t].key \in FpPasswords /\ fpTask[u].key \in FpPasswords
  BY DEF FpInv, FpTypes, FpTaskSet
<1>2. fpTask[t].key = fpTask[u].key
  BY <1>1 DEF FpInOrder, FpTaskInOrder, FpInv, FpPoolFits
<1> QED BY <1>2 DEF FpInOrder, FpTaskInOrder, FpInv, FpAlone

\* FpEnter keeps the invariant: it takes a lock nobody holds.
LEMMA FpEnterKeeps == ASSUME FpInv, NEW t \in FpTasks, FpEnter(t) PROVE FpInv'
<1>1. /\ FpBecomes(t, "ensure") /\ FpSame(t) /\ fpTask[t].at = "wait"
      /\ fpHeld' = fpHeld \cup {fpTask[t].lock} /\ fpTask[t].lock \notin fpHeld
      /\ UNCHANGED <<fpPool, fpWire, fpStore, fpGot, fpRefused, fpFixed>>
  BY FpGoes DEF FpEnter, FpLockFree, FpInv, FpPlaces
<1>2. UNCHANGED <<fpLocks, fpMade, fpCache, fpClients, fpClosed, fpTerminal, fpRaced>>
  BY <1>1 DEF fpPool, fpFixed
<1>3. FpTypes'
  BY <1>1, <1>2 DEF FpInv, FpTypes, FpBecomes
<1>4. FpStoreFits'
  BY <1>1 DEF FpInv, FpStoreFits, FpRefusedForgotten, FpBecomes
<1>5. FpAlone'
  BY <1>1 DEF FpInv, FpAlone, FpBecomes, FpSame, FpInside
<1>6. FpPoolFits'
  BY <1>2 DEF FpInv, FpPoolFits
<1>7. FpClientsFit'
  <2>1. t \in FpToLogIn BY <1>1 DEF FpToLogIn
  <2> QED BY <1>1, <1>2, <2>1, FpToLogInShrinks DEF FpInv, FpPlaces
<1>8. ASSUME FpInOrder PROVE FpInOrder'
  <2>1. FpTaskInOrder(t)'
    BY <1>1, <1>2, <1>8 DEF FpInOrder, FpTaskInOrder, FpBecomes, FpSame, FpInside
  <2>2. FpTypes /\ fpTask[t].at # "reply" /\ "ensure" \in FpPlaces /\ UNCHANGED <<fpWire, fpGot>>
    BY <1>1 DEF FpInv, FpPlaces
  <2> QED BY <1>1, <1>2, <1>8, <2>1, <2>2, FpQuietInOrder
<1> QED BY <1>2, <1>3, <1>4, <1>5, <1>6, <1>7, <1>8 DEF FpInv

\* FpEnsure keeps the invariant: the client it finds is the one of its key.
LEMMA FpEnsureKeeps == ASSUME FpInv, NEW t \in FpTasks, FpEnsure(t) PROVE FpInv'
<1> DEFINE cached == fpTask[t].key = "none" /\ fpTerminal /\ fpStore # "none"
           place == IF fpCache[fpTask[t].key] # 0 THEN "request" ELSE "login"
<1>1. /\ fpTask[t].at = "ensure" /\ fpTask[t] \in FpTaskSet
      /\ fpTask' = [fpTask EXCEPT ![t] =
               IF fpCache[fpTask[t].key] # 0 THEN [@ EXCEPT !.at = "request", !.client = fpCache[fpTask[t].key]]
               ELSE [@ EXCEPT !.at = "login", !.cached = cached,
                              !.password = IF cached THEN fpStore ELSE fpTask[t].key]]
      /\ UNCHANGED <<fpPool, fpHeld, fpWire, fpStore, fpGot, fpRefused, fpFixed>>
  BY DEF FpEnsure, FpInv, FpTypes
<1>2. UNCHANGED <<fpLocks, fpMade, fpCache, fpClients, fpClosed, fpTerminal, fpRaced>>
  BY <1>1 DEF fpPool, fpFixed
<1>3. fpCache[fpTask[t].key] \in Nat /\ cached \in BOOLEAN
      /\ (IF cached THEN fpStore ELSE fpTask[t].key) \in FpPasswords \cup FpEntries
  BY <1>1 DEF FpInv, FpTypes, FpTaskSet
<1>4. /\ FpBecomes(t, place) /\ fpTask'[t].lock = fpTask[t].lock /\ fpTask'[t].key = fpTask[t].key
      /\ place = "request" => fpTask'[t].client = fpCache[fpTask[t].key] /\ fpTask'[t].client # 0
      /\ place = "login" /\ fpTask'[t].cached => fpTask'[t].password \in {"good", "old"}
  <2>1. CASE fpCache[fpTask[t].key] # 0
    <3> DEFINE task == [fpTask[t] EXCEPT !.at = "request", !.client = fpCache[fpTask[t].key]]
    <3>1. fpTask' = [fpTask EXCEPT ![t] = task] /\ place = "request"
      BY <1>1, <2>1
    <3>2. /\ task \in FpTaskSet /\ task.at = "request" /\ task.client = fpCache[fpTask[t].key]
          /\ task.key = fpTask[t].key /\ task.lock = fpTask[t].lock
      BY <1>1, <1>3 DEF FpTaskSet, FpPlaces
    <3> HIDE DEF task, place
    <3>3. FpBecomes(t, "request") /\ fpTask'[t] = task
      BY <3>1, <3>2, FpUpdates DEF FpInv
    <3> QED BY <2>1, <3>1, <3>2, <3>3
  <2>2. CASE fpCache[fpTask[t].key] = 0
    <3>1. PICK saved \in BOOLEAN, password \in FpPasswords \cup FpEntries :
            /\ fpTask' = [fpTask EXCEPT ![t] = [@ EXCEPT !.at = "login", !.cached = saved, !.password = password]]
            /\ saved => password \in {"good", "old"}
      BY <1>1, <1>3, <2>2 DEF FpInv, FpTypes, FpEntries
    <3> DEFINE task == [fpTask[t] EXCEPT !.at = "login", !.cached = saved, !.password = password]
    <3>2. /\ task \in FpTaskSet /\ task.at = "login" /\ task.cached = saved /\ task.password = password
          /\ task.key = fpTask[t].key /\ task.lock = fpTask[t].lock
      BY <1>1 DEF FpTaskSet, FpPlaces
    <3>3. fpTask' = [fpTask EXCEPT ![t] = task] /\ place = "login"
      BY <2>2, <3>1
    <3> HIDE DEF task, place
    <3>4. FpBecomes(t, "login") /\ fpTask'[t] = task
      BY <3>2, <3>3, FpUpdates DEF FpInv
    <3> QED BY <3>1, <3>2, <3>3, <3>4
  <2> QED BY <2>1, <2>2
<1>5. place \in {"request", "login"} OBVIOUS
<1> HIDE DEF place, cached
<1>6. FpTypes'
  BY <1>1, <1>2, <1>4 DEF FpInv, FpTypes, FpBecomes
<1>7. FpStoreFits'
  BY <1>1, <1>4, <1>5 DEF FpInv, FpStoreFits, FpRefusedForgotten, FpBecomes
<1>8. FpAlone'
  BY <1>1, <1>4, FpStaysAlone DEF FpInv, FpInside
<1>9. FpPoolFits'
  BY <1>2 DEF FpInv, FpPoolFits
<1>10. FpClientsFit'
  <2>1. t \in FpToLogIn BY <1>1 DEF FpToLogIn
  <2> QED BY <1>2, <1>4, <1>5, <2>1, FpToLogInShrinks DEF FpInv, FpPlaces
<1>11. ASSUME FpInOrder PROVE FpInOrder'
  <2>1. FpTaskInOrder(t)'
    BY <1>1, <1>2, <1>4, <1>5, <1>11 DEF FpInOrder, FpTaskInOrder, FpBecomes, FpInside
  <2>2. FpTypes /\ fpTask[t].at # "reply" /\ place \in FpPlaces /\ place # "reply" /\ UNCHANGED <<fpWire, fpGot>>
    BY <1>1, <1>5 DEF FpInv, FpPlaces
  <2> QED BY <1>2, <1>4, <1>11, <2>1, <2>2, FpQuietInOrder
<1> QED BY <1>2, <1>6, <1>7, <1>8, <1>9, <1>10, <1>11 DEF FpInv

\* FpLoggedIn keeps the invariant: nobody else uses the key, and the client is new.
LEMMA FpLoggedInKeeps == ASSUME FpInv, NEW t \in FpTasks, FpLoggedIn(t) PROVE FpInv'
<1> DEFINE task == [fpTask[t] EXCEPT !.at = "request", !.client = fpClients']
<1>1. /\ fpTask[t].at \in {"login", "again"} /\ fpTask[t].password = "good" /\ fpTask[t] \in FpTaskSet
      /\ fpTask' = [fpTask EXCEPT ![t] = task]
      /\ fpClients' = fpClients + 1 /\ fpClients \in Nat
      /\ fpCache' = [fpCache EXCEPT ![fpTask[t].key] = fpClients']
      /\ UNCHANGED <<fpLocks, fpMade, fpHeld, fpClosed, fpWire, fpGot, fpRefused, fpTerminal, fpRaced>>
  BY DEF FpLoggedIn, FpLogsIn, FpInv, FpTypes, fpFixed
<1>2. fpTask[t].key \in FpPasswords
  BY <1>1 DEF FpTaskSet
<1>3. /\ task \in FpTaskSet /\ task.at = "request" /\ task.client = fpClients + 1
      /\ task.key = fpTask[t].key /\ task.lock = fpTask[t].lock
  <2>1. fpTask[t] \in FpTaskSet /\ fpClients' \in Nat /\ fpClients' = fpClients + 1 BY <1>1
  <2> QED BY <2>1 DEF FpTaskSet, FpPlaces
<1> HIDE DEF task
<1>4. FpBecomes(t, "request") /\ fpTask'[t] = task
  BY <1>1, <1>3, FpUpdates DEF FpInv
<1>5. fpStore' \in {fpStore, "good"}
  BY <1>1 DEF FpLoggedIn, FpSaved
<1>6. FpTypes'
  BY <1>1, <1>2, <1>4, <1>5 DEF FpInv, FpTypes, FpBecomes, FpEntries
<1>7. FpStoreFits'
  BY <1>1, <1>4, <1>5 DEF FpInv, FpTypes, FpStoreFits, FpRefusedForgotten, FpBecomes
<1>8. FpAlone'
  BY <1>1, <1>3, <1>4, FpStaysAlone DEF FpInv, FpInside
<1>9. FpPoolFits'
  <2>1. \A k \in FpPasswords : fpCache[k] \in Nat /\ fpCache[k] <= fpClients
    BY DEF FpInv, FpTypes, FpPoolFits
  <2>2. \A k \in FpPasswords : fpCache'[k] = IF k = fpTask[t].key THEN fpClients + 1 ELSE fpCache[k]
    BY <1>1 DEF FpInv, FpTypes
  <2>3. fpClients + 1 \notin fpClosed /\ fpClosed \subseteq 1..(fpClients + 1)
    BY <1>1 DEF FpInv, FpPoolFits
  <2> QED BY <1>1, <2>1, <2>2, <2>3 DEF FpInv, FpPoolFits
<1>10. FpClientsFit'
  <2>1. t \in FpToLogIn /\ FpToLogIn' = FpToLogIn \ {t}
    BY <1>1, <1>4 DEF FpToLogIn, FpBecomes
  <2>2. IsFiniteSet(FpToLogIn)
    BY FpAssumption, FS_Subset DEF FpToLogIn
  <2>3. /\ Cardinality(FpToLogIn') = Cardinality(FpToLogIn) - 1
        /\ Cardinality(FpToLogIn) \in Nat /\ Cardinality(FpTasks) \in Nat
    BY <2>1, <2>2, FpAssumption, FS_RemoveElement, FS_CardinalityType
  <2> QED BY <1>1, <2>3 DEF FpInv, FpClientsFit
<1>11. ASSUME FpInOrder PROVE FpInOrder'
  <2>1. FpTaskInOrder(t)'
    <3>1. fpCache'[fpTask[t].key] = fpClients + 1
      BY <1>1, <1>2 DEF FpInv, FpTypes
    <3> QED BY <1>1, <1>3, <1>4, <1>11, <3>1 DEF FpInOrder, FpTaskInOrder, FpInside
  <2>2. FpTypes /\ fpTask[t].at # "reply" /\ "request" \in FpPlaces /\ UNCHANGED <<fpWire, fpGot>>
    BY <1>1 DEF FpInv, FpPlaces
  <2>3. ASSUME NEW u \in FpTasks, u # t, fpTask[u].at \in {"request", "reply"}
        PROVE  fpCache'[fpTask[u].key] = fpCache[fpTask[u].key]
    <3>1. fpTask[u].key # fpTask[t].key /\ fpTask[u].key \in FpPasswords
      BY <1>1, <1>11, <2>3, FpOneInside DEF FpInside, FpInv, FpTypes, FpTaskSet
    <3> QED BY <1>1, <3>1 DEF FpInv, FpTypes
  <2> QED BY <1>1, <1>4, <1>11, <2>1, <2>2, <2>3, FpQuietInOrder
<1> QED BY <1>1, <1>6, <1>7, <1>8, <1>9, <1>10, <1>11 DEF FpInv

\* A step that leaves pool, wires and results alone and gives the lock back or
\* stays inside keeps everything but what is said of the passwords.
LEMMA FpQuietKeeps ==
    ASSUME FpInv, NEW t \in FpTasks, NEW place \in FpPlaces, FpBecomes(t, place), FpSame(t),
           UNCHANGED <<fpPool, fpWire, fpGot, fpTerminal>>, fpRaced' = fpRaced,
           fpTask[t].at # "reply",
           \/ fpTask[t].at \in FpInside /\ place \in {"asking", "again"} /\ fpHeld' = fpHeld /\ t \in FpToLogIn
           \/ fpTask[t].at \in FpInside /\ place = "failed" /\ fpHeld' = fpHeld \ {fpTask[t].lock}
           \/ fpTask[t].at = "wait" /\ place = "failed" /\ fpHeld' = fpHeld,
           fpStore' \in FpEntries, fpRefused' \subseteq {"old", "bad"}, FpStoreFits'
    PROVE  FpInv'
<1>1. UNCHANGED <<fpLocks, fpMade, fpCache, fpClients, fpClosed>>
  BY DEF fpPool
<1>2. FpTypes'
  BY <1>1 DEF FpInv, FpTypes, FpBecomes
<1>3. FpAlone'
  <2>1. CASE place \in {"asking", "again"}
    BY <2>1, FpStaysAlone DEF FpInv, FpSame
  <2>2. CASE place = "failed"
    BY <2>2, FpLeavesAlone DEF FpInv, FpInside
  <2> QED BY <2>1, <2>2
<1>4. FpPoolFits'
  BY <1>1 DEF FpInv, FpPoolFits
<1>5. FpClientsFit'
  <2>1. place \in {"wait", "ensure", "login", "asking", "again", "idle"} => t \in FpToLogIn
    OBVIOUS
  <2> QED BY <1>1, <2>1, FpToLogInShrinks DEF FpInv
<1>6. ASSUME FpInOrder PROVE FpInOrder'
  <2>1. FpTaskInOrder(t)'
    BY <1>1, <1>6 DEF FpInOrder, FpTaskInOrder, FpBecomes, FpSame, FpInside
  <2>2. FpTypes /\ place # "reply"
    BY DEF FpInv
  <2> QED BY <1>1, <1>6, <2>1, <2>2, FpQuietInOrder
<1> QED BY <1>2, <1>3, <1>4, <1>5, <1>6 DEF FpInv

\* FpRefuse keeps the invariant: a saved password that is refused is forgotten.
LEMMA FpRefuseKeeps == ASSUME FpInv, NEW t \in FpTasks, FpRefuse(t) PROVE FpInv'
<1>1. /\ fpTask[t].at \in {"login", "again"} /\ fpTask[t].password # "good"
      /\ fpRefused' = IF fpTask[t].at = "again" \/ fpTask[t].cached
                      THEN fpRefused \cup {fpTask[t].password} ELSE fpRefused
      /\ UNCHANGED <<fpPool, fpWire, fpGot, fpTerminal, fpRaced>>
  BY DEF FpRefuse, FpLogsIn, fpFixed
<1>2. PICK place \in {"asking", "failed"} :
        /\ FpGo(t, place)
        /\ IF place = "failed" THEN fpHeld' = fpHeld \ {fpTask[t].lock} ELSE fpHeld' = fpHeld
        /\ \/ fpTask[t].at = "login" /\ fpStore' = FpForget(t)
           \/ fpTask[t].at = "again" /\ fpStore' = fpStore
  BY DEF FpRefuse, FpEnd, FpRelease
<1>3. FpBecomes(t, place) /\ FpSame(t) /\ place \in FpPlaces
  BY <1>2, FpGoes DEF FpInv, FpPlaces
<1>4. fpStore' \in FpEntries /\ fpRefused' \subseteq {"old", "bad"} /\ FpRefusedForgotten'
  <2>1. CASE fpTask[t].at = "login" /\ fpTask[t].cached
    <3>1. fpTask[t].password = "old" /\ fpStore' = "none"
      BY <1>1, <1>2, <2>1 DEF FpInv, FpStoreFits, FpForget
    <3> QED BY <1>1, <2>1, <3>1 DEF FpInv, FpTypes, FpRefusedForgotten, FpEntries
  <2>2. CASE fpTask[t].at = "login" /\ ~fpTask[t].cached
    BY <1>1, <1>2, <2>2 DEF FpInv, FpTypes, FpStoreFits, FpRefusedForgotten, FpForget
  <2>3. CASE fpTask[t].at = "again"
    BY <1>1, <1>2, <2>3 DEF FpInv, FpTypes, FpStoreFits, FpRefusedForgotten, FpEntries
  <2> QED BY <1>1, <2>1, <2>2, <2>3
<1>5. FpStoreFits'
  BY <1>2, <1>3, <1>4 DEF FpInv, FpStoreFits, FpBecomes
<1>6. fpTask[t].at \in FpInside /\ fpTask[t].at # "reply" /\ t \in FpToLogIn
  BY <1>1 DEF FpInside, FpToLogIn
<1> QED BY <1>1, <1>2, <1>3, <1>4, <1>5, <1>6, FpQuietKeeps

\* FpTyped keeps the invariant: what the user types is saved only later.
LEMMA FpTypedKeeps == ASSUME FpInv, NEW t \in FpTasks, FpTyped(t) PROVE FpInv'
<1>1. PICK password \in {"good", "bad"} :
        /\ fpTask' = [fpTask EXCEPT ![t] = [@ EXCEPT !.at = "again", !.password = password]]
        /\ fpStore' = fpStore
  BY DEF FpTyped, FpNotYet
<1>2. /\ fpTask[t].at = "asking" /\ fpTask[t] \in FpTaskSet
      /\ UNCHANGED <<fpPool, fpHeld, fpWire, fpGot, fpRefused, fpTerminal, fpRaced>>
  BY DEF FpTyped, fpFixed, FpInv, FpTypes
<1> DEFINE task == [fpTask[t] EXCEPT !.at = "again", !.password = password]
<1>3. /\ task \in FpTaskSet /\ task.at = "again" /\ task.password = password
      /\ task.key = fpTask[t].key /\ task.lock = fpTask[t].lock
      /\ task.client = fpTask[t].client /\ task.cached = fpTask[t].cached
  BY <1>2 DEF FpTaskSet, FpPlaces, FpPasswords
<1>4. fpTask' = [fpTask EXCEPT ![t] = task]
  BY <1>1
<1> HIDE DEF task
<1>5. FpBecomes(t, "again") /\ FpSame(t) /\ fpTask'[t].password = password
  BY <1>3, <1>4, FpUpdates DEF FpInv, FpSame
<1>6. FpStoreFits'
  BY <1>1, <1>2, <1>5 DEF FpInv, FpStoreFits, FpRefusedForgotten, FpBecomes
<1>7. /\ fpTask[t].at \in FpInside /\ fpTask[t].at # "reply" /\ t \in FpToLogIn
      /\ fpStore' \in FpEntries /\ fpRefused' \subseteq {"old", "bad"} /\ "again" \in FpPlaces
  BY <1>1, <1>2 DEF FpInside, FpToLogIn, FpInv, FpTypes, FpPlaces
<1> QED BY <1>2, <1>5, <1>6, <1>7, FpQuietKeeps

\* Who reads or is about to send is on a client that was logged in, and only a
\* task of its own is on it.
LEMMA FpOwnClient ==
    ASSUME FpInv, FpInOrder, NEW t \in FpTasks, fpTask[t].at \in {"request", "reply"}
    PROVE  /\ fpTask[t].client \in 1..Cardinality(FpTasks)
           /\ fpTask[t].client \notin fpClosed
           /\ \A u \in FpTasks : u # t /\ fpTask[u].at \in {"request", "reply"} =>
                fpTask[u].client # fpTask[t].client
<1>1. fpTask[t].key \in FpPasswords /\ fpTask[t].client \in Nat
  BY DEF FpInv, FpTypes, FpTaskSet
<1>2. fpTask[t].client = fpCache[fpTask[t].key] /\ fpTask[t].client # 0
  BY DEF FpInOrder, FpTaskInOrder
<1>3. fpTask[t].client <= fpClients /\ fpTask[t].client \notin fpClosed
  BY <1>1, <1>2 DEF FpInv, FpPoolFits
<1>4. fpClients <= Cardinality(FpTasks) /\ fpClients \in Nat /\ Cardinality(FpTasks) \in Nat
  <2>1. IsFiniteSet(FpToLogIn)
    BY FpAssumption, FS_Subset DEF FpToLogIn
  <2>2. Cardinality(FpToLogIn) \in Nat /\ Cardinality(FpTasks) \in Nat /\ fpClients \in Nat
    BY <2>1, FpAssumption, FS_CardinalityType DEF FpInv, FpTypes
  <2> QED BY <2>2 DEF FpInv, FpClientsFit
<1>5. fpTask[t].client \in 1..Cardinality(FpTasks)
  BY <1>1, <1>2, <1>3, <1>4
<1> QED BY <1>3, <1>5, FpOneInside DEF FpInside

\* FpRequest keeps the invariant: nothing is on the wire of a client whose lock
\* the task has.
LEMMA FpRequestKeeps == ASSUME FpInv, NEW t \in FpTasks, FpRequest(t) PROVE FpInv'
<1>1. /\ fpTask[t].at = "request" /\ fpTask[t].at \in FpInside
      /\ UNCHANGED <<fpPool, fpStore, fpGot, fpRefused, fpTerminal, fpRaced>>
  BY DEF FpRequest, fpFixed, FpInside
<1>2. CASE fpTask[t].client \in fpClosed
  <2>1. FpGo(t, "failed") /\ fpHeld' = fpHeld \ {fpTask[t].lock} /\ fpWire' = fpWire
    BY <1>2 DEF FpRequest, FpEnd, FpRelease
  <2>2. FpBecomes(t, "failed") /\ FpSame(t) /\ "failed" \in FpPlaces
    BY <2>1, FpGoes DEF FpInv, FpPlaces
  <2>3. FpStoreFits' /\ fpStore' \in FpEntries /\ fpRefused' \subseteq {"old", "bad"}
    BY <1>1, <2>2 DEF FpInv, FpTypes, FpStoreFits, FpRefusedForgotten, FpBecomes
  <2> QED BY <1>1, <2>1, <2>2, <2>3, FpQuietKeeps
<1>3. CASE fpTask[t].client \notin fpClosed
  <2> DEFINE c == fpTask[t].client
  <2>1. FpGo(t, "reply") /\ fpHeld' = fpHeld /\ fpWire' = [fpWire EXCEPT ![c] = Append(@, t)]
    BY <1>3 DEF FpRequest
  <2>2. FpBecomes(t, "reply") /\ FpSame(t) /\ "reply" \in FpPlaces
    BY <2>1, FpGoes DEF FpInv, FpPlaces
  <2>3. UNCHANGED <<fpLocks, fpMade, fpCache, fpClients, fpClosed>>
    BY <1>1 DEF fpPool
  <2>4. FpTypes'
    <3>1. fpWire' \in [1..Cardinality(FpTasks) -> Seq(FpTasks)]
      <4>1. fpWire \in [1..Cardinality(FpTasks) -> Seq(FpTasks)]
        BY DEF FpInv, FpTypes
      <4>2. c \in 1..Cardinality(FpTasks) => Append(fpWire[c], t) \in Seq(FpTasks)
        BY <4>1
      <4> QED BY <2>1, <4>1, <4>2
    <3> QED BY <1>1, <2>2, <2>3, <3>1 DEF FpInv, FpTypes, FpBecomes
  <2>5. FpStoreFits'
    BY <1>1, <2>2 DEF FpInv, FpStoreFits, FpRefusedForgotten, FpBecomes
  <2>6. FpAlone'
    BY <1>1, <2>1, <2>2, FpStaysAlone DEF FpInv, FpSame
  <2>7. FpPoolFits'
    BY <2>3 DEF FpInv, FpPoolFits
  <2>8. FpClientsFit'
    BY <2>2, <2>3, FpToLogInShrinks DEF FpInv
  <2>9. ASSUME FpInOrder PROVE FpInOrder'
    <3>1. /\ c \in 1..Cardinality(FpTasks)
          /\ \A u \in FpTasks : u # t /\ fpTask[u].at \in {"request", "reply"} => fpTask[u].client # c
      BY <1>1, <2>9, FpOwnClient
    <3>2. fpWire[c] = <<>>
      BY <1>1, <2>9, <3>1 DEF FpInOrder, FpAwaited
    <3>3. fpWire'[c] = <<t>> /\ \A d \in 1..Cardinality(FpTasks) : d # c => fpWire'[d] = fpWire[d]
      BY <2>1, <3>1, <3>2 DEF FpInv, FpTypes
    <3>4. FpTaskInOrder(t)'
      BY <1>1, <2>2, <2>3, <2>9, <3>3 DEF FpInOrder, FpTaskInOrder, FpBecomes, FpSame, FpInside
    <3>5. ASSUME NEW u \in FpTasks, u # t PROVE FpTaskInOrder(u)'
      <4>1. /\ fpTask'[u] = fpTask[u] /\ FpTaskInOrder(u) /\ fpGot'[u] = fpGot[u]
            /\ fpLocks' = fpLocks /\ fpCache' = fpCache /\ FpTypes
        BY <1>1, <2>2, <2>3, <2>9, <3>5 DEF FpBecomes, FpInOrder, FpInv
      <4>2. fpTask[u].at = "reply" => fpWire'[fpTask[u].client] = fpWire[fpTask[u].client]
        BY <2>9, <3>1, <3>3, <3>5, FpOwnClient
      <4> QED BY <4>1, <4>2, FpOthersInOrder
    <3>6. ASSUME NEW d \in 1..Cardinality(FpTasks), fpWire'[d] # <<>> PROVE FpAwaited(d)'
      <4>1. CASE d = c BY <2>2, <4>1 DEF FpAwaited, FpBecomes, FpSame
      <4>2. CASE d # c
        <5>1. PICK u \in FpTasks : fpTask[u].at = "reply" /\ fpTask[u].client = d
          BY <2>9, <3>3, <3>6, <4>2 DEF FpInOrder, FpAwaited
        <5>2. fpTask'[u] = fpTask[u]
          BY <1>1, <2>2, <5>1 DEF FpBecomes
        <5> QED BY <5>1, <5>2 DEF FpAwaited
      <4> QED BY <4>1, <4>2
    <3> QED BY <3>4, <3>5, <3>6 DEF FpInOrder
  <2> QED BY <1>1, <2>4, <2>5, <2>6, <2>7, <2>8, <2>9 DEF FpInv
<1> QED BY <1>2, <1>3

\* FpReply keeps the invariant: in good order, the reply is the task's own.
LEMMA FpReplyKeeps == ASSUME FpInv, NEW t \in FpTasks, FpReply(t) PROVE FpInv'
<1> DEFINE c == fpTask[t].client
<1>1. PICK place \in {"failed", "ok"} : FpGo(t, place)
  BY DEF FpReply, FpEnd
<1>2. /\ fpTask[t].at = "reply" /\ fpTask[t].at \in FpInside /\ fpHeld' = fpHeld \ {fpTask[t].lock}
      /\ UNCHANGED <<fpPool, fpStore, fpRefused, fpTerminal, fpRaced>>
  BY DEF FpReply, FpEnd, FpRelease, fpFixed, FpInside
<1>3. \/ c \in fpClosed /\ UNCHANGED <<fpWire, fpGot>>
      \/ /\ c \notin fpClosed /\ fpWire[c] # <<>>
         /\ fpGot' = [fpGot EXCEPT ![t] = {Head(fpWire[c])}]
         /\ fpWire' = [fpWire EXCEPT ![c] = Tail(@)]
  BY DEF FpReply
<1>4. FpBecomes(t, place) /\ FpSame(t) /\ place \in FpPlaces
  BY <1>1, FpGoes DEF FpInv, FpPlaces
<1>5. UNCHANGED <<fpLocks, fpMade, fpCache, fpClients, fpClosed>>
  BY <1>2 DEF fpPool
<1>6. FpTypes'
  <2>1. fpWire' \in [1..Cardinality(FpTasks) -> Seq(FpTasks)]
    <3>1. CASE fpWire' = fpWire BY <3>1 DEF FpInv, FpTypes
    <3>2. CASE fpWire[c] # <<>> /\ fpWire' = [fpWire EXCEPT ![c] = Tail(@)]
      <4>1. fpWire \in [1..Cardinality(FpTasks) -> Seq(FpTasks)]
        BY DEF FpInv, FpTypes
      <4>2. c \in 1..Cardinality(FpTasks) => Tail(fpWire[c]) \in Seq(FpTasks)
        BY <3>2, <4>1
      <4> QED BY <3>2, <4>1, <4>2
    <3> QED BY <1>3, <3>1, <3>2
  <2>2. DOMAIN fpGot' = FpTasks
    BY <1>3 DEF FpInv, FpTypes
  <2> QED BY <1>2, <1>4, <1>5, <2>1, <2>2 DEF FpInv, FpTypes, FpBecomes
<1>7. FpStoreFits'
  BY <1>2, <1>4 DEF FpInv, FpStoreFits, FpRefusedForgotten, FpBecomes
<1>8. FpAlone'
  BY <1>2, <1>4, FpLeavesAlone DEF FpInv, FpInside
<1>9. FpPoolFits'
  BY <1>5 DEF FpInv, FpPoolFits
<1>10. FpClientsFit'
  BY <1>4, <1>5, FpToLogInShrinks DEF FpInv
<1>11. ASSUME FpInOrder PROVE FpInOrder'
  <2>1. /\ c \in 1..Cardinality(FpTasks) /\ c \notin fpClosed
        /\ \A u \in FpTasks : u # t /\ fpTask[u].at \in {"request", "reply"} => fpTask[u].client # c
    BY <1>2, <1>11, FpOwnClient
  <2>2. fpWire[c] = <<t>>
    BY <1>2, <1>11 DEF FpInOrder, FpTaskInOrder
  <2>3. /\ fpWire'[c] = <<>> /\ \A d \in 1..Cardinality(FpTasks) : d # c => fpWire'[d] = fpWire[d]
        /\ fpGot'[t] = {t} /\ \A u \in FpTasks : u # t => fpGot'[u] = fpGot[u]
    <3>1. Head(<<t>>) = t /\ Tail(<<t>>) = <<>>
      OBVIOUS
    <3>2. /\ fpWire \in [1..Cardinality(FpTasks) -> Seq(FpTasks)] /\ DOMAIN fpGot = FpTasks
          /\ fpGot' = [fpGot EXCEPT ![t] = {t}] /\ fpWire' = [fpWire EXCEPT ![c] = <<>>]
      BY <1>3, <2>1, <2>2, <3>1 DEF FpInv, FpTypes
    <3> QED BY <2>1, <3>2
  <2>4. FpTaskInOrder(t)'
    BY <1>4, <2>3 DEF FpTaskInOrder, FpBecomes, FpInside
  <2>5. ASSUME NEW u \in FpTasks, u # t PROVE FpTaskInOrder(u)'
    <3>1. /\ fpTask'[u] = fpTask[u] /\ FpTaskInOrder(u) /\ fpGot'[u] = fpGot[u]
          /\ fpLocks' = fpLocks /\ fpCache' = fpCache /\ FpTypes
      BY <1>4, <1>5, <1>11, <2>3, <2>5 DEF FpBecomes, FpInOrder, FpInv
    <3>2. fpTask[u].at = "reply" => fpWire'[fpTask[u].client] = fpWire[fpTask[u].client]
      BY <1>11, <2>1, <2>3, <2>5, FpOwnClient
    <3> QED BY <3>1, <3>2, FpOthersInOrder
  <2>6. ASSUME NEW d \in 1..Cardinality(FpTasks), fpWire'[d] # <<>> PROVE FpAwaited(d)'
    <3>1. d # c BY <2>3, <2>6
    <3>2. PICK u \in FpTasks : fpTask[u].at = "reply" /\ fpTask[u].client = d
      BY <1>11, <2>3, <2>6, <3>1 DEF FpInOrder, FpAwaited
    <3>3. fpTask'[u] = fpTask[u]
      BY <1>4, <3>1, <3>2 DEF FpBecomes
    <3> QED BY <3>2, <3>3 DEF FpAwaited
  <2> QED BY <2>4, <2>5, <2>6 DEF FpInOrder
<1> QED BY <1>2, <1>6, <1>7, <1>8, <1>9, <1>10, <1>11 DEF FpInv

\* FpCancel keeps the invariant: a cancelled reader counts as a race, any other
\* task leaves nothing behind.
LEMMA FpCancelKeeps == ASSUME FpInv, NEW t \in FpTasks, FpCancel(t) PROVE FpInv'
<1>1. /\ FpBecomes(t, "failed") /\ FpSame(t) /\ "failed" \in FpPlaces
      /\ fpTask[t].at \in {"wait", "login", "asking", "again", "reply"}
      /\ fpHeld' = IF fpTask[t].at = "wait" THEN fpHeld ELSE fpHeld \ {fpTask[t].lock}
      /\ fpRaced' = (fpRaced \/ fpTask[t].at = "reply")
      /\ UNCHANGED <<fpPool, fpWire, fpStore, fpGot, fpRefused, fpTerminal>>
  BY FpGoes DEF FpCancel, FpInv, FpPlaces
<1>2. FpStoreFits'
  BY <1>1 DEF FpInv, FpStoreFits, FpRefusedForgotten, FpBecomes
<1>3. CASE fpTask[t].at # "reply"
  <2>1. fpRaced' = fpRaced /\ fpStore' \in FpEntries /\ fpRefused' \subseteq {"old", "bad"}
    BY <1>1, <1>3 DEF FpInv, FpTypes
  <2>2. fpTask[t].at # "wait" => fpTask[t].at \in FpInside
    BY <1>1 DEF FpInside
  <2> QED BY <1>1, <1>2, <1>3, <2>1, <2>2, FpQuietKeeps
<1>4. CASE fpTask[t].at = "reply"
  <2>1. fpRaced' /\ fpTask[t].at \in FpInside /\ UNCHANGED <<fpLocks, fpMade, fpCache, fpClients, fpClosed>>
    BY <1>1, <1>4 DEF FpInside, fpPool, FpInv, FpTypes
  <2>2. FpTypes'
    BY <1>1, <2>1 DEF FpInv, FpTypes, FpBecomes
  <2>3. FpAlone'
    BY <1>1, <1>4, <2>1, FpLeavesAlone DEF FpInv, FpInside
  <2>4. FpPoolFits'
    BY <2>1 DEF FpInv, FpPoolFits
  <2>5. FpClientsFit'
    BY <1>1, <2>1, FpToLogInShrinks DEF FpInv
  <2> QED BY <1>2, <2>1, <2>2, <2>3, <2>4, <2>5 DEF FpInv
<1> QED BY <1>3, <1>4

\* FpDisconnectAll keeps the invariant: it counts as a race unless nobody is
\* inside, and then no reply is on its way.
LEMMA FpDisconnectKeeps == ASSUME FpInv, FpDisconnectAll PROVE FpInv'
<1>1. /\ fpClosed' = fpClosed \cup {fpCache[k] : k \in {q \in FpPasswords : fpCache[q] # 0}}
      /\ fpCache' = [k \in FpPasswords |-> 0] /\ fpLocks' = [k \in FpPasswords |-> 0]
      /\ fpRaced' = (fpRaced \/ \E t \in FpTasks : fpTask[t].at \notin {"idle", "ok", "failed"})
      /\ UNCHANGED <<fpMade, fpHeld, fpClients, fpWire, fpStore, fpTask, fpGot, fpRefused, fpTerminal>>
  BY DEF FpDisconnectAll
<1>2. FpTypes'
  BY <1>1 DEF FpInv, FpTypes
<1>3. FpStoreFits' /\ FpAlone'
  BY <1>1 DEF FpInv, FpStoreFits, FpRefusedForgotten, FpAlone
<1>4. FpPoolFits'
  <2>1. \A k \in FpPasswords : fpCache[k] # 0 => fpCache[k] \in 1..fpClients
    BY DEF FpInv, FpTypes, FpPoolFits
  <2>2. fpClosed' \subseteq 1..fpClients
    BY <1>1, <2>1 DEF FpInv, FpPoolFits
  <2>3. fpMade \in Nat /\ fpClients \in Nat
    BY DEF FpInv, FpTypes
  <2> QED BY <1>1, <2>2, <2>3 DEF FpPoolFits
<1>5. FpClientsFit'
  BY <1>1 DEF FpInv, FpClientsFit, FpToLogIn
<1>6. ASSUME FpInOrder, ~fpRaced' PROVE FpInOrder'
  <2>1. \A t \in FpTasks : fpTask[t].at \in {"idle", "ok", "failed"}
    BY <1>1, <1>6
  <2>2. \A t \in FpTasks : FpTaskInOrder(t)'
    BY <1>1, <1>6, <2>1 DEF FpInOrder, FpTaskInOrder, FpInside
  <2>3. \A c \in 1..Cardinality(FpTasks) : fpWire[c] = <<>>
    BY <1>6, <2>1 DEF FpInOrder, FpAwaited
  <2> QED BY <1>1, <2>2, <2>3 DEF FpInOrder
<1> QED BY <1>1, <1>2, <1>3, <1>4, <1>5, <1>6 DEF FpInv

\* FpInv holds initially.
LEMMA FpInitHolds == FpInit => FpInv
<1> SUFFICES ASSUME FpInit PROVE FpInv
  OBVIOUS
<1> DEFINE task == [at |-> "idle", key |-> "none", lock |-> 0, client |-> 0,
                    password |-> "none", cached |-> FALSE]
<1>1. \A t \in FpTasks : fpTask[t] = task
  BY DEF FpInit
<1>2. task \in FpTaskSet /\ task.at = "idle"
  BY DEF FpTaskSet, FpPlaces, FpPasswords
<1> HIDE DEF task
<1>3. \A t \in FpTasks : fpTask[t].at = "idle"
  BY <1>1, <1>2
<1>4. FpTypes
  <2>1. <<>> \in Seq(FpTasks) OBVIOUS
  <2>2. fpTask \in [FpTasks -> FpTaskSet] /\ fpWire \in [1..Cardinality(FpTasks) -> Seq(FpTasks)]
    BY <1>1, <1>2, <2>1 DEF FpInit
  <2> QED BY <2>2 DEF FpInit, FpTypes
<1>5. FpStoreFits /\ FpAlone /\ FpPoolFits
  BY <1>3 DEF FpInit, FpStoreFits, FpRefusedForgotten, FpAlone, FpInside, FpPoolFits
<1>6. FpClientsFit
  <2>1. FpToLogIn = FpTasks BY <1>3 DEF FpToLogIn
  <2>2. Cardinality(FpTasks) \in Nat BY FpAssumption, FS_CardinalityType
  <2> QED BY <2>1, <2>2 DEF FpInit, FpClientsFit
<1>7. FpInOrder
  BY <1>3 DEF FpInit, FpInOrder, FpTaskInOrder, FpInside
<1> QED BY <1>4, <1>5, <1>6, <1>7 DEF FpInv

\* Every step keeps FpInv.
LEMMA FpStepKeeps == FpInv /\ [FpNext]_fpVars => FpInv'
<1> SUFFICES ASSUME FpInv, [FpNext]_fpVars PROVE FpInv'
  OBVIOUS
<1>1. CASE UNCHANGED fpVars
  <2>1. FpTypes' BY <1>1 DEF fpVars, FpInv, FpTypes
  <2>2. FpStoreFits' /\ FpAlone'
    BY <1>1 DEF fpVars, FpInv, FpStoreFits, FpRefusedForgotten, FpAlone
  <2>3. FpPoolFits' BY <1>1 DEF fpVars, FpInv, FpPoolFits
  <2>4. FpClientsFit' BY <1>1 DEF fpVars, FpInv, FpClientsFit, FpToLogIn
  <2>5. FpInOrder => FpInOrder' BY <1>1 DEF fpVars, FpInOrder, FpTaskInOrder, FpAwaited
  <2> QED BY <1>1, <2>1, <2>2, <2>3, <2>4, <2>5 DEF fpVars, FpInv
<1> QED BY <1>1, FpOpKeeps, FpEnterKeeps, FpEnsureKeeps, FpLoggedInKeeps, FpRefuseKeeps,
           FpTypedKeeps, FpRequestKeeps, FpReplyKeeps, FpCancelKeeps, FpDisconnectKeeps
        DEF FpNext, FpDone

\* FpInv is inductive.
LEMMA FpInvariance == FpSpec => []FpInv
<1>1. FpInit => FpInv BY FpInitHolds
<1>2. FpInv /\ [FpNext]_fpVars => FpInv' BY FpStepKeeps
<1> QED BY <1>1, <1>2, PTL DEF FpSpec

\* Tasks that share pooled clients read the replies to their own requests, and
\* the keyring never keeps a password the server has refused, whatever the
\* number of tasks and calls of disconnect_all.
THEOREM SharedSafely == FpSpec => []FpSharedSafely
<1>1. FpInv => FpSharedSafely
  BY DEF FpInv, FpStoreFits, FpInOrder, FpTaskInOrder, FpSharedSafely, FpOwnReply
<1> QED BY <1>1, FpInvariance, PTL
-----------------------------------------------------------------------------
(* Batches.                                                                *)

\* Numbers have a least one: the first failure of a batch exists.
LEMMA LeastNumber ==
    ASSUME NEW T \in SUBSET Nat, T # {}
    PROVE  \E x \in T : \A y \in T : x <= y
<1> DEFINE R == {pair \in Nat \X Nat : pair[1] < pair[2]}
<1>1. IsWellFoundedOn(R, Nat) BY NatLessThanWellFounded DEF OpToRel
<1>2. \A x, y \in T : y < x => <<y, x>> \in R OBVIOUS
<1> HIDE DEF R
<1>3. PICK x \in T : \A y \in T : <<y, x>> \notin R BY <1>1, WFMin
<1>4. \A y \in T : ~(y < x) BY <1>2, <1>3
<1>5. \A y \in T : x <= y BY <1>4
<1> QED BY <1>5

MbBatchFits(b) ==
    /\ b = [callers |-> b.callers, outcomes |-> b.outcomes] /\ b.callers \in Seq(MbCallers) /\ b.callers # <<>>
    /\ b.outcomes \in [1..Len(b.callers) -> MbOutcomes \cup {MbNone}]

MbTypes ==
    /\ mbCall \in [MbCallers -> [op : MbOps, item : MbItems \cup {MbNone}, missing_ok : BOOLEAN]]
    /\ mbStatus \in [MbCallers -> MbOver \cup {"idle", "waiting"}]
    /\ mbValue \in [MbCallers -> MbItems \cup {MbNone}]
    /\ mbPending \subseteq MbOps /\ mbQueue \in [MbOps -> Seq(MbCallers)]
    /\ \A b \in mbBatches : MbBatchFits(b)
    /\ mbOutcome \in [MbCallers -> MbOutcomes \cup {MbNone}]

\* Callers collected, and callers in flight; each is in one place only.
MbQueuedAt(op, i, c) == i \in 1..Len(mbQueue[op]) /\ mbQueue[op][i] = c
MbFliesAt(b, i, c) == i \in 1..Len(b.callers) /\ b.callers[i] = c
MbQueued(c) == \E op \in MbOps : \E i \in Nat : MbQueuedAt(op, i, c)
MbFlies(c) == \E b \in mbBatches : \E i \in Nat : MbFliesAt(b, i, c)

MbQueuedOnce(c) ==
    \A o, p \in MbOps : \A i, j \in Nat : MbQueuedAt(o, i, c) /\ MbQueuedAt(p, j, c) => o = p /\ i = j
MbFliesOnce(c) ==
    \A a, b \in mbBatches : \A i, j \in Nat : MbFliesAt(a, i, c) /\ MbFliesAt(b, j, c) => a = b /\ i = j

\* A call that has not begun is nowhere, one that waits is somewhere, and one
\* that is somewhere was given nothing yet.
MbCaller(c) ==
    /\ MbQueuedOnce(c) /\ MbFliesOnce(c) /\ ~(MbQueued(c) /\ MbFlies(c))
    /\ mbStatus[c] = "idle" => ~MbQueued(c) /\ ~MbFlies(c) /\ mbValue[c] = MbNone
    /\ mbStatus[c] = "waiting" => MbQueued(c) \/ MbFlies(c)
    /\ MbQueued(c) \/ MbFlies(c) => mbValue[c] = MbNone
    /\ mbValue[c] # MbNone => mbValue[c] = mbCall[c].item /\ mbOutcome[c] = "ok"

\* A batch knows the outcome of each of its requests.
MbOutcomesKept ==
    \A b \in mbBatches : \A i \in 1..Len(b.callers) :
        b.outcomes[i] # MbNone => mbOutcome[b.callers[i]] = b.outcomes[i]

MbInv == MbTypes /\ MbKeyPresentWhileScheduled /\ MbOutcomesKept /\ \A c \in MbCallers : MbCaller(c)

\* No call has begun.
LEMMA MbInitHolds == MbInit => MbInv
<1> SUFFICES ASSUME MbInit PROVE MbInv
  OBVIOUS
<1>1. MbTypes BY DEF MbInit, MbTypes, MbNoCall, MbOps
<1>2. \A op \in MbOps : mbQueue[op] = <<>> BY DEF MbInit
<1>3. MbKeyPresentWhileScheduled BY <1>2 DEF MbInit, MbKeyPresentWhileScheduled
<1>4. \A op \in MbOps : Len(mbQueue[op]) = 0 BY <1>2
<1>5. \A c \in MbCallers : ~MbQueued(c) /\ ~MbFlies(c)
  BY <1>4 DEF MbQueued, MbQueuedAt, MbFlies, MbInit
<1>6. \A c \in MbCallers : MbCaller(c)
  BY <1>5 DEF MbCaller, MbQueuedOnce, MbFliesOnce, MbQueued, MbFlies, MbInit
<1> QED BY <1>1, <1>3, <1>6 DEF MbInv, MbOutcomesKept, MbInit

\* A call joins the list of its key.
LEMMA MbSubmitKeeps == ASSUME MbInv, NEW c \in MbCallers, MbSubmit(c) PROVE MbInv'
<1>1. PICK op \in MbOps, item \in MbItems, missing_ok \in BOOLEAN :
        /\ mbCall' = [mbCall EXCEPT ![c] = [op |-> op, item |-> item, missing_ok |-> missing_ok]]
        /\ mbPending' = mbPending \cup {op} /\ mbQueue' = [mbQueue EXCEPT ![op] = Append(@, c)]
        /\ mbScheduled' = IF op \in mbPending THEN mbScheduled ELSE mbScheduled \cup {op}
  BY DEF MbSubmit, MbEnqueued, MbCallSoon
<1>2. /\ mbStatus[c] = "idle" /\ mbStatus' = [mbStatus EXCEPT ![c] = "waiting"]
      /\ UNCHANGED <<mbValue, mbBatches, mbStore, mbOutcome>>
  BY DEF MbSubmit
<1>3. MbTypes /\ MbKeyPresentWhileScheduled /\ MbOutcomesKept BY DEF MbInv
<1> DEFINE n == Len(mbQueue[op])
<1>4. mbQueue[op] \in Seq(MbCallers) /\ n \in Nat BY <1>3 DEF MbTypes
<1>5. /\ mbQueue'[op] \in Seq(MbCallers) /\ Len(mbQueue'[op]) = n + 1 /\ mbQueue'[op][n + 1] = c
      /\ \A i \in 1..n : mbQueue'[op][i] = mbQueue[op][i]
      /\ mbQueue'[op] # <<>>
  <2>1. mbQueue'[op] = Append(mbQueue[op], c) BY <1>1, <1>3 DEF MbTypes
  <2> QED BY <1>4, <2>1
<1>6. \A p \in MbOps \ {op} : mbQueue'[p] = mbQueue[p] BY <1>1, <1>3 DEF MbTypes
<1> HIDE DEF n
<1>7. MbTypes'
  <2>1. mbCall' \in [MbCallers -> [op : MbOps, item : MbItems \cup {MbNone}, missing_ok : BOOLEAN]]
    BY <1>1, <1>3 DEF MbTypes
  <2>2. mbStatus' \in [MbCallers -> MbOver \cup {"idle", "waiting"}] BY <1>2, <1>3 DEF MbTypes
  <2>3. mbQueue' \in [MbOps -> Seq(MbCallers)]
    <3>1. Append(mbQueue[op], c) \in Seq(MbCallers) BY <1>4
    <3> QED BY <1>1, <1>3, <3>1 DEF MbTypes
  <2> QED BY <1>1, <1>2, <1>3, <2>1, <2>2, <2>3 DEF MbTypes
<1>8. MbKeyPresentWhileScheduled' BY <1>1, <1>3, <1>5, <1>6 DEF MbKeyPresentWhileScheduled
<1>9. MbOutcomesKept' BY <1>2, <1>3 DEF MbOutcomesKept
<1>10. ~MbQueued(c) /\ ~MbFlies(c) /\ mbValue[c] = MbNone BY <1>2 DEF MbInv, MbCaller
<1>11. \A p \in MbOps : \A i \in Nat : \A d \in MbCallers :
         MbQueuedAt(p, i, d)' <=> MbQueuedAt(p, i, d) \/ (p = op /\ i = n + 1 /\ d = c)
  <2> SUFFICES ASSUME NEW p \in MbOps, NEW i \in Nat, NEW d \in MbCallers
               PROVE  MbQueuedAt(p, i, d)' <=> MbQueuedAt(p, i, d) \/ (p = op /\ i = n + 1 /\ d = c)
    OBVIOUS
  <2>1. CASE p # op BY <1>6, <2>1 DEF MbQueuedAt
  <2>2. CASE p = op
    <3>1. i \in 1..(n + 1) <=> i \in 1..n \/ i = n + 1 BY <1>4
    <3>2. n + 1 \notin 1..n BY <1>4
    <3> QED BY <1>5, <2>2, <3>1, <3>2 DEF MbQueuedAt, n
  <2> QED BY <2>1, <2>2
<1>12. n + 1 \in Nat BY <1>4
<1>13. ASSUME NEW d \in MbCallers PROVE MbCaller(d)'
  <2>1. MbCaller(d) BY DEF MbInv
  <2>2. (MbFlies(d)' <=> MbFlies(d)) /\ MbFliesOnce(d)' BY <1>2, <2>1 DEF MbFlies, MbFliesOnce, MbFliesAt, MbCaller
  <2>3. CASE d = c
    <3>1. \A p \in MbOps : \A i \in Nat : MbQueuedAt(p, i, c)' => p = op /\ i = n + 1
      BY <1>10, <1>11 DEF MbQueued
    <3>2. MbQueuedOnce(c)' BY <3>1 DEF MbQueuedOnce
    <3>3. MbQueued(c)' BY <1>11, <1>12 DEF MbQueued
    <3>4. mbStatus'[c] = "waiting" BY <1>2, <1>3 DEF MbTypes
    <3> QED BY <1>2, <1>10, <2>2, <2>3, <3>2, <3>3, <3>4 DEF MbCaller
  <2>4. CASE d # c
    <3>1. \A p \in MbOps : \A i \in Nat : MbQueuedAt(p, i, d)' <=> MbQueuedAt(p, i, d) BY <1>11, <2>4
    <3>2. (MbQueued(d)' <=> MbQueued(d)) /\ MbQueuedOnce(d)' BY <2>1, <3>1 DEF MbQueued, MbQueuedOnce, MbCaller
    <3>3. mbStatus'[d] = mbStatus[d] /\ mbCall'[d] = mbCall[d] BY <1>1, <1>2, <1>3, <2>4 DEF MbTypes
    <3> QED BY <1>2, <2>1, <2>2, <3>2, <3>3 DEF MbCaller
  <2> QED BY <2>3, <2>4
<1> QED BY <1>7, <1>8, <1>9, <1>13 DEF MbInv

\* What a step that leaves lists and batches alone must keep of a caller.
LEMMA MbCallerStays ==
    ASSUME NEW c \in MbCallers, MbCaller(c), UNCHANGED <<mbCall, mbValue, mbQueue, mbBatches, mbOutcome>>,
           mbStatus'[c] = mbStatus[c] \/ mbStatus'[c] \in MbOver
    PROVE  MbCaller(c)'
<1>1. (MbQueued(c)' <=> MbQueued(c)) /\ (MbFlies(c)' <=> MbFlies(c)) BY DEF MbQueued, MbFlies, MbQueuedAt, MbFliesAt
<1>2. MbQueuedOnce(c)' /\ MbFliesOnce(c)' BY DEF MbCaller, MbQueuedOnce, MbFliesOnce, MbQueuedAt, MbFliesAt
<1>3. mbStatus'[c] \in MbOver => mbStatus'[c] # "idle" /\ mbStatus'[c] # "waiting" BY DEF MbOver
<1> QED BY <1>1, <1>2, <1>3 DEF MbCaller

\* A caller is cancelled.
LEMMA MbCancelKeeps == ASSUME MbInv, NEW c \in MbCallers, MbCancelCaller(c) PROVE MbInv'
<1>1. /\ mbStatus' = [mbStatus EXCEPT ![c] = "cancelled"]
      /\ UNCHANGED <<mbCall, mbValue, mbPending, mbQueue, mbScheduled, mbBatches, mbStore, mbOutcome>>
  BY DEF MbCancelCaller
<1>2. MbTypes /\ MbKeyPresentWhileScheduled /\ MbOutcomesKept BY DEF MbInv
<1>3. MbTypes'
  <2>1. mbStatus' \in [MbCallers -> MbOver \cup {"idle", "waiting"}] BY <1>1, <1>2 DEF MbTypes, MbOver
  <2> QED BY <1>1, <1>2, <2>1 DEF MbTypes
<1>4. \A d \in MbCallers : MbCaller(d)'
  <2>1. \A d \in MbCallers : mbStatus'[d] = mbStatus[d] \/ mbStatus'[d] \in MbOver BY <1>1, <1>2 DEF MbTypes, MbOver
  <2> QED BY <1>1, <2>1, MbCallerStays DEF MbInv
<1> QED BY <1>1, <1>2, <1>3, <1>4 DEF MbInv, MbKeyPresentWhileScheduled, MbOutcomesKept

\* A list becomes a batch.
LEMMA MbFlushKeeps == ASSUME MbInv, NEW op \in MbOps, MbFlush(op) PROVE MbInv'
<1> DEFINE new == [callers |-> mbQueue[op], outcomes |-> [i \in DOMAIN mbQueue[op] |-> MbNone]]
<1>1. /\ op \in mbScheduled /\ mbScheduled' = mbScheduled \ {op} /\ mbPending' = mbPending \ {op}
      /\ mbQueue' = [mbQueue EXCEPT ![op] = <<>>]
      /\ mbBatches' = IF mbQueue[op] = <<>> THEN mbBatches ELSE mbBatches \cup {new}
      /\ UNCHANGED <<mbCall, mbStatus, mbValue, mbStore, mbOutcome>>
  BY DEF MbFlush
<1>2. MbTypes /\ MbKeyPresentWhileScheduled /\ MbOutcomesKept BY DEF MbInv
<1>3. mbQueue[op] # <<>> /\ mbQueue[op] \in Seq(MbCallers) BY <1>1, <1>2 DEF MbKeyPresentWhileScheduled, MbTypes
<1>4. new.callers = mbQueue[op] /\ new.outcomes = [i \in DOMAIN mbQueue[op] |-> MbNone]
      /\ new = [callers |-> new.callers, outcomes |-> new.outcomes]
  OBVIOUS
<1>5. mbBatches' = mbBatches \cup {new} BY <1>1, <1>3
<1> HIDE DEF new
<1>6. DOMAIN mbQueue[op] = 1..Len(mbQueue[op]) BY <1>3
<1>7. MbTypes'
  <2>1. mbQueue' \in [MbOps -> Seq(MbCallers)]
    <3>1. <<>> \in Seq(MbCallers) OBVIOUS
    <3> QED BY <1>1, <1>2, <3>1 DEF MbTypes
  <2>2. MbBatchFits(new)
    <3>1. new.outcomes \in [1..Len(new.callers) -> MbOutcomes \cup {MbNone}] BY <1>4, <1>6
    <3> QED BY <1>3, <1>4, <3>1 DEF MbBatchFits
  <2> QED BY <1>1, <1>2, <1>5, <2>1, <2>2 DEF MbTypes
<1>8. mbQueue'[op] = <<>> /\ \A p \in MbOps \ {op} : mbQueue'[p] = mbQueue[p] BY <1>1, <1>2 DEF MbTypes
<1>9. MbKeyPresentWhileScheduled' BY <1>1, <1>2, <1>8 DEF MbKeyPresentWhileScheduled
<1>10. MbOutcomesKept'
  <2>1. \A i \in 1..Len(new.callers) : new.outcomes[i] = MbNone BY <1>4, <1>6
  <2> QED BY <1>1, <1>2, <1>5, <2>1 DEF MbOutcomesKept
<1>11. \A p \in MbOps : \A i, d : MbQueuedAt(p, i, d)' <=> p # op /\ MbQueuedAt(p, i, d)
  <2>1. Len(mbQueue'[op]) = 0 BY <1>8
  <2>2. 1..0 = {} OBVIOUS
  <2> QED BY <1>8, <2>1, <2>2 DEF MbQueuedAt
<1>12. \A i, d : MbFliesAt(new, i, d) <=> MbQueuedAt(op, i, d) BY <1>4 DEF MbFliesAt, MbQueuedAt
<1>13. \A b, i, d : MbFliesAt(b, i, d)' <=> MbFliesAt(b, i, d) BY DEF MbFliesAt
<1>14. ASSUME NEW d \in MbCallers PROVE MbCaller(d)'
  <2>1. MbCaller(d) BY DEF MbInv
  <2>2. MbQueuedOnce(d)' BY <1>11, <2>1 DEF MbCaller, MbQueuedOnce
  <2>3. MbFliesOnce(d)'
    <3> SUFFICES ASSUME NEW a \in mbBatches', NEW b \in mbBatches', NEW i \in Nat, NEW j \in Nat,
                        MbFliesAt(a, i, d), MbFliesAt(b, j, d)
                 PROVE  a = b /\ i = j
      BY <1>13 DEF MbFliesOnce
    <3>1. CASE a \in mbBatches /\ b \in mbBatches BY <2>1, <3>1 DEF MbCaller, MbFliesOnce
    <3>2. CASE a = new /\ b = new BY <1>12, <2>1, <3>2 DEF MbCaller, MbQueuedOnce
    <3>3. (a \in mbBatches /\ b = new) \/ (a = new /\ b \in mbBatches) => MbQueued(d) /\ MbFlies(d)
      BY <1>12 DEF MbQueued, MbFlies
    <3> QED BY <1>5, <2>1, <3>1, <3>2, <3>3 DEF MbCaller
  <2>4. (MbQueued(d)' \/ MbFlies(d)') <=> (MbQueued(d) \/ MbFlies(d))
    <3>1. MbQueued(d)' => MbQueued(d) BY <1>11 DEF MbQueued
    <3>2. MbFlies(d)' => MbQueued(d) \/ MbFlies(d) BY <1>5, <1>12, <1>13 DEF MbQueued, MbFlies
    <3>3. MbFlies(d) => MbFlies(d)' BY <1>5, <1>13 DEF MbFlies
    <3>4. MbQueued(d) => MbQueued(d)' \/ MbFlies(d)' BY <1>5, <1>11, <1>12, <1>13 DEF MbQueued, MbFlies
    <3> QED BY <3>1, <3>2, <3>3, <3>4
  <2>5. ~(MbQueued(d)' /\ MbFlies(d)')
    <3>1. ASSUME MbQueued(d)', MbFlies(d)' PROVE FALSE
      <4>1. PICK p \in MbOps, i \in Nat : p # op /\ MbQueuedAt(p, i, d) BY <1>11, <3>1 DEF MbQueued
      <4>2. PICK b \in mbBatches', j \in Nat : MbFliesAt(b, j, d) BY <1>13, <3>1 DEF MbFlies
      <4>3. b \notin mbBatches BY <2>1, <4>1, <4>2 DEF MbCaller, MbQueued, MbFlies
      <4>4. MbQueuedAt(op, j, d) BY <1>5, <1>12, <4>2, <4>3
      <4> QED BY <2>1, <4>1, <4>4 DEF MbCaller, MbQueuedOnce
    <3> QED BY <3>1
  <2> QED BY <1>1, <2>1, <2>2, <2>3, <2>4, <2>5 DEF MbCaller
<1> QED BY <1>7, <1>9, <1>10, <1>14 DEF MbInv

\* A request of a batch is answered.
LEMMA MbRequestKeeps ==
    ASSUME MbInv, NEW b \in mbBatches, NEW i \in DOMAIN b.callers, MbRequest(b, i)
    PROVE  MbInv'
<1>1. MbTypes /\ MbKeyPresentWhileScheduled /\ MbOutcomesKept BY DEF MbInv
<1>2. MbBatchFits(b) BY <1>1 DEF MbTypes
<1>3. DOMAIN b.callers = 1..Len(b.callers) /\ i \in 1..Len(b.callers) /\ i \in Nat BY <1>2 DEF MbBatchFits
<1> DEFINE c == b.callers[i]
<1>4. c \in MbCallers BY <1>2, <1>3 DEF MbBatchFits
<1>5. PICK o \in {"ok", "missing", "denied"} :
        /\ mbBatches' = (mbBatches \ {b}) \cup {[b EXCEPT !.outcomes[i] = o]}
        /\ mbOutcome' = [mbOutcome EXCEPT ![c] = o]
  BY DEF MbRequest
<1>6. b.outcomes[i] = MbNone /\ UNCHANGED <<mbCall, mbStatus, mbValue, mbPending, mbQueue, mbScheduled>> BY DEF MbRequest
<1> DEFINE new == [b EXCEPT !.outcomes[i] = o]
<1>7. /\ new = [callers |-> b.callers, outcomes |-> [b.outcomes EXCEPT ![i] = o]]
      /\ new.callers = b.callers /\ new.outcomes = [b.outcomes EXCEPT ![i] = o]
  <2> DEFINE cs == b.callers
             os == b.outcomes
  <2>1. b = [callers |-> cs, outcomes |-> os] BY <1>2 DEF MbBatchFits
  <2> HIDE DEF cs, os
  <2>2. [[callers |-> cs, outcomes |-> os] EXCEPT !.outcomes[i] = o] = [callers |-> cs, outcomes |-> [os EXCEPT ![i] = o]]
    OBVIOUS
  <2>3. new = [callers |-> cs, outcomes |-> [os EXCEPT ![i] = o]] BY <2>1, <2>2
  <2> QED BY <2>3 DEF cs, os
<1>8. mbBatches' = (mbBatches \ {b}) \cup {new} BY <1>5
<1> HIDE DEF new, c
<1>9. o \in MbOutcomes BY DEF MbOutcomes
<1>10. MbTypes'
  <2>1. mbOutcome' \in [MbCallers -> MbOutcomes \cup {MbNone}] BY <1>1, <1>5, <1>9 DEF MbTypes
  <2>2. MbBatchFits(new)
    <3>1. new.outcomes \in [1..Len(new.callers) -> MbOutcomes \cup {MbNone}] BY <1>2, <1>7, <1>9 DEF MbBatchFits
    <3> QED BY <1>2, <1>7, <3>1 DEF MbBatchFits
  <2> QED BY <1>1, <1>6, <1>8, <2>1, <2>2 DEF MbTypes
<1>11. MbKeyPresentWhileScheduled' BY <1>1, <1>6 DEF MbKeyPresentWhileScheduled
<1>12. \A d, j : MbFliesAt(new, j, d) <=> MbFliesAt(b, j, d) BY <1>7 DEF MbFliesAt
<1>13. MbFliesAt(b, i, c) BY <1>3 DEF MbFliesAt, c
<1>14. MbOutcomesKept'
  <2> SUFFICES ASSUME NEW a \in mbBatches', NEW j \in 1..Len(a.callers), a.outcomes[j] # MbNone
               PROVE  mbOutcome'[a.callers[j]] = a.outcomes[j]
    BY DEF MbOutcomesKept
  <2>1. j \in Nat /\ MbFliesAt(a, j, a.callers[j]) BY DEF MbFliesAt
  <2>2. mbOutcome'[c] = o /\ \A d : d \in MbCallers /\ d # c => mbOutcome'[d] = mbOutcome[d] BY <1>1, <1>4, <1>5 DEF MbTypes
  <2>3. CASE a = new
    <3>1. j \in 1..Len(b.callers) /\ a.callers[j] = b.callers[j] /\ b.callers[j] \in MbCallers
      BY <1>2, <1>7, <2>3 DEF MbBatchFits
    <3>2. CASE j = i BY <1>2, <1>3, <1>7, <2>2, <2>3, <3>2 DEF MbBatchFits, c
    <3>3. CASE j # i
      <4>1. b.callers[j] # c
        <5>1. MbFliesOnce(c) BY <1>4 DEF MbInv, MbCaller
        <5>2. MbFliesAt(b, j, b.callers[j]) BY <3>1 DEF MbFliesAt
        <5> QED BY <1>3, <1>13, <2>1, <3>3, <5>1, <5>2 DEF MbFliesOnce
      <4>2. a.outcomes[j] = b.outcomes[j] BY <1>2, <1>7, <2>3, <3>1, <3>3 DEF MbBatchFits
      <4>3. mbOutcome[b.callers[j]] = b.outcomes[j] BY <1>1, <3>1, <4>2 DEF MbOutcomesKept
      <4> QED BY <2>2, <3>1, <4>1, <4>2, <4>3
    <3> QED BY <3>2, <3>3
  <2>4. CASE a # new
    <3>1. a \in mbBatches /\ a # b BY <1>8, <2>4
    <3>2. a.callers[j] \in MbCallers BY <1>1, <3>1 DEF MbTypes, MbBatchFits
    <3>3. a.callers[j] # c
      <4>1. MbFliesOnce(c) BY <1>4 DEF MbInv, MbCaller
      <4> QED BY <1>3, <1>13, <2>1, <3>1, <4>1 DEF MbFliesOnce
    <3> QED BY <1>1, <2>2, <3>1, <3>2, <3>3 DEF MbOutcomesKept
  <2> QED BY <2>3, <2>4
<1>15. ASSUME NEW d \in MbCallers PROVE MbCaller(d)'
  <2>1. MbCaller(d) BY DEF MbInv
  <2>2. (MbQueued(d)' <=> MbQueued(d)) /\ MbQueuedOnce(d)'
    BY <1>6, <2>1 DEF MbQueued, MbQueuedOnce, MbQueuedAt, MbCaller
  <2>3. \A a, j : MbFliesAt(a, j, d)' <=> MbFliesAt(a, j, d) BY DEF MbFliesAt
  <2>4. MbFlies(d)' <=> MbFlies(d)
    <3>1. ASSUME NEW a \in mbBatches, NEW j \in Nat, MbFliesAt(a, j, d) PROVE MbFlies(d)'
      <4>1. CASE a = b BY <1>8, <1>12, <2>3, <3>1, <4>1 DEF MbFlies
      <4>2. CASE a # b BY <1>8, <2>3, <3>1, <4>2 DEF MbFlies
      <4> QED BY <4>1, <4>2
    <3>2. ASSUME NEW a \in mbBatches', NEW j \in Nat, MbFliesAt(a, j, d) PROVE MbFlies(d)
      BY <1>8, <1>12, <3>2 DEF MbFlies
    <3> QED BY <2>3, <3>1, <3>2 DEF MbFlies
  <2>5. MbFliesOnce(d)'
    <3> SUFFICES ASSUME NEW x \in mbBatches', NEW y \in mbBatches', NEW j \in Nat, NEW k \in Nat,
                        MbFliesAt(x, j, d), MbFliesAt(y, k, d)
                 PROVE  x = y /\ j = k
      BY <2>3 DEF MbFliesOnce
    <3>1. MbFliesOnce(d) BY <2>1 DEF MbCaller
    <3>2. CASE x = new /\ y = new BY <1>12, <3>1, <3>2 DEF MbFliesOnce
    <3>3. CASE x # new /\ y # new BY <1>8, <3>1, <3>3 DEF MbFliesOnce
    <3>4. CASE x = new /\ y # new BY <1>8, <1>12, <3>1, <3>4 DEF MbFliesOnce
    <3>5. CASE x # new /\ y = new BY <1>8, <1>12, <3>1, <3>5 DEF MbFliesOnce
    <3> QED BY <3>2, <3>3, <3>4, <3>5
  <2>6. mbValue[d] # MbNone => mbOutcome'[d] = mbOutcome[d]
    <3>1. mbValue[c] = MbNone
      <4>1. MbFlies(c) BY <1>3, <1>13 DEF MbFlies
      <4> QED BY <1>4, <4>1 DEF MbInv, MbCaller
    <3> QED BY <1>1, <1>5, <3>1 DEF MbTypes
  <2> QED BY <1>6, <2>1, <2>2, <2>4, <2>5, <2>6 DEF MbCaller
<1> QED BY <1>10, <1>11, <1>14, <1>15 DEF MbInv

\* A batch ends: its callers that still wait get an end, or their own result.
LEMMA MbEndKeeps ==
    ASSUME MbInv, NEW b \in mbBatches, mbBatches' = mbBatches \ {b},
           UNCHANGED <<mbCall, mbPending, mbQueue, mbScheduled, mbOutcome>>,
           mbStatus' \in [MbCallers -> MbOver \cup {"idle", "waiting"}],
           mbValue' \in [MbCallers -> MbItems \cup {MbNone}],
           \A c \in MbCallers : \/ mbStatus'[c] = mbStatus[c] /\ ~(mbStatus[c] = "waiting" /\ \E i \in Nat : MbFliesAt(b, i, c))
                                \/ mbStatus[c] = "waiting" /\ mbStatus'[c] \in MbOver,
           \A c \in MbCallers : \/ mbValue'[c] = mbValue[c]
                                \/ /\ \E i \in Nat : MbFliesAt(b, i, c)
                                   /\ mbValue'[c] = mbCall[c].item /\ mbOutcome[c] = "ok"
    PROVE  MbInv'
<1>1. MbTypes /\ MbKeyPresentWhileScheduled /\ MbOutcomesKept BY DEF MbInv
<1>2. MbTypes' BY <1>1 DEF MbTypes
<1>3. MbKeyPresentWhileScheduled' /\ MbOutcomesKept' BY <1>1 DEF MbKeyPresentWhileScheduled, MbOutcomesKept
<1>4. ASSUME NEW d \in MbCallers PROVE MbCaller(d)'
  <2>1. MbCaller(d) BY DEF MbInv
  <2>2. (MbQueued(d)' <=> MbQueued(d)) /\ MbQueuedOnce(d)'
    BY <2>1 DEF MbQueued, MbQueuedOnce, MbQueuedAt, MbCaller
  <2>3. \A a, j : MbFliesAt(a, j, d)' <=> MbFliesAt(a, j, d) BY DEF MbFliesAt
  <2>4. MbFliesOnce(d)' BY <2>1, <2>3 DEF MbCaller, MbFliesOnce
  <2>5. MbFlies(d)' => MbFlies(d) BY <2>3 DEF MbFlies
  <2>6. CASE \E i \in Nat : MbFliesAt(b, i, d)
    <3>1. MbFlies(d) /\ ~MbQueued(d) /\ mbValue[d] = MbNone BY <2>1, <2>6 DEF MbCaller, MbFlies
    <3>2. ~MbFlies(d)' BY <2>1, <2>3, <2>6 DEF MbFlies, MbCaller, MbFliesOnce
    <3>3. mbStatus[d] # "idle" BY <2>1, <3>1 DEF MbCaller
    <3>4. mbStatus'[d] # "waiting" /\ mbStatus'[d] # "idle" BY <2>6, <3>3 DEF MbOver
    <3> QED BY <2>2, <2>4, <3>1, <3>2, <3>4 DEF MbCaller
  <2>7. CASE ~\E i \in Nat : MbFliesAt(b, i, d)
    <3>1. MbFlies(d) => MbFlies(d)' BY <2>3, <2>7 DEF MbFlies
    <3>2. mbValue'[d] = mbValue[d] BY <2>7
    <3>3. mbStatus'[d] = mbStatus[d] \/ (mbStatus'[d] # "idle" /\ mbStatus'[d] # "waiting") BY DEF MbOver
    <3> QED BY <2>1, <2>2, <2>4, <2>5, <3>1, <3>2, <3>3 DEF MbCaller
  <2> QED BY <2>6, <2>7
<1> QED BY <1>2, <1>3, <1>4 DEF MbInv

\* A batch went well: its callers that still wait get their own results.
LEMMA MbAnswerKeeps == ASSUME MbInv, NEW b \in mbBatches, MbAnswer(b) PROVE MbInv'
<1>1. /\ MbFailures(b) = {}
      /\ mbBatches' = mbBatches \ {b}
      /\ UNCHANGED <<mbCall, mbPending, mbQueue, mbScheduled, mbStore, mbOutcome>>
  BY DEF MbAnswer
<1>2. mbStatus' = [c \in MbCallers |->
                    IF mbStatus[c] = "waiting" /\ \E i \in DOMAIN b.callers : b.callers[i] = c
                    THEN "ok" ELSE mbStatus[c]]
  BY DEF MbAnswer
<1>3. mbValue' = [c \in MbCallers |->
                   IF \E i \in DOMAIN b.callers : b.callers[i] = c /\ mbStatus[c] = "waiting"
                   THEN mbCall[b.callers[CHOOSE j \in DOMAIN b.callers : b.callers[j] = c]].item
                   ELSE mbValue[c]]
  BY DEF MbAnswer, MbResult
<1>4. MbTypes /\ MbOutcomesKept /\ MbBatchFits(b) BY DEF MbInv, MbTypes
<1>5. DOMAIN b.callers = 1..Len(b.callers) BY <1>4 DEF MbBatchFits
<1>6. \A c : (\E i \in DOMAIN b.callers : b.callers[i] = c) <=> \E i \in Nat : MbFliesAt(b, i, c)
  BY <1>5 DEF MbFliesAt
<1>7. mbStatus' \in [MbCallers -> MbOver \cup {"idle", "waiting"}] BY <1>2, <1>4 DEF MbTypes, MbOver
<1>8. \A c \in MbCallers : \/ mbStatus'[c] = mbStatus[c] /\ ~(mbStatus[c] = "waiting" /\ \E i \in Nat : MbFliesAt(b, i, c))
                           \/ mbStatus[c] = "waiting" /\ mbStatus'[c] \in MbOver
  BY <1>2, <1>6 DEF MbOver
<1>9. ASSUME NEW c \in MbCallers
      PROVE  \/ mbValue'[c] = mbValue[c]
             \/ /\ \E i \in Nat : MbFliesAt(b, i, c)
                /\ mbValue'[c] = mbCall[c].item /\ mbOutcome[c] = "ok"
  <2>1. CASE ~\E i \in DOMAIN b.callers : b.callers[i] = c /\ mbStatus[c] = "waiting" BY <1>3, <2>1
  <2>2. CASE \E i \in DOMAIN b.callers : b.callers[i] = c /\ mbStatus[c] = "waiting"
    <3> DEFINE j == CHOOSE k \in DOMAIN b.callers : b.callers[k] = c
    <3>1. j \in DOMAIN b.callers /\ b.callers[j] = c BY <2>2
    <3>2. mbValue'[c] = mbCall[b.callers[j]].item BY <1>3, <2>2
    <3> HIDE DEF j
    <3>3. b.outcomes[j] = "ok" BY <1>1, <3>1 DEF MbFailures
    <3>4. "ok" # MbNone BY MbAssumption
    <3>5. mbOutcome[c] = "ok" BY <1>4, <1>5, <3>1, <3>3, <3>4 DEF MbOutcomesKept
    <3> QED BY <1>6, <2>2, <3>1, <3>2, <3>5
  <2> QED BY <2>1, <2>2
<1>10. mbValue' \in [MbCallers -> MbItems \cup {MbNone}]
  <2>1. \A c \in MbCallers : mbCall[c].item \in MbItems \cup {MbNone} BY <1>4 DEF MbTypes
  <2>2. \A c \in MbCallers : mbValue'[c] \in MbItems \cup {MbNone} BY <1>4, <1>9, <2>1 DEF MbTypes
  <2>3. mbValue' = [c \in MbCallers |-> mbValue'[c]] BY <1>3
  <2> QED BY <2>2, <2>3
<1> QED BY <1>1, <1>7, <1>8, <1>9, <1>10, MbEndKeeps

\* A batch failed: its callers that still wait get its first error.
LEMMA MbAnswerErrorKeeps == ASSUME MbInv, NEW b \in mbBatches, MbAnswerError(b) PROVE MbInv'
<1>1. /\ \A i \in DOMAIN b.callers : b.outcomes[i] # MbNone
      /\ MbFailures(b) # {}
      /\ mbBatches' = mbBatches \ {b}
      /\ UNCHANGED <<mbCall, mbValue, mbPending, mbQueue, mbScheduled, mbStore, mbOutcome>>
  BY DEF MbAnswerError
<1>2. mbStatus' = [c \in MbCallers |->
                    IF mbStatus[c] = "waiting" /\ \E i \in DOMAIN b.callers : b.callers[i] = c
                    THEN MbCallEnd(c, MbFirstFailure(b)) ELSE mbStatus[c]]
  BY DEF MbAnswerError
<1>3. MbTypes /\ MbBatchFits(b) BY DEF MbInv, MbTypes
<1>4. DOMAIN b.callers = 1..Len(b.callers) BY <1>3 DEF MbBatchFits
<1>5. \A c : (\E i \in DOMAIN b.callers : b.callers[i] = c) <=> \E i \in Nat : MbFliesAt(b, i, c)
  BY <1>4 DEF MbFliesAt
<1>6. MbFirstFailure(b) \in MbOutcomes
  <2> DEFINE first == CHOOSE i \in MbFailures(b) : \A j \in MbFailures(b) : i <= j
  <2>1. MbFailures(b) \subseteq DOMAIN b.callers BY DEF MbFailures
  <2>2. MbFailures(b) \in SUBSET Nat BY <1>4, <2>1
  <2>3. \E i \in MbFailures(b) : \A j \in MbFailures(b) : i <= j BY <1>1, <2>2, LeastNumber
  <2>4. first \in MbFailures(b) BY <2>3
  <2>5. MbFirstFailure(b) = b.outcomes[first] BY DEF MbFirstFailure
  <2> HIDE DEF first
  <2> QED BY <1>1, <1>3, <1>4, <2>1, <2>4, <2>5 DEF MbBatchFits
<1>7. \A c \in MbCallers : MbCallEnd(c, MbFirstFailure(b)) \in MbOver BY <1>6 DEF MbCallEnd, MbOutcomes, MbOver
<1>8. mbStatus' \in [MbCallers -> MbOver \cup {"idle", "waiting"}] BY <1>2, <1>3, <1>7 DEF MbTypes
<1>9. \A c \in MbCallers : \/ mbStatus'[c] = mbStatus[c] /\ ~(mbStatus[c] = "waiting" /\ \E i \in Nat : MbFliesAt(b, i, c))
                           \/ mbStatus[c] = "waiting" /\ mbStatus'[c] \in MbOver
  BY <1>2, <1>5, <1>7
<1>10. mbValue' \in [MbCallers -> MbItems \cup {MbNone}] BY <1>1, <1>3 DEF MbTypes
<1> QED BY <1>1, <1>8, <1>9, <1>10, MbEndKeeps

\* Every step keeps the invariant.
LEMMA MbStepKeeps == MbInv /\ [MbNext]_mbVars => MbInv'
<1> SUFFICES ASSUME MbInv, [MbNext]_mbVars PROVE MbInv'
  OBVIOUS
<1>1. CASE UNCHANGED mbVars
  <2>1. UNCHANGED mbVars => (MbTypes => MbTypes') BY DEF MbTypes, mbVars
  <2>2. MbKeyPresentWhileScheduled' /\ MbOutcomesKept'
    BY <1>1 DEF mbVars, MbInv, MbKeyPresentWhileScheduled, MbOutcomesKept
  <2>3. \A c \in MbCallers : MbCaller(c)' BY <1>1, MbCallerStays DEF mbVars, MbInv
  <2> QED BY <1>1, <2>1, <2>2, <2>3 DEF MbInv
<1>2. CASE MbWork BY <1>2, MbFlushKeeps, MbRequestKeeps, MbAnswerKeeps, MbAnswerErrorKeeps DEF MbWork
<1>3. CASE MbQuiet BY <1>1, <1>3 DEF MbQuiet
<1>4. CASE \E c \in MbCallers : MbSubmit(c) \/ MbCancelCaller(c) BY <1>4, MbSubmitKeeps, MbCancelKeeps
<1> QED BY <1>1, <1>2, <1>3, <1>4 DEF MbNext

\* The counts of the property: where a caller is queued, and where it flies.
MbPlaces(c) == {at \in MbOps \X (1..Cardinality(MbCallers)) :
                    at[2] <= Len(mbQueue[at[1]]) /\ mbQueue[at[1]][at[2]] = c}
MbFlights(c) == {b \in mbBatches : \E i \in DOMAIN b.callers : b.callers[i] = c}

\* No list is longer than the callers are many.
LEMMA MbListIsShort ==
    ASSUME MbInv, NEW op \in MbOps
    PROVE  Len(mbQueue[op]) <= Cardinality(MbCallers) /\ Cardinality(MbCallers) \in Nat
<1> DEFINE n == Len(mbQueue[op])
           f == [i \in 1..n |-> mbQueue[op][i]]
<1>1. mbQueue[op] \in Seq(MbCallers) BY DEF MbInv, MbTypes
<1>2. n \in Nat /\ \A i \in 1..n : mbQueue[op][i] \in MbCallers BY <1>1
<1>3. IsFiniteSet(MbCallers) BY MbAssumption
<1>4. IsFiniteSet(1..n) /\ Cardinality(1..n) = n BY <1>2, FS_Interval
<1>5. f \in [1..n -> MbCallers] BY <1>2
<1>6. ASSUME NEW i \in 1..n, NEW j \in 1..n, f[i] = f[j] PROVE i = j
  <2>1. MbQueuedAt(op, i, f[i]) /\ MbQueuedAt(op, j, f[i]) BY <1>6 DEF MbQueuedAt
  <2>2. f[i] \in MbCallers BY <1>5
  <2> QED BY <2>1, <2>2 DEF MbInv, MbCaller, MbQueuedOnce
<1> HIDE DEF f
<1>7. f \in Injection(1..n, MbCallers) BY <1>5, <1>6 DEF Injection, IsInjective
<1>8. Cardinality(1..n) <= Cardinality(MbCallers) BY <1>3, <1>7, FS_Injection
<1> QED BY <1>3, <1>4, <1>8, FS_CardinalityType

\* A set with at most one member is counted so.
LEMMA AtMostOne ==
    ASSUME NEW S, \A x, y \in S : x = y
    PROVE  Cardinality(S) = IF S = {} THEN 0 ELSE 1
<1>1. CASE S = {} BY <1>1, FS_EmptySet
<1>2. CASE S # {}
  <2>1. PICK x \in S : TRUE BY <1>2
  <2>2. S = {x} BY <2>1
  <2> QED BY <1>2, <2>2, FS_Singleton
<1> QED BY <1>1, <1>2

\* The invariant counts right.
LEMMA MbCounts == MbInv => MbAnswersMatch
<1> SUFFICES ASSUME MbInv PROVE MbAnswersMatch
  OBVIOUS
<1>1. MbKeyPresentWhileScheduled BY DEF MbInv
<1>2. MbOwnResult BY DEF MbInv, MbCaller, MbOwnResult
<1>3. ASSUME NEW c \in MbCallers
      PROVE  /\ Cardinality(MbPlaces(c)) + Cardinality(MbFlights(c)) <= 1
             /\ mbStatus[c] = "waiting" => Cardinality(MbPlaces(c)) + Cardinality(MbFlights(c)) = 1
  <2>1. MbCaller(c) BY DEF MbInv
  <2>2. \A at \in MbPlaces(c) : at = <<at[1], at[2]>> /\ at[1] \in MbOps /\ at[2] \in Nat /\ MbQueuedAt(at[1], at[2], c)
    <3> SUFFICES ASSUME NEW at \in MbPlaces(c)
                 PROVE  at = <<at[1], at[2]>> /\ at[1] \in MbOps /\ at[2] \in Nat /\ MbQueuedAt(at[1], at[2], c)
      OBVIOUS
    <3>1. at \in MbOps \X (1..Cardinality(MbCallers)) BY DEF MbPlaces
    <3>2. at = <<at[1], at[2]>> /\ at[1] \in MbOps /\ at[2] \in 1..Cardinality(MbCallers) BY <3>1
    <3>3. Len(mbQueue[at[1]]) \in Nat BY <3>2 DEF MbInv, MbTypes
    <3>4. Cardinality(MbCallers) \in Nat BY MbAssumption, FS_CardinalityType
    <3> QED BY <3>2, <3>3, <3>4 DEF MbPlaces, MbQueuedAt
  <2>3. \A x, y \in MbPlaces(c) : x = y
    <3> SUFFICES ASSUME NEW x \in MbPlaces(c), NEW y \in MbPlaces(c) PROVE x = y
      OBVIOUS
    <3>1. x[1] = y[1] /\ x[2] = y[2] BY <2>1, <2>2 DEF MbCaller, MbQueuedOnce
    <3> QED BY <2>2, <3>1
  <2>4. MbPlaces(c) # {} <=> MbQueued(c)
    <3>1. MbPlaces(c) # {} => MbQueued(c) BY <2>2 DEF MbQueued
    <3>2. ASSUME NEW op \in MbOps, NEW i \in Nat, MbQueuedAt(op, i, c) PROVE <<op, i>> \in MbPlaces(c)
      <4>1. Len(mbQueue[op]) \in Nat BY DEF MbInv, MbTypes
      <4>2. i \in 1..Cardinality(MbCallers) BY <3>2, <4>1, MbListIsShort DEF MbQueuedAt
      <4>3. <<op, i>> \in MbOps \X (1..Cardinality(MbCallers)) BY <4>2
      <4>4. i <= Len(mbQueue[op]) /\ mbQueue[op][i] = c BY <3>2, <4>1 DEF MbQueuedAt
      <4> QED BY <4>3, <4>4 DEF MbPlaces
    <3> QED BY <3>1, <3>2 DEF MbQueued
  <2>5. \A b \in mbBatches : (\E i \in DOMAIN b.callers : b.callers[i] = c) <=> \E i \in Nat : MbFliesAt(b, i, c)
    <3> SUFFICES ASSUME NEW b \in mbBatches
                 PROVE  (\E i \in DOMAIN b.callers : b.callers[i] = c) <=> \E i \in Nat : MbFliesAt(b, i, c)
      OBVIOUS
    <3>1. DOMAIN b.callers = 1..Len(b.callers) BY DEF MbInv, MbTypes, MbBatchFits
    <3> QED BY <3>1 DEF MbFliesAt
  <2>6. \A x, y \in MbFlights(c) : x = y BY <2>1, <2>5 DEF MbFlights, MbCaller, MbFliesOnce
  <2>7. MbFlights(c) # {} <=> MbFlies(c) BY <2>5 DEF MbFlights, MbFlies
  <2>8. Cardinality(MbPlaces(c)) = IF MbPlaces(c) = {} THEN 0 ELSE 1 BY <2>3, AtMostOne
  <2>9. Cardinality(MbFlights(c)) = IF MbFlights(c) = {} THEN 0 ELSE 1 BY <2>6, AtMostOne
  <2>10. ~(MbPlaces(c) # {} /\ MbFlights(c) # {}) BY <2>1, <2>4, <2>7 DEF MbCaller
  <2>11. mbStatus[c] = "waiting" => MbPlaces(c) # {} \/ MbFlights(c) # {} BY <2>1, <2>4, <2>7 DEF MbCaller
  <2> QED BY <2>8, <2>9, <2>10, <2>11
<1>4. MbWaitingIsInFlight BY <1>3 DEF MbWaitingIsInFlight, MbPlaces, MbFlights
<1> QED BY <1>1, <1>2, <1>4 DEF MbAnswersMatch

\* A call is asked for once, in the batch it joined, whether its caller still
\* waits or was cancelled, and a result it is given is its own object's.
THEOREM AnswersMatch == MbSpec => []MbAnswersMatch
<1>1. MbSpec => []MbInv BY MbInitHolds, MbStepKeeps, PTL DEF MbSpec
<1> QED BY <1>1, MbCounts, PTL

-----------------------------------------------------------------------------
(* The walk of an HTTP listing.                                            *)

HwSeqs == Seq(HwNames \cup {"root"})
HwEntry == [dir : HwSeqs, todo : SUBSET HwSeqs, listed : BOOLEAN]

\* v is the page u or below it.
HwUnder(u, v) == Len(u) <= Len(v) /\ \A k \in 1..Len(u) : v[k] = u[k]

HwTypes ==
    /\ hwStack \in Seq(HwEntry) /\ hwListed \subseteq HwSeqs /\ hwTriples \in Seq(HwSeqs)
    /\ hwTopDown \in BOOLEAN
    /\ hwState = "walking" => hwStack # <<>>

\* The stack is a path down from the root, and what a directory has still to
\* visit is beside that path.
HwPath ==
    /\ \A i \in 1..Len(hwStack) :
         /\ Len(hwStack[i].dir) = i /\ hwStack[i].dir[1] = "root"
         /\ \A u \in hwStack[i].todo : u # <<>> /\ HwParent(u) = hwStack[i].dir
         /\ ~hwStack[i].listed => i = Len(hwStack) /\ hwStack[i].todo = {}
    /\ \A i \in 1..(Len(hwStack) - 1) : HwParent(hwStack[i + 1].dir) = hwStack[i].dir
    /\ \A i, j \in 1..Len(hwStack) : i < j => \A u \in hwStack[i].todo : ~HwUnder(u, hwStack[j].dir)

\* Nothing was listed below what is still to be listed, and an entry is marked
\* when its directory has been.
HwFresh ==
    /\ \A u \in hwListed : Len(u) > 0
    /\ \A i \in 1..Len(hwStack) :
         /\ ~hwStack[i].listed => \A v \in hwListed : ~HwUnder(hwStack[i].dir, v)
         /\ \A u \in hwStack[i].todo : \A v \in hwListed : ~HwUnder(u, v)
         /\ hwStack[i].listed => hwStack[i].dir \in hwListed

\* A triple is of a directory that was listed, and in bottom-up order of one
\* that has been left.
HwOrder ==
    /\ \A i \in 1..Len(hwTriples) : hwTriples[i] \in hwListed
    /\ ~hwTopDown => \A i \in 1..Len(hwTriples) : \A j \in 1..Len(hwStack) : hwTriples[i] # hwStack[j].dir

HwInv == HwTypes /\ HwPath /\ HwFresh /\ HwOrder /\ HwWalksTree

\* What is left of a sequence without its last element.
LEMMA WithoutLast ==
    ASSUME NEW S, NEW s \in Seq(S), s # <<>>
    PROVE  LET rest == SubSeq(s, 1, Len(s) - 1)
           IN  /\ rest \in Seq(S) /\ Len(rest) = Len(s) - 1 /\ Len(s) \in Nat \ {0}
               /\ \A i \in 1..(Len(s) - 1) : rest[i] = s[i]
<1> DEFINE n == Len(s) - 1
           rest == SubSeq(s, 1, n)
<1>1. n \in Nat /\ Len(s) = n + 1 OBVIOUS
<1>2. \A i \in 1..n : i \in 1..Len(s) BY <1>1
<1>3. /\ rest \in Seq(S) /\ Len(rest) = (IF 1 <= n THEN n - 1 + 1 ELSE 0)
      /\ \A i \in 1..(n - 1 + 1) : rest[i] = s[1 + i - 1]
  <2>1. \A i \in 1..n : s[i] \in S BY <1>2
  <2> QED BY <1>1, <2>1, SubSeqProperties
<1>4. n - 1 + 1 = n /\ \A i \in 1..n : 1 + i - 1 = i BY <1>1
<1>5. Len(rest) = n BY <1>1, <1>3
<1> HIDE DEF rest
<1>6. \A i \in 1..n : rest[i] = s[i] BY <1>3, <1>4
<1> QED BY <1>1, <1>3, <1>5, <1>6 DEF rest

\* The parent of a page is one name shorter.
LEMMA HwChild ==
    ASSUME NEW page \in HwSeqs, NEW url \in HwSeqs, url # <<>>, HwParent(url) = page
    PROVE  Len(url) = Len(page) + 1 /\ \A k \in 1..Len(page) : url[k] = page[k]
<1>1. Len(url) \in Nat /\ Len(url) > 0 BY DEF HwSeqs
<1>2. url \in Seq(HwNames \cup {"root"}) BY DEF HwSeqs
<1>3. page = SubSeq(url, 1, Len(url) - 1) BY DEF HwParent
<1>4. Len(page) = Len(url) - 1 /\ \A k \in 1..(Len(url) - 1) : page[k] = url[k] BY <1>2, <1>3, WithoutLast
<1> QED BY <1>1, <1>4

\* What iterdir keeps of a page's links are the page's children.
LEMMA HwFoundBelow ==
    ASSUME NEW page \in HwSeqs, page # <<>>, NEW found \in HwFound(page)
    PROVE  found.url \in HwSeqs /\ found.url # <<>> /\ HwParent(found.url) = page
<1>1. PICK link \in HwLinks(page) : /\ HwKept(page, link)
                                    /\ found = [url |-> IF link.other THEN <<>> ELSE link.url, slash |-> link.slash]
  BY DEF HwFound
<1>2. link.url \in HwUrls /\ link.other \in BOOLEAN /\ (link.other => link.under = <<>>)
      /\ (~link.special => (link.under = page <=> HwParent(link.url) = page))
  BY <1>1 DEF HwLinks
<1>3. HwParent(<<>>) = <<>> BY DEF HwParent
<1>4. ~link.other /\ HwParent(link.url) = page BY <1>1, <1>2 DEF HwKept, HwPlain, HwDirectChild
<1>5. \A u \in HwUrls : u \in HwSeqs
  <2>1. \A n \in 0..HwDepth : \A tail \in [1..n -> HwNames] : <<"root">> \o tail \in HwSeqs
    <3> SUFFICES ASSUME NEW n \in 0..HwDepth, NEW tail \in [1..n -> HwNames] PROVE <<"root">> \o tail \in HwSeqs
      OBVIOUS
    <3>1. n \in Nat BY HwAssumption
    <3>2. tail \in [1..n -> HwNames \cup {"root"}] OBVIOUS
    <3>3. tail \in Seq(HwNames \cup {"root"}) BY <3>1, <3>2
    <3>4. <<"root">> \in Seq(HwNames \cup {"root"}) OBVIOUS
    <3> QED BY <3>3, <3>4 DEF HwSeqs
  <2>2. <<>> \in HwSeqs BY DEF HwSeqs
  <2> QED BY <2>1, <2>2 DEF HwUrls
<1>6. found.url = link.url BY <1>1, <1>4
<1> QED BY <1>2, <1>3, <1>4, <1>5, <1>6

\* Entries as records.
LEMMA HwMarked ==
    ASSUME NEW entry \in HwEntry, NEW T
    PROVE  /\ [entry EXCEPT !.listed = TRUE, !.todo = T] = [dir |-> entry.dir, todo |-> T, listed |-> TRUE]
           /\ [entry EXCEPT !.todo = T] = [dir |-> entry.dir, todo |-> T, listed |-> entry.listed]
<1>1. PICK a, b, c : entry = [dir |-> a, todo |-> b, listed |-> c] BY DEF HwEntry
<1>2. entry.dir = a /\ entry.listed = c BY <1>1
<1>3. [entry EXCEPT !.todo = T] = [dir |-> a, todo |-> T, listed |-> c] BY <1>1
<1>4. ASSUME NEW x PROVE [entry EXCEPT !.listed = x] = [dir |-> a, todo |-> b, listed |-> x] BY <1>1
<1>5. ASSUME NEW x, NEW r, r = [dir |-> a, todo |-> b, listed |-> x]
      PROVE  [r EXCEPT !.todo = T] = [dir |-> a, todo |-> T, listed |-> x]
  BY <1>5
<1>6. \A x : [entry EXCEPT !.listed = x, !.todo = T] = [dir |-> a, todo |-> T, listed |-> x] BY <1>4, <1>5
<1> QED BY <1>2, <1>3, <1>6

\* The walk begins at the root.
LEMMA HwInitHolds == HwInit => HwInv
<1> SUFFICES ASSUME HwInit PROVE HwInv
  OBVIOUS
<1> DEFINE e == [dir |-> HwRoot, todo |-> {}, listed |-> FALSE]
<1>1. hwStack = <<e>> /\ hwListed = {} /\ hwTwice = {} /\ hwYielded = {} /\ hwTriples = <<>> /\ hwTopDown \in BOOLEAN
  BY DEF HwInit
<1>2. HwRoot \in HwSeqs /\ Len(HwRoot) = 1 /\ HwRoot[1] = "root" BY DEF HwRoot, HwSeqs
<1>3. e \in HwEntry /\ e.dir = HwRoot /\ e.todo = {} /\ e.listed = FALSE BY <1>2 DEF HwEntry
<1> HIDE DEF e
<1>4. hwStack \in Seq(HwEntry) /\ hwStack # <<>> /\ Len(hwStack) = 1 /\ hwStack[1] = e BY <1>1, <1>3
<1>5. HwTypes BY <1>1, <1>4 DEF HwTypes
<1>6. \A i \in 1..Len(hwStack) : i = 1 BY <1>4
<1>7. HwPath BY <1>2, <1>3, <1>4, <1>6 DEF HwPath
<1>8. HwFresh BY <1>1, <1>3, <1>4, <1>6 DEF HwFresh
<1>9. 1..Len(hwTriples) = {} /\ DOMAIN hwTriples = {} BY <1>1
<1>10. HwOrder BY <1>9 DEF HwOrder
<1>11. HwWalksTree BY <1>1, <1>9 DEF HwWalksTree, HwConfined, HwEachOnce
<1> QED BY <1>5, <1>7, <1>8, <1>10, <1>11 DEF HwInv

\* The directory on top of the stack.
LEMMA HwTopIs ==
    ASSUME HwInv, hwState = "walking"
    PROVE  /\ Len(hwStack) \in Nat \ {0} /\ HwTop = hwStack[Len(hwStack)] /\ HwTop \in HwEntry
           /\ Len(HwTop.dir) = Len(hwStack) /\ HwTop.dir # <<>>
           /\ HwPop \in Seq(HwEntry) /\ Len(HwPop) = Len(hwStack) - 1
           /\ \A i \in 1..(Len(hwStack) - 1) : HwPop[i] = hwStack[i]
<1>1. hwStack \in Seq(HwEntry) /\ hwStack # <<>> BY DEF HwInv, HwTypes
<1>2. Len(hwStack) \in Nat \ {0} BY <1>1
<1>3. HwTop = hwStack[Len(hwStack)] /\ HwTop \in HwEntry BY <1>1, <1>2 DEF HwTop
<1>4. Len(HwTop.dir) = Len(hwStack) BY <1>2, <1>3 DEF HwInv, HwPath
<1>5. HwTop.dir # <<>> BY <1>2, <1>4
<1>6. HwPop \in Seq(HwEntry) /\ Len(HwPop) = Len(hwStack) - 1 /\ \A i \in 1..(Len(hwStack) - 1) : HwPop[i] = hwStack[i]
  BY <1>1, WithoutLast DEF HwPop
<1> QED BY <1>2, <1>3, <1>4, <1>5, <1>6

\* The top is left, and no triple or a later one is yielded.
LEMMA HwPopKeeps ==
    ASSUME HwInv, hwState = "walking", hwStack' = HwPop, hwState' = HwAfterPop,
           UNCHANGED <<hwListed, hwTwice, hwYielded, hwTopDown>>,
           \/ hwTriples' = hwTriples
           \/ HwTop.listed /\ ~hwTopDown /\ hwTriples' = Append(hwTriples, HwTop.dir)
    PROVE  HwInv'
<1> DEFINE n == Len(hwStack)
<1>1. /\ n \in Nat \ {0} /\ HwTop = hwStack[n] /\ HwTop \in HwEntry /\ Len(HwTop.dir) = n /\ HwTop.dir # <<>>
      /\ HwPop \in Seq(HwEntry) /\ Len(HwPop) = n - 1 /\ \A i \in 1..(n - 1) : HwPop[i] = hwStack[i]
  BY HwTopIs
<1>2. HwTypes /\ HwPath /\ HwFresh /\ HwOrder /\ HwConfined /\ HwEachOnce BY DEF HwInv, HwWalksTree
<1>3. hwState' = "walking" => hwStack' # <<>> BY <1>1 DEF HwAfterPop
<1>4. Len(hwStack') = n - 1 /\ \A i \in 1..(n - 1) : hwStack'[i] = hwStack[i] BY <1>1
<1>5. HwTop.dir \in HwSeqs BY <1>1 DEF HwEntry
<1>6. hwTriples \in Seq(HwSeqs) /\ (HwTop.listed => HwTop.dir \in hwListed) BY <1>1, <1>2 DEF HwTypes, HwFresh
<1> DEFINE m == Len(hwTriples)
<1>7. \/ hwTriples' = hwTriples
      \/ /\ Len(hwTriples') = m + 1 /\ hwTriples'[m + 1] = HwTop.dir /\ \A i \in 1..m : hwTriples'[i] = hwTriples[i]
         /\ HwTop.dir \in hwListed /\ ~hwTopDown /\ DOMAIN hwTriples' = 1..(m + 1)
  BY <1>5, <1>6
<1>8. hwTriples' \in Seq(HwSeqs) /\ m \in Nat BY <1>5, <1>6
<1>9. \A i \in 1..(n - 1) : hwStack[i].dir # HwTop.dir
  <2>1. \A i \in 1..(n - 1) : Len(hwStack[i].dir) = i BY <1>1, <1>2 DEF HwPath
  <2> QED BY <1>1, <2>1
<1> HIDE DEF n, m
<1>10. HwTypes' BY <1>1, <1>2, <1>3, <1>8 DEF HwTypes
<1>11. HwPath'
  <2>1. \A i \in 1..(n - 1) : i \in 1..n /\ i < n BY <1>1
  <2>2. \A i \in 1..(n - 1) : hwStack[i].listed BY <1>1, <1>2, <2>1 DEF HwPath, n
  <2>3. \A i \in 1..((n - 1) - 1) : i \in 1..(n - 1) /\ i + 1 \in 1..(n - 1) BY <1>1
  <2>4. \A i \in 1..((n - 1) - 1) : HwParent(hwStack'[i + 1].dir) = hwStack'[i].dir
    BY <1>2, <1>4, <2>3 DEF HwPath, n
  <2>5. ASSUME NEW i \in 1..(n - 1)
        PROVE  /\ Len(hwStack'[i].dir) = i /\ hwStack'[i].dir[1] = "root"
               /\ \A u \in hwStack'[i].todo : u # <<>> /\ HwParent(u) = hwStack'[i].dir
               /\ hwStack'[i].listed
    BY <1>2, <1>4, <2>1, <2>2 DEF HwPath, n
  <2>6. ASSUME NEW i \in 1..(n - 1), NEW j \in 1..(n - 1), i < j
        PROVE  \A u \in hwStack'[i].todo : ~HwUnder(u, hwStack'[j].dir)
    <3>1. i \in 1..n /\ j \in 1..n BY <2>1
    <3>2. hwStack'[i] = hwStack[i] /\ hwStack'[j] = hwStack[j] BY <1>4
    <3> QED BY <1>2, <2>6, <3>1, <3>2 DEF HwPath, n
  <2> QED BY <1>4, <2>4, <2>5, <2>6 DEF HwPath
<1>12. HwFresh'
  <2>1. \A i \in 1..(n - 1) : i \in 1..n BY <1>1
  <2>2. ASSUME NEW i \in 1..(n - 1)
        PROVE  /\ ~hwStack'[i].listed => \A v \in hwListed : ~HwUnder(hwStack'[i].dir, v)
               /\ \A u \in hwStack'[i].todo : \A v \in hwListed : ~HwUnder(u, v)
               /\ hwStack'[i].listed => hwStack'[i].dir \in hwListed
    <3>1. hwStack'[i] = hwStack[i] BY <1>4
    <3> QED BY <1>2, <2>1, <3>1 DEF HwFresh, n
  <2> QED BY <1>2, <1>4, <2>2 DEF HwFresh
<1>13. HwOrder'
  <2>1. \A i \in 1..(n - 1) : i \in 1..n BY <1>1
  <2>2. \A i \in 1..Len(hwTriples') : hwTriples'[i] \in {hwTriples[j] : j \in 1..m} \/ (hwTriples'[i] = HwTop.dir /\ HwTop.dir \in hwListed)
    BY <1>7, <1>8 DEF m
  <2>3. \A i \in 1..Len(hwTriples') : hwTriples'[i] \in hwListed BY <1>2, <2>2 DEF HwOrder, m
  <2>4. ~hwTopDown => \A i \in 1..Len(hwTriples') : \A j \in 1..(n - 1) : hwTriples'[i] # hwStack'[j].dir
    BY <1>2, <1>4, <1>9, <2>1, <2>2 DEF HwOrder, m, n
  <2> QED BY <1>4, <2>3, <2>4 DEF HwOrder
<1>14. HwConfined' BY <1>2 DEF HwConfined
<1>15. HwEachOnce'
  <2>1. CASE hwTriples' = hwTriples BY <1>2, <2>1 DEF HwEachOnce
  <2>2. CASE hwTriples' # hwTriples
    <3>1. /\ hwTriples'[m + 1] = HwTop.dir /\ \A i \in 1..m : hwTriples'[i] = hwTriples[i]
          /\ ~hwTopDown /\ DOMAIN hwTriples' = 1..(m + 1)
      BY <1>7, <2>2
    <3>2. DOMAIN hwTriples = 1..m BY <1>6 DEF m
    <3>3. \A j \in 1..m : HwParent(HwTop.dir) # hwTriples[j]
      <4>1. CASE n = 1
        <5>1. HwParent(HwTop.dir) = <<>> BY <1>1, <1>5, <4>1 DEF HwParent, HwSeqs
        <5>2. \A j \in 1..m : Len(hwTriples[j]) > 0 BY <1>2 DEF HwOrder, HwFresh, m
        <5> QED BY <5>1, <5>2
      <4>2. CASE n # 1
        <5>1. n - 1 \in 1..(n - 1) /\ (n - 1) + 1 = n /\ n - 1 \in 1..n BY <1>1, <4>2
        <5>2. HwParent(HwTop.dir) = hwStack[n - 1].dir BY <1>1, <1>2, <5>1 DEF HwPath, n
        <5> QED BY <1>2, <3>1, <5>1, <5>2 DEF HwOrder, m, n
      <4> QED BY <4>1, <4>2
    <3>4. HwParent(HwTop.dir) # HwTop.dir
      <4>1. ASSUME HwParent(HwTop.dir) = HwTop.dir PROVE FALSE
        <5>1. Len(HwTop.dir) = Len(HwTop.dir) + 1 BY <1>1, <1>5, <4>1, HwChild
        <5> QED BY <1>1, <5>1
      <4> QED BY <4>1
    <3>5. ASSUME NEW i \in 1..(m + 1), NEW j \in 1..(m + 1), HwParent(hwTriples'[i]) = hwTriples'[j]
          PROVE  i < j
      <4>1. CASE i \in 1..m /\ j \in 1..m BY <1>2, <3>1, <3>2, <3>5, <4>1 DEF HwEachOnce
      <4>2. i = m + 1 => FALSE BY <1>8, <3>1, <3>3, <3>4, <3>5
      <4> QED BY <1>8, <4>1, <4>2
    <3>6. hwTwice' = {} BY <1>2 DEF HwEachOnce
    <3> QED BY <3>1, <3>5, <3>6 DEF HwEachOnce
  <2> QED BY <2>1, <2>2
<1> QED BY <1>10, <1>11, <1>12, <1>13, <1>14, <1>15 DEF HwInv, HwWalksTree

\* A directory is listed: its children are what is still to be visited.
LEMMA HwListKeeps == ASSUME HwInv, HwList PROVE HwInv'
<1> DEFINE n == Len(hwStack)
           top == HwTop
<1>1. /\ n \in Nat \ {0} /\ top = hwStack[n] /\ top \in HwEntry /\ Len(top.dir) = n /\ top.dir # <<>>
      /\ HwPop \in Seq(HwEntry) /\ Len(HwPop) = n - 1 /\ \A i \in 1..(n - 1) : HwPop[i] = hwStack[i]
  BY HwTopIs DEF HwList
<1>2. HwTypes /\ HwPath /\ HwFresh /\ HwOrder /\ HwConfined /\ HwEachOnce BY DEF HwInv, HwWalksTree
<1>3. PICK found \in SUBSET HwFound(top.dir) :
        /\ hwYielded' = hwYielded \cup {link.url : link \in found}
        /\ hwStack' = Append(HwPop, [top EXCEPT !.listed = TRUE, !.todo = {link.url : link \in {l \in found : l.slash}}])
  BY DEF HwList
<1>4. /\ hwState = "walking" /\ ~top.listed
      /\ hwTwice' = IF top.dir \in hwListed THEN hwTwice \cup {top.dir} ELSE hwTwice
      /\ hwListed' = hwListed \cup {top.dir}
      /\ hwTriples' = IF hwTopDown THEN Append(hwTriples, top.dir) ELSE hwTriples
      /\ UNCHANGED <<hwTopDown, hwOnError, hwState>>
  BY DEF HwList
<1> DEFINE todo == {link.url : link \in {l \in found : l.slash}}
           e == [dir |-> top.dir, todo |-> todo, listed |-> TRUE]
<1>5. hwStack' = Append(HwPop, e)
  <2>1. [top EXCEPT !.listed = TRUE, !.todo = todo] = e BY <1>1, HwMarked
  <2> QED BY <1>3, <2>1
<1>6. e.dir = top.dir /\ e.todo = todo /\ e.listed = TRUE OBVIOUS
<1>7. top.dir \in HwSeqs BY <1>1 DEF HwEntry
<1>8. \A link \in found : link.url \in HwSeqs /\ link.url # <<>> /\ HwParent(link.url) = top.dir
  BY <1>1, <1>7, HwFoundBelow
<1>9. \A u \in todo : u \in HwSeqs /\ u # <<>> /\ HwParent(u) = top.dir BY <1>8
<1> HIDE DEF todo, top
<1>10. e \in HwEntry BY <1>7, <1>9 DEF HwEntry
<1> HIDE DEF e
<1>11. /\ hwStack' \in Seq(HwEntry) /\ hwStack' # <<>> /\ Len(hwStack') = n /\ hwStack'[n] = e
       /\ \A i \in 1..(n - 1) : hwStack'[i] = hwStack[i]
  BY <1>1, <1>5, <1>10
<1> HIDE DEF n
<1>12. \A i \in 1..n : hwStack'[i].dir = hwStack[i].dir BY <1>1, <1>6, <1>11
<1>13. n \in 1..n /\ \A i \in 1..n : i = n \/ i \in 1..(n - 1) BY <1>1
<1>14. \A i \in 1..(n - 1) : i \in 1..n /\ i < n /\ i + 1 \in 1..n BY <1>1
<1>15. \A v \in hwListed : ~HwUnder(top.dir, v) BY <1>1, <1>2, <1>4, <1>13 DEF HwFresh, n
<1>16. top.dir \notin hwListed BY <1>15, <1>7 DEF HwUnder, HwSeqs
<1>17. \A u \in todo : Len(u) = n + 1 /\ \A k \in 1..n : u[k] = top.dir[k] BY <1>1, <1>7, <1>9, HwChild
<1> DEFINE m == Len(hwTriples)
<1>18. hwTriples \in Seq(HwSeqs) /\ m \in Nat /\ DOMAIN hwTriples = 1..m BY <1>2 DEF HwTypes
<1>19. \/ hwTriples' = hwTriples /\ ~hwTopDown
       \/ /\ Len(hwTriples') = m + 1 /\ hwTriples'[m + 1] = top.dir /\ \A i \in 1..m : hwTriples'[i] = hwTriples[i]
          /\ hwTopDown /\ DOMAIN hwTriples' = 1..(m + 1)
  <2>1. CASE ~hwTopDown BY <1>4, <2>1
  <2>2. CASE hwTopDown
    <3>1. hwTriples' = Append(hwTriples, top.dir) BY <1>4, <2>2
    <3>2. /\ Append(hwTriples, top.dir) \in Seq(HwSeqs) /\ Len(Append(hwTriples, top.dir)) = m + 1
          /\ Append(hwTriples, top.dir)[m + 1] = top.dir /\ \A i \in 1..m : Append(hwTriples, top.dir)[i] = hwTriples[i]
      BY <1>7, <1>18, AppendProperties
    <3> QED BY <2>2, <3>1, <3>2
  <2> QED BY <2>1, <2>2
<1>20. hwTriples' \in Seq(HwSeqs) BY <1>4, <1>7, <1>18
<1> HIDE DEF m
<1>21. HwTypes' BY <1>2, <1>4, <1>7, <1>11, <1>20 DEF HwTypes
<1>22. HwPath'
  <2>1. ASSUME NEW i \in 1..n
        PROVE  /\ Len(hwStack'[i].dir) = i /\ hwStack'[i].dir[1] = "root"
               /\ \A u \in hwStack'[i].todo : u # <<>> /\ HwParent(u) = hwStack'[i].dir
               /\ hwStack'[i].listed
    <3>1. Len(hwStack'[i].dir) = i /\ hwStack'[i].dir[1] = "root" BY <1>2, <1>12 DEF HwPath, n
    <3>2. CASE i = n BY <1>6, <1>9, <1>11, <3>1, <3>2
    <3>3. CASE i \in 1..(n - 1)
      <4>1. hwStack'[i] = hwStack[i] /\ i < n BY <1>11, <1>14, <3>3
      <4> QED BY <1>2, <3>1, <4>1 DEF HwPath, n
    <3> QED BY <1>13, <3>2, <3>3
  <2>2. ASSUME NEW i \in 1..(n - 1) PROVE HwParent(hwStack'[i + 1].dir) = hwStack'[i].dir
    BY <1>2, <1>12, <1>14 DEF HwPath, n
  <2>3. ASSUME NEW i \in 1..n, NEW j \in 1..n, i < j
        PROVE  \A u \in hwStack'[i].todo : ~HwUnder(u, hwStack'[j].dir)
    <3>1. i \in 1..(n - 1) BY <1>1, <2>3
    <3>2. hwStack'[i] = hwStack[i] /\ hwStack'[j].dir = hwStack[j].dir BY <1>11, <1>12, <3>1
    <3> QED BY <1>2, <2>3, <3>2 DEF HwPath, n
  <2> QED BY <1>11, <2>1, <2>2, <2>3 DEF HwPath
<1>23. HwFresh'
  <2>1. \A u \in hwListed' : Len(u) > 0 BY <1>1, <1>2, <1>4 DEF HwFresh
  <2>2. ASSUME NEW i \in 1..n PROVE \A u \in hwStack'[i].todo : \A v \in hwListed' : ~HwUnder(u, v)
    <3>1. CASE i = n
      <4>1. hwStack'[i].todo = todo BY <1>6, <1>11, <3>1
      <4>2. \A u \in todo : ~HwUnder(u, top.dir) BY <1>1, <1>17 DEF HwUnder
      <4>3. ASSUME NEW u \in todo, NEW v \in hwListed, HwUnder(u, v) PROVE FALSE
        <5>1. Len(v) \in Nat BY <1>2 DEF HwTypes, HwSeqs
        <5>2. HwUnder(top.dir, v) BY <1>1, <1>17, <4>3, <5>1 DEF HwUnder
        <5> QED BY <1>15, <5>2
      <4> QED BY <1>4, <4>1, <4>2, <4>3
    <3>2. CASE i \in 1..(n - 1)
      <4>1. hwStack'[i] = hwStack[i] /\ i < n BY <1>11, <1>14, <3>2
      <4>2. \A u \in hwStack[i].todo : ~HwUnder(u, top.dir) BY <1>1, <1>2, <1>13, <4>1 DEF HwPath, n
      <4> QED BY <1>2, <1>4, <4>1, <4>2 DEF HwFresh, n
    <3> QED BY <1>13, <3>1, <3>2
  <2>3. \A i \in 1..n : hwStack'[i].listed /\ hwStack'[i].dir \in hwListed'
    <3>1. \A i \in 1..(n - 1) : hwStack[i].listed /\ hwStack[i].dir \in hwListed
      BY <1>2, <1>14 DEF HwPath, HwFresh, n
    <3> QED BY <1>4, <1>6, <1>11, <1>13, <3>1
  <2> QED BY <1>11, <2>1, <2>2, <2>3 DEF HwFresh
<1>24. HwOrder'
  <2>1. ASSUME NEW i \in 1..Len(hwTriples') PROVE hwTriples'[i] \in hwListed'
    <3>1. CASE hwTriples' = hwTriples BY <1>2, <1>4, <3>1 DEF HwOrder
    <3>2. CASE hwTriples' # hwTriples
      <4>1. i \in 1..m \/ i = m + 1 BY <1>18, <1>19, <3>2
      <4>2. i \in 1..m => hwTriples[i] \in hwListed BY <1>2 DEF HwOrder, m
      <4> QED BY <1>4, <1>19, <3>2, <4>1, <4>2
    <3> QED BY <3>1, <3>2
  <2>2. ~hwTopDown => \A i \in 1..Len(hwTriples') : \A j \in 1..n : hwTriples'[i] # hwStack'[j].dir
    BY <1>2, <1>12, <1>19 DEF HwOrder, n
  <2> QED BY <1>4, <1>11, <2>1, <2>2 DEF HwOrder
<1>25. HwConfined'
  <2>1. ASSUME NEW link \in found PROVE Len(link.url) > 1 /\ link.url[1] = "root"
    <3>1. Len(link.url) = n + 1 /\ \A k \in 1..n : link.url[k] = top.dir[k] BY <1>1, <1>7, <1>8, HwChild
    <3>2. top.dir[1] = "root" /\ 1 \in 1..n BY <1>1, <1>2, <1>13 DEF HwPath, n
    <3> QED BY <1>1, <3>1, <3>2
  <2> QED BY <1>2, <1>3, <2>1 DEF HwConfined
<1>26. HwEachOnce'
  <2>1. hwTwice' = {} BY <1>2, <1>4, <1>16 DEF HwEachOnce
  <2>2. CASE ~hwTopDown BY <1>2, <1>4, <1>19, <2>1, <2>2 DEF HwEachOnce
  <2>3. CASE hwTopDown
    <3>1. /\ hwTriples'[m + 1] = top.dir /\ \A i \in 1..m : hwTriples'[i] = hwTriples[i]
          /\ hwTopDown' /\ DOMAIN hwTriples' = 1..(m + 1)
      BY <1>4, <1>19, <2>3
    <3>2. HwParent(top.dir) # top.dir
      <4>1. ASSUME HwParent(top.dir) = top.dir PROVE FALSE
        <5>1. Len(top.dir) = Len(top.dir) + 1 BY <1>1, <1>7, <4>1, HwChild
        <5> QED BY <1>1, <5>1
      <4> QED BY <4>1
    <3>3. ASSUME NEW i \in 1..m, HwParent(hwTriples[i]) = top.dir PROVE FALSE
      <4>1. hwTriples[i] \in hwListed /\ hwTriples[i] \in HwSeqs BY <1>2, <1>18 DEF HwOrder, m
      <4>2. hwTriples[i] # <<>> BY <1>2, <4>1 DEF HwFresh
      <4>3. Len(hwTriples[i]) = n + 1 /\ \A k \in 1..n : hwTriples[i][k] = top.dir[k]
        BY <1>1, <1>7, <3>3, <4>1, <4>2, HwChild
      <4>4. HwUnder(top.dir, hwTriples[i]) BY <1>1, <4>3 DEF HwUnder
      <4> QED BY <1>15, <4>1, <4>4
    <3>4. ASSUME NEW i \in 1..(m + 1), NEW j \in 1..(m + 1), HwParent(hwTriples'[i]) = hwTriples'[j]
          PROVE  j < i
      <4>1. i \in 1..m \/ i = m + 1 BY <1>18
      <4>2. j \in 1..m \/ j = m + 1 BY <1>18
      <4>3. CASE i \in 1..m /\ j \in 1..m BY <1>2, <1>18, <2>3, <3>1, <3>4, <4>3 DEF HwEachOnce
      <4>4. CASE i \in 1..m /\ j = m + 1 BY <3>1, <3>3, <3>4, <4>4
      <4>5. CASE i = m + 1 /\ j = m + 1 BY <3>1, <3>2, <3>4, <4>5
      <4>6. i = m + 1 /\ j \in 1..m => j < i BY <1>18
      <4> QED BY <4>1, <4>2, <4>3, <4>4, <4>5, <4>6
    <3> QED BY <2>1, <3>1, <3>4 DEF HwEachOnce
  <2> QED BY <2>2, <2>3
<1> QED BY <1>21, <1>22, <1>23, <1>24, <1>25, <1>26 DEF HwInv, HwWalksTree

\* The walk goes down into a child.
LEMMA HwDescendKeeps == ASSUME HwInv, HwDescend PROVE HwInv'
<1> DEFINE n == Len(hwStack)
           top == HwTop
<1>1. /\ n \in Nat \ {0} /\ top = hwStack[n] /\ top \in HwEntry /\ Len(top.dir) = n /\ top.dir # <<>>
      /\ HwPop \in Seq(HwEntry) /\ Len(HwPop) = n - 1 /\ \A i \in 1..(n - 1) : HwPop[i] = hwStack[i]
  BY HwTopIs DEF HwDescend
<1>2. HwTypes /\ HwPath /\ HwFresh /\ HwOrder /\ HwWalksTree BY DEF HwInv
<1>3. PICK dir \in top.todo :
        hwStack' = HwPop \o <<[top EXCEPT !.todo = @ \ {dir}], [dir |-> dir, todo |-> {}, listed |-> FALSE]>>
  BY DEF HwDescend
<1>4. /\ hwState = "walking" /\ top.listed
      /\ UNCHANGED <<hwListed, hwTwice, hwYielded, hwTriples, hwTopDown, hwOnError, hwState>>
  BY DEF HwDescend
<1> DEFINE rest == top.todo \ {dir}
           d == [dir |-> top.dir, todo |-> rest, listed |-> top.listed]
           e == [dir |-> dir, todo |-> {}, listed |-> FALSE]
<1>5. hwStack' = HwPop \o <<d, e>>
  <2>1. [top EXCEPT !.todo = @ \ {dir}] = d BY <1>1, HwMarked
  <2> QED BY <1>3, <2>1
<1>6. d.dir = top.dir /\ d.todo = rest /\ d.listed /\ e.dir = dir /\ e.todo = {} /\ ~e.listed BY <1>4
<1>7. rest \subseteq top.todo /\ dir \notin rest OBVIOUS
<1>8. top.dir \in HwSeqs /\ top.todo \subseteq HwSeqs BY <1>1 DEF HwEntry
<1>9. \A u \in top.todo : u # <<>> /\ HwParent(u) = top.dir BY <1>1, <1>2 DEF HwPath
<1>10. \A u \in top.todo : Len(u) = n + 1 /\ \A k \in 1..n : u[k] = top.dir[k] BY <1>1, <1>8, <1>9, HwChild
<1> HIDE DEF top
<1>11. d \in HwEntry /\ e \in HwEntry BY <1>4, <1>7, <1>8 DEF HwEntry
<1> HIDE DEF rest, d, e
<1>12. /\ hwStack' \in Seq(HwEntry) /\ hwStack' # <<>> /\ Len(hwStack') = n + 1
       /\ hwStack'[n] = d /\ hwStack'[n + 1] = e
       /\ \A i \in 1..(n - 1) : hwStack'[i] = hwStack[i]
  <2>1. hwStack' = Append(Append(HwPop, d), e) BY <1>1, <1>5, <1>11
  <2>2. /\ Append(HwPop, d) \in Seq(HwEntry) /\ Len(Append(HwPop, d)) = n /\ Append(HwPop, d)[n] = d
        /\ \A i \in 1..(n - 1) : Append(HwPop, d)[i] = HwPop[i]
    BY <1>1, <1>11
  <2> DEFINE p == Append(HwPop, d)
  <2>3. p \in Seq(HwEntry) /\ Len(p) = n /\ p[n] = d /\ \A i \in 1..(n - 1) : p[i] = HwPop[i] BY <2>2
  <2>4. hwStack' = Append(p, e) BY <2>1
  <2> HIDE DEF p
  <2>5. /\ hwStack' \in Seq(HwEntry) /\ Len(hwStack') = n + 1 /\ hwStack'[n + 1] = e
        /\ \A i \in 1..n : hwStack'[i] = p[i]
    BY <1>11, <2>3, <2>4
  <2>6. n \in 1..n /\ \A i \in 1..(n - 1) : i \in 1..n BY <1>1
  <2>7. hwStack' # <<>> BY <1>1, <2>5
  <2> QED BY <1>1, <2>3, <2>5, <2>6, <2>7
<1> HIDE DEF n
<1>13. \A i \in 1..n : /\ hwStack'[i].dir = hwStack[i].dir /\ hwStack'[i].todo \subseteq hwStack[i].todo
                       /\ (hwStack'[i].listed <=> hwStack[i].listed)
  BY <1>1, <1>4, <1>6, <1>7, <1>12
<1>14. n \in 1..n /\ \A i \in 1..(n + 1) : i = n + 1 \/ i \in 1..n BY <1>1
<1>15. \A i \in 1..n : hwStack[i].listed
  BY <1>1, <1>2, <1>4 DEF HwPath, n
<1>16. dir \in HwSeqs /\ Len(dir) = n + 1 /\ HwParent(dir) = top.dir BY <1>3, <1>8, <1>9, <1>10
<1>17. top.dir[1] = "root" BY <1>1, <1>2, <1>14 DEF HwPath, n
<1>18. dir[1] = "root" BY <1>1, <1>3, <1>10, <1>17
<1>19. HwTypes' BY <1>2, <1>4, <1>12 DEF HwTypes
<1>20. HwPath'
  <2>1. ASSUME NEW i \in 1..(n + 1)
        PROVE  /\ Len(hwStack'[i].dir) = i /\ hwStack'[i].dir[1] = "root"
               /\ \A u \in hwStack'[i].todo : u # <<>> /\ HwParent(u) = hwStack'[i].dir
               /\ ~hwStack'[i].listed => i = n + 1 /\ hwStack'[i].todo = {}
    <3>1. CASE i = n + 1 BY <1>6, <1>12, <1>16, <1>18, <3>1
    <3>2. CASE i \in 1..n BY <1>2, <1>13, <1>15, <3>2 DEF HwPath, n
    <3> QED BY <1>14, <3>1, <3>2
  <2>2. ASSUME NEW i \in 1..n PROVE HwParent(hwStack'[i + 1].dir) = hwStack'[i].dir
    <3>1. CASE i = n BY <1>1, <1>6, <1>12, <1>16, <3>1
    <3>2. CASE i # n
      <4>1. i \in 1..(n - 1) /\ i + 1 \in 1..n BY <1>1, <3>2
      <4>2. HwParent(hwStack[i + 1].dir) = hwStack[i].dir BY <1>2, <4>1 DEF HwPath, n
      <4> QED BY <1>13, <4>1, <4>2
    <3> QED BY <3>1, <3>2
  <2>3. ASSUME NEW i \in 1..(n + 1), NEW j \in 1..(n + 1), i < j, NEW u \in hwStack'[i].todo
        PROVE  ~HwUnder(u, hwStack'[j].dir)
    <3>1. i \in 1..n BY <1>1, <2>3
    <3>2. CASE j \in 1..n
      <4>1. u \in hwStack[i].todo BY <1>13, <3>1
      <4> QED BY <1>2, <1>13, <2>3, <3>1, <3>2, <4>1 DEF HwPath, n
    <3>3. CASE j = n + 1 /\ i = n
      <4>1. u \in rest /\ hwStack'[j].dir = dir BY <1>6, <1>12, <3>3
      <4>2. u \in top.todo /\ u # dir BY <1>7, <4>1
      <4>3. u \in Seq(HwNames \cup {"root"}) /\ dir \in Seq(HwNames \cup {"root"}) /\ Len(u) = Len(dir)
        BY <1>8, <1>10, <1>16, <4>2 DEF HwSeqs
      <4>4. ASSUME HwUnder(u, dir) PROVE FALSE
        <5>1. \A k \in 1..Len(u) : u[k] = dir[k] BY <4>4 DEF HwUnder
        <5>2. u = dir BY <4>3, <5>1
        <5> QED BY <4>2, <5>2
      <4> QED BY <4>1, <4>4
    <3>4. CASE j = n + 1 /\ i # n
      <4>1. i \in 1..(n - 1) /\ i < n BY <1>1, <3>1, <3>4
      <4>2. hwStack'[j].dir = dir /\ u \in hwStack[i].todo BY <1>6, <1>12, <1>13, <3>1, <3>4
      <4>3. ~HwUnder(u, top.dir) BY <1>1, <1>2, <1>14, <3>1, <4>1, <4>2 DEF HwPath, n
      <4>4. Len(u) = i + 1
        <5>1. hwStack[i] \in HwEntry BY <1>2, <3>1 DEF HwTypes, n
        <5>2. u \in HwSeqs /\ hwStack[i].dir \in HwSeqs BY <4>2, <5>1 DEF HwEntry
        <5>3. u # <<>> /\ HwParent(u) = hwStack[i].dir /\ Len(hwStack[i].dir) = i BY <1>2, <3>1, <4>2 DEF HwPath, n
        <5> QED BY <5>2, <5>3, HwChild
      <4>5. Len(u) <= n /\ Len(u) \in Nat BY <1>1, <4>1, <4>4
      <4>6. ASSUME HwUnder(u, dir) PROVE HwUnder(u, top.dir)
        <5>1. \A k \in 1..Len(u) : k \in 1..n BY <1>1, <4>5
        <5>2. \A k \in 1..Len(u) : u[k] = top.dir[k] BY <1>3, <1>10, <4>6, <5>1 DEF HwUnder
        <5> QED BY <1>1, <4>5, <5>2 DEF HwUnder
      <4> QED BY <4>2, <4>3, <4>6
    <3> QED BY <1>14, <3>2, <3>3, <3>4
  <2>4. (n + 1) - 1 = n BY <1>1
  <2> QED BY <1>12, <2>1, <2>2, <2>3, <2>4 DEF HwPath
<1>21. HwFresh'
  <2>1. ASSUME NEW i \in 1..(n + 1)
        PROVE  /\ ~hwStack'[i].listed => \A v \in hwListed : ~HwUnder(hwStack'[i].dir, v)
               /\ \A u \in hwStack'[i].todo : \A v \in hwListed : ~HwUnder(u, v)
               /\ hwStack'[i].listed => hwStack'[i].dir \in hwListed
    <3>1. CASE i = n + 1
      <4>1. \A v \in hwListed : ~HwUnder(dir, v) BY <1>1, <1>2, <1>3, <1>14 DEF HwFresh, n
      <4> QED BY <1>6, <1>12, <3>1, <4>1
    <3>2. CASE i \in 1..n BY <1>2, <1>13, <1>15, <3>2 DEF HwFresh, n
    <3> QED BY <1>14, <3>1, <3>2
  <2> QED BY <1>2, <1>4, <1>12, <2>1 DEF HwFresh
<1>22. HwOrder'
  <2>1. ASSUME NEW i \in 1..Len(hwTriples) PROVE hwTriples[i] # dir
    <3>1. hwTriples[i] \in hwListed /\ hwTriples[i] \in HwSeqs BY <1>2 DEF HwOrder, HwTypes
    <3>2. ~HwUnder(dir, hwTriples[i]) BY <1>1, <1>2, <1>3, <1>14, <3>1 DEF HwFresh, n
    <3> QED BY <1>16, <3>2 DEF HwUnder, HwSeqs
  <2>2. ~hwTopDown => \A i \in 1..Len(hwTriples) : \A j \in 1..(n + 1) : hwTriples[i] # hwStack'[j].dir
    BY <1>2, <1>6, <1>12, <1>13, <1>14, <2>1 DEF HwOrder, n
  <2> QED BY <1>2, <1>4, <1>12, <2>2 DEF HwOrder
<1>23. HwWalksTree' BY <1>2, <1>4 DEF HwWalksTree, HwConfined, HwEachOnce
<1> QED BY <1>19, <1>20, <1>21, <1>22, <1>23 DEF HwInv

\* Every step keeps the invariant.
LEMMA HwStepKeeps == HwInv /\ [HwNext]_hwVars => HwInv'
<1> SUFFICES ASSUME HwInv, [HwNext]_hwVars PROVE HwInv'
  OBVIOUS
<1>1. ASSUME UNCHANGED <<hwStack, hwListed, hwTwice, hwYielded, hwTriples, hwTopDown>>,
             hwState' = hwState \/ hwState' # "walking"
      PROVE  HwInv'
  <2>1. HwTypes' /\ HwOrder' BY <1>1 DEF HwInv, HwTypes, HwOrder
  <2>2. HwPath' BY <1>1 DEF HwInv, HwPath, HwUnder
  <2>3. HwFresh' BY <1>1 DEF HwInv, HwFresh, HwUnder
  <2>4. HwWalksTree' BY <1>1 DEF HwInv, HwWalksTree, HwConfined, HwEachOnce
  <2> QED BY <2>1, <2>2, <2>3, <2>4 DEF HwInv
<1>2. CASE UNCHANGED hwVars \/ HwDone BY <1>1, <1>2 DEF hwVars, HwDone
<1>3. CASE HwList BY <1>3, HwListKeeps
<1>4. CASE HwListFails
  <2>1. CASE hwStack' = HwPop /\ hwState' = HwAfterPop BY <1>4, <2>1, HwPopKeeps DEF HwListFails
  <2>2. CASE hwState' = "raised" /\ UNCHANGED hwStack BY <1>1, <1>4, <2>2 DEF HwListFails
  <2> QED BY <1>4, <2>1, <2>2 DEF HwListFails
<1>5. CASE HwDescend BY <1>5, HwDescendKeeps
<1>6. CASE HwReturn BY <1>6, HwPopKeeps DEF HwReturn, HwInv, HwTypes
<1> QED BY <1>2, <1>3, <1>4, <1>5, <1>6 DEF HwNext

\* Whatever links the pages hold, the walk yields only URLs of its own host
\* below its root, lists no directory twice, and yields a parent's triple
\* before its children's or, in bottom-up order, after them.
THEOREM WalksTree == HwSpec => []HwWalksTree
<1>1. HwSpec => []HwInv BY HwInitHolds, HwStepKeeps, PTL DEF HwSpec
<1>2. HwInv => HwWalksTree BY DEF HwInv
<1> QED BY <1>1, <1>2, PTL
-----------------------------------------------------------------------------
(* The removal of a tree over SFTP.                                        *)

StPlaces == StOver \cup {"idle", "list", "children", "wait", "request"}
StTypes == stThere \subseteq StNodes /\ stFound \in [StDirs -> SUBSET StNodes] /\ stPc \in [StNodes -> StPlaces]

\* The task of a node was begun by its directory, which knows it.
StBegun ==
    \A n \in StNodes \ {StRoot} : stPc[n] # "idle" =>
        n \in stFound[StParent[n]] /\ stPc[StParent[n]] \notin {"idle", "list"}

\* A directory that is removed or over has waited for all it found.
StWaited ==
    \A d \in StDirs : /\ stPc[d] \in {"idle", "list"} => stFound[d] = {}
                      /\ stPc[d] \in StOver \cup {"wait", "request"} => StAllSettled(d)

\* No task has begun in nodes from which no way leads up to the root.
StFromRoot ==
    \A U \in SUBSET (StNodes \ {StRoot}) :
        (\A n \in U : StParent[n] \in U) => \A n \in U : stPc[n] = "idle"

StInv == StTypes /\ StBegun /\ StWaited /\ StFromRoot

\* No task has begun.
LEMMA StInitHolds == StInit => StInv
<1> SUFFICES ASSUME StInit PROVE StInv
  OBVIOUS
<1>1. \A n \in StNodes : stPc[n] = "idle" BY DEF StInit
<1>2. StTypes BY DEF StInit, StTypes, StPlaces
<1>3. StDirs \subseteq StNodes BY StAssumption
<1>4. StBegun BY <1>1 DEF StBegun
<1>5. StWaited BY <1>1, <1>3 DEF StInit, StWaited, StOver
<1>6. StFromRoot BY <1>1 DEF StFromRoot
<1> QED BY <1>2, <1>4, <1>5, <1>6 DEF StInv

\* A task that has begun and is not over goes on, and what it found is over if
\* it does not wait for it.
LEMMA StMoves ==
    ASSUME StInv, NEW n \in StNodes, stPc[n] \notin StOver, stPc[n] # "idle" \/ n = StRoot, NEW place \in StPlaces \ {"idle", "children"},
           stPc' = [stPc EXCEPT ![n] = place], UNCHANGED stFound, stThere' \subseteq StNodes,
           place # "list" /\ n \in StDirs => StAllSettled(n),
           place = "list" => stPc[n] = "idle"
    PROVE  StInv'
<1>1. StTypes /\ StBegun /\ StWaited /\ StFromRoot BY DEF StInv
<1>2. \A m \in StNodes : stPc'[m] = IF m = n THEN place ELSE stPc[m] BY <1>1 DEF StTypes
<1>3. StDirs \subseteq StNodes /\ \A m \in StNodes \ {StRoot} : StParent[m] \in StNodes /\ StParent[m] \in StDirs BY StAssumption
<1>4. StTypes' BY <1>1 DEF StTypes
<1>5. StBegun'
  <2> SUFFICES ASSUME NEW m \in StNodes \ {StRoot}, stPc'[m] # "idle"
               PROVE  m \in stFound[StParent[m]] /\ stPc'[StParent[m]] \notin {"idle", "list"}
    BY DEF StBegun
  <2>1. stPc[m] # "idle" BY <1>2
  <2>2. m \in stFound[StParent[m]] /\ stPc[StParent[m]] \notin {"idle", "list"} BY <1>1, <2>1 DEF StBegun
  <2> QED BY <1>2, <1>3, <2>2
<1>6. StWaited'
  <2> SUFFICES ASSUME NEW d \in StDirs
               PROVE  /\ stPc'[d] \in {"idle", "list"} => stFound[d] = {}
                      /\ stPc'[d] \in StOver \cup {"wait", "request"} => StAllSettled(d)'
    BY DEF StWaited
  <2>1. stFound[d] \subseteq StNodes BY <1>1 DEF StTypes
  <2>2. StAllSettled(d) => StAllSettled(d)' BY <1>2, <2>1 DEF StAllSettled
  <2>3. CASE d = n BY <1>1, <1>2, <2>2, <2>3 DEF StWaited, StOver
  <2>4. CASE d # n BY <1>1, <1>2, <1>3, <2>2, <2>4 DEF StWaited
  <2> QED BY <2>3, <2>4
<1>7. StFromRoot'
  <2> SUFFICES ASSUME NEW U \in SUBSET (StNodes \ {StRoot}), \A m \in U : StParent[m] \in U
               PROVE  \A m \in U : stPc'[m] = "idle"
    BY DEF StFromRoot
  <2>1. \A m \in U : stPc[m] = "idle" BY <1>1 DEF StFromRoot
  <2> QED BY <1>2, <2>1
<1> QED BY <1>4, <1>5, <1>6, <1>7 DEF StInv

\* A directory begins the tasks of what it found.
LEMMA StListKeeps == ASSUME StInv, NEW d \in StDirs, StList(d) PROVE StInv'
<1>1. StTypes /\ StBegun /\ StWaited /\ StFromRoot BY DEF StInv
<1>2. StDirs \subseteq StNodes /\ \A m \in StNodes \ {StRoot} : StParent[m] \in StDirs BY StAssumption
<1> DEFINE new == StChildren(d)
<1>3. /\ new \subseteq StNodes \ {StRoot} /\ \A n \in new : StParent[n] = d
  BY DEF StChildren
<1>4. /\ stPc[d] = "list" /\ stFound' = [stFound EXCEPT ![d] = new] /\ UNCHANGED stThere
      /\ stPc' = [n \in StNodes |-> IF n = d THEN "children"
                                    ELSE IF n \in new THEN (IF n \in StDirs THEN "list" ELSE "wait") ELSE stPc[n]]
  BY DEF StList
<1> HIDE DEF new
<1>5. \A n \in new : stPc[n] = "idle"
  <2> SUFFICES ASSUME NEW n \in new, stPc[n] # "idle" PROVE FALSE
    OBVIOUS
  <2>1. stPc[StParent[n]] # "list" BY <1>1, <1>3 DEF StBegun
  <2> QED BY <1>3, <1>4, <2>1
<1>6. d \notin new BY <1>4, <1>5
<1>7. \A n \in StNodes : stPc'[n] = IF n = d THEN "children"
                                    ELSE IF n \in new THEN (IF n \in StDirs THEN "list" ELSE "wait") ELSE stPc[n]
  BY <1>4
<1>8. \A c \in StDirs : stFound'[c] = IF c = d THEN new ELSE stFound[c] BY <1>1, <1>4 DEF StTypes
<1>9. StTypes' BY <1>1, <1>3, <1>4 DEF StTypes, StPlaces
<1>10. StBegun'
  <2> SUFFICES ASSUME NEW m \in StNodes \ {StRoot}, stPc'[m] # "idle"
               PROVE  m \in stFound'[StParent[m]] /\ stPc'[StParent[m]] \notin {"idle", "list"}
    BY DEF StBegun
  <2>1. CASE m \in new BY <1>2, <1>3, <1>7, <1>8, <2>1
  <2>2. CASE m \notin new
    <3>1. stPc[m] # "idle" BY <1>4, <1>7, <2>2
    <3>2. m \in stFound[StParent[m]] /\ stPc[StParent[m]] \notin {"idle", "list"} BY <1>1, <3>1 DEF StBegun
    <3>3. StParent[m] # d /\ StParent[m] \notin new /\ StParent[m] \in StDirs BY <1>2, <1>4, <1>5, <3>2
    <3> QED BY <1>2, <1>7, <1>8, <3>2, <3>3
  <2> QED BY <2>1, <2>2
<1>11. StWaited'
  <2> SUFFICES ASSUME NEW c \in StDirs
               PROVE  /\ stPc'[c] \in {"idle", "list"} => stFound'[c] = {}
                      /\ stPc'[c] \in StOver \cup {"wait", "request"} => StAllSettled(c)'
    BY DEF StWaited
  <2>1. CASE c = d BY <1>2, <1>7, <2>1 DEF StOver
  <2>2. CASE c \in new
    <3>1. stPc'[c] = "list" /\ stFound'[c] = stFound[c] BY <1>2, <1>6, <1>7, <1>8, <2>2
    <3>2. stFound[c] = {} BY <1>1, <1>5, <2>2 DEF StWaited
    <3> QED BY <3>1, <3>2 DEF StOver
  <2>3. CASE c # d /\ c \notin new
    <3>1. stPc'[c] = stPc[c] /\ stFound'[c] = stFound[c] BY <1>2, <1>7, <1>8, <2>3
    <3>2. stFound[c] \subseteq StNodes BY <1>1 DEF StTypes
    <3>3. \A m \in StNodes : stPc[m] \in StOver => stPc'[m] \in StOver BY <1>4, <1>5, <1>7 DEF StOver
    <3>4. StAllSettled(c) => StAllSettled(c)' BY <3>1, <3>2, <3>3 DEF StAllSettled
    <3> QED BY <1>1, <3>1, <3>4 DEF StWaited
  <2> QED BY <2>1, <2>2, <2>3
<1>12. StFromRoot'
  <2> SUFFICES ASSUME NEW U \in SUBSET (StNodes \ {StRoot}), \A m \in U : StParent[m] \in U, NEW n \in U
               PROVE  stPc'[n] = "idle"
    BY DEF StFromRoot
  <2>1. \A m \in U : stPc[m] = "idle" BY <1>1 DEF StFromRoot
  <2>2. d \notin U BY <1>4, <2>1
  <2>3. n # d /\ n \notin new BY <1>3, <2>2
  <2> QED BY <1>7, <2>1, <2>3
<1> QED BY <1>9, <1>10, <1>11, <1>12 DEF StInv

\* Every step keeps the invariant.
LEMMA StStepKeeps == StInv /\ [StNext]_stVars => StInv'
<1> SUFFICES ASSUME StInv, [StNext]_stVars PROVE StInv'
  OBVIOUS
<1>1. StTypes /\ StWaited BY DEF StInv
<1>2. StDirs \subseteq StNodes /\ StRoot \in StDirs BY StAssumption
<1>3. CASE StRmdir
  <2>1. stPc[StRoot] = "idle" /\ stPc' = [stPc EXCEPT ![StRoot] = "list"] /\ UNCHANGED <<stThere, stFound>>
    BY <1>3 DEF StRmdir
  <2> QED BY <1>1, <1>2, <2>1, StMoves DEF StTypes, StPlaces, StOver
<1>4. ASSUME NEW n \in StNodes, StAcquire(n) PROVE StInv'
  <2>1. stPc[n] = "wait" /\ stPc' = [stPc EXCEPT ![n] = "request"] /\ UNCHANGED <<stThere, stFound>>
    BY <1>4 DEF StAcquire
  <2>2. n \in StDirs => StAllSettled(n) BY <1>1, <2>1 DEF StWaited
  <2> QED BY <1>1, <2>1, <2>2, StMoves DEF StTypes, StPlaces, StOver
<1>5. ASSUME NEW n \in StNodes, StRequest(n) PROVE StInv'
  <2>1. /\ stPc[n] = "request" /\ UNCHANGED stFound /\ stThere' \subseteq stThere
        /\ \E place \in StOver : stPc' = [stPc EXCEPT ![n] = place]
    BY <1>5 DEF StRequest, StOver
  <2>2. n \in StDirs => StAllSettled(n) BY <1>1, <2>1 DEF StWaited
  <2>3. PICK place \in StOver : stPc' = [stPc EXCEPT ![n] = place] BY <2>1
  <2> QED BY <1>1, <2>1, <2>2, <2>3, StMoves DEF StTypes, StPlaces, StOver
<1>6. ASSUME NEW d \in StDirs, StList(d) PROVE StInv' BY <1>6, StListKeeps
<1>7. ASSUME NEW d \in StDirs, StListFails(d) PROVE StInv'
  <2>1. stPc[d] = "list" /\ stPc' = [stPc EXCEPT ![d] = "failed"] /\ UNCHANGED <<stThere, stFound>>
    BY <1>7 DEF StListFails
  <2>2. StAllSettled(d) BY <1>1, <2>1 DEF StWaited, StAllSettled
  <2> QED BY <1>1, <1>2, <2>1, <2>2, StMoves DEF StTypes, StPlaces, StOver
<1>8. ASSUME NEW d \in StDirs, StGathered(d) PROVE StInv'
  <2>1. /\ stPc[d] = "children" /\ StAllSettled(d) /\ UNCHANGED <<stThere, stFound>>
        /\ \E place \in {"failed", "wait"} : stPc' = [stPc EXCEPT ![d] = place]
    BY <1>8 DEF StGathered
  <2>2. PICK place \in {"failed", "wait"} : stPc' = [stPc EXCEPT ![d] = place] BY <2>1
  <2> QED BY <1>1, <1>2, <2>1, <2>2, StMoves DEF StTypes, StPlaces, StOver
<1>9. CASE UNCHANGED stVars
  BY <1>9 DEF stVars, StInv, StTypes, StBegun, StWaited, StFromRoot, StAllSettled
<1> QED BY <1>3, <1>4, <1>5, <1>6, <1>7, <1>8, <1>9 DEF StNext, StStep, StIdle

\* When the removal of a tree is over, nothing of it still runs or waits for the
\* semaphore, however deep the tree is and whatever failed.
THEOREM RemovalSettled == StSpec => []StSettled
<1>1. StInv => StSettled
  <2> SUFFICES ASSUME StInv, stPc[StRoot] \in StOver, NEW n \in StNodes PROVE stPc[n] \in StOver \cup {"idle"}
    BY DEF StSettled
  <2> DEFINE U == {m \in StNodes : stPc[m] \notin StOver \cup {"idle"}}
  <2>1. U \in SUBSET (StNodes \ {StRoot}) OBVIOUS
  <2>2. ASSUME NEW m \in U PROVE StParent[m] \in U
    <3>1. m \in StNodes \ {StRoot} /\ stPc[m] # "idle" /\ stPc[m] \notin StOver BY <2>1
    <3>2. StParent[m] \in StDirs /\ StParent[m] \in StNodes BY <3>1, StAssumption
    <3>3. m \in stFound[StParent[m]] /\ stPc[StParent[m]] # "idle" BY <3>1 DEF StInv, StBegun
    <3>4. ~StAllSettled(StParent[m]) BY <3>1, <3>3 DEF StAllSettled
    <3>5. stPc[StParent[m]] \notin StOver BY <3>2, <3>4 DEF StInv, StWaited
    <3> QED BY <3>2, <3>3, <3>5
  <2>3. \A m \in StNodes : m \in U <=> stPc[m] \notin StOver \cup {"idle"} OBVIOUS
  <2> HIDE DEF U
  <2>4. \A m \in U : stPc[m] = "idle" BY <2>1, <2>2 DEF StInv, StFromRoot
  <2> QED BY <2>3, <2>4
<1> QED BY <1>1, StInitHolds, StStepKeeps, PTL DEF StSpec
-----------------------------------------------------------------------------
(* The synchronous facade.                                                 *)

SrPlaces == {"idle", "get", "locked", "start", "new loop", "new thread", "run thread", "submit", "waiting", "done"}

\* Only the thread that has the lock makes the runner, and once; what a call
\* gives is wrapped.
SrInv ==
    /\ srPc \in [SrThreads -> SrPlaces] /\ srGiven \in [SrThreads -> SrResults \ {"async path"}]
    /\ srRunner \in BOOLEAN /\ srMade \in {0, 1} /\ (srRunner \/ srMade = 0)
    /\ \A t \in SrThreads : srPc[t] = "locked" => srLock = {t}

\* A step outside of the lock.
LEMMA SrOutside ==
    ASSUME SrInv, UNCHANGED <<srMade, srRunner, srLock>>,
           NEW t \in SrThreads, NEW place \in SrPlaces \ {"locked"}, srPc' = [srPc EXCEPT ![t] = place],
           srGiven' \in [SrThreads -> SrResults \ {"async path"}]
    PROVE  SrInv'
BY DEF SrInv

\* Nobody has called.
LEMMA SrInitHolds == SrInit => SrInv
BY DEF SrInit, SrInv, SrPlaces, SrResults

\* Every step keeps the invariant.
LEMMA SrStepKeeps == SrInv /\ [SrNext]_srVars => SrInv'
<1> SUFFICES ASSUME SrInv, [SrNext]_srVars PROVE SrInv'
  OBVIOUS
<1> DEFINE Outside(t) ==
             /\ UNCHANGED <<srMade, srRunner, srLock>>
             /\ \E place \in SrPlaces \ {"locked"} : srPc' = [srPc EXCEPT ![t] = place]
             /\ srGiven' \in [SrThreads -> SrResults \ {"async path"}]
<1>1. ASSUME NEW t \in SrThreads, Outside(t) PROVE SrInv'
  <2>1. PICK place \in SrPlaces \ {"locked"} : srPc' = [srPc EXCEPT ![t] = place] BY <1>1
  <2> QED BY <1>1, <2>1, SrOutside
<1>2. srGiven \in [SrThreads -> SrResults \ {"async path"}] BY DEF SrInv
<1>3. \A result \in SrResults : SrWrap(result) \in SrResults \ {"async path"} BY DEF SrWrap, SrResults
<1>4. ASSUME NEW t \in SrThreads, SrGetattr(t) PROVE Outside(t)
  <2>1. PICK kind \in SrKinds, result \in SrResults \ {"walk triple"} :
          /\ srGiven' = [srGiven EXCEPT ![t] = IF kind \in SrBlocking THEN @ ELSE SrWrap(result)]
          /\ srPc' = [srPc EXCEPT ![t] = IF kind \notin SrBlocking THEN "done" ELSE IF srRunner THEN "start" ELSE "get"]
    BY <1>4 DEF SrGetattr
  <2>2. UNCHANGED <<srMade, srRunner, srLock>> BY <1>4 DEF SrGetattr
  <2>3. SrWrap(result) \in SrResults \ {"async path"} BY <1>3
  <2>4. srGiven' \in [SrThreads -> SrResults \ {"async path"}] BY <1>2, <2>1, <2>3
  <2> DEFINE to == IF kind \notin SrBlocking THEN "done" ELSE IF srRunner THEN "start" ELSE "get"
  <2>5. to \in SrPlaces \ {"locked"} BY DEF SrPlaces
  <2> HIDE DEF to
  <2>6. srPc' = [srPc EXCEPT ![t] = to] BY <2>1 DEF to
  <2> QED BY <2>2, <2>4, <2>5, <2>6
<1>5. ASSUME NEW t \in SrThreads, SrStart(t) \/ SrNewLoop(t) \/ SrNewThread(t) \/ SrRunThread(t) \/ SrSubmit(t)
      PROVE  Outside(t)
  <2>1. UNCHANGED <<srMade, srRunner, srLock, srGiven>>
    BY <1>5 DEF SrStart, SrNewLoop, SrNewThread, SrRunThread, SrSubmit
  <2>2. \E place \in SrPlaces \ {"locked"} : srPc' = [srPc EXCEPT ![t] = place]
    BY <1>5 DEF SrStart, SrNewLoop, SrNewThread, SrRunThread, SrSubmit, SrPlaces
  <2> QED BY <1>2, <2>1, <2>2
<1>6. ASSUME NEW t \in SrThreads, SrAnswer(t) PROVE Outside(t)
  <2>1. UNCHANGED <<srMade, srRunner, srLock>> BY <1>6 DEF SrAnswer
  <2>2. \E place \in SrPlaces \ {"locked"} : srPc' = [srPc EXCEPT ![t] = place] BY <1>6 DEF SrAnswer, SrPlaces
  <2>3. srGiven' \in [SrThreads -> SrResults \ {"async path"}]
    <3>1. \/ \E result \in SrResults : srGiven' = [srGiven EXCEPT ![t] = SrWrap(result)]
          \/ srGiven' = srGiven
      BY <1>6 DEF SrAnswer
    <3> QED BY <1>2, <1>3, <3>1
  <2> QED BY <2>1, <2>2, <2>3
<1>7. ASSUME NEW t \in SrThreads, SrAcquire(t) PROVE SrInv'
  <2>1. srLock = {} /\ srLock' = {t} /\ srPc' = [srPc EXCEPT ![t] = "locked"] /\ UNCHANGED <<srMade, srRunner, srGiven>>
    BY <1>7 DEF SrAcquire
  <2> QED BY <2>1 DEF SrInv, SrPlaces
<1>8. ASSUME NEW t \in SrThreads, SrMake(t) PROVE SrInv'
  <2>1. /\ srPc[t] = "locked" /\ srMade' = (IF ~srRunner THEN srMade + 1 ELSE srMade) /\ srRunner' = TRUE
        /\ srPc' = [srPc EXCEPT ![t] = "start"] /\ UNCHANGED srGiven
    BY <1>8 DEF SrMake, SrSecondCheck
  <2>2. \A u \in SrThreads : srPc'[u] = "locked" => u # t /\ srPc[u] = "locked" BY <2>1 DEF SrInv
  <2>3. \A u \in SrThreads : srPc'[u] # "locked" BY <2>1, <2>2 DEF SrInv
  <2>4. srMade' \in {0, 1}
    <3>1. srMade \in {0, 1} /\ (srRunner \/ srMade = 0) BY DEF SrInv
    <3>2. CASE srRunner
      <4>1. srMade' = srMade BY <2>1, <3>2
      <4> QED BY <3>1, <4>1
    <3>3. CASE ~srRunner
      <4>1. srMade = 0 BY <3>1, <3>3
      <4>2. srMade' = srMade + 1 BY <2>1, <3>3
      <4> QED BY <4>1, <4>2
    <3> QED BY <3>2, <3>3
  <2> QED BY <2>1, <2>3, <2>4 DEF SrInv, SrPlaces
<1>9. ASSUME NEW t \in SrThreads, SrCallback(t) PROVE SrInv' BY <1>9 DEF SrCallback, SrInv
<1>10. CASE UNCHANGED srVars BY <1>10 DEF srVars, SrInv
<1> HIDE DEF Outside
<1> QED BY <1>1, <1>4, <1>5, <1>6, <1>7, <1>8, <1>9, <1>10 DEF SrNext, SrStep, SrDone

\* Whichever threads call the facade first, one runner is made, and no call
\* returns a path whose methods have to be awaited.
THEOREM FacadeIsBlocking == SrSpec => []SrOneRunner /\ []SrStaysSync
<1>1. SrInv => SrOneRunner
  <2>1. SrInv => srMade \in {0, 1} BY DEF SrInv
  <2> QED BY <2>1 DEF SrOneRunner
<1>2. SrInv => SrStaysSync
  <2>1. SrInv => srGiven \in [SrThreads -> SrResults \ {"async path"}] BY DEF SrInv
  <2> QED BY <2>1 DEF SrStaysSync
<1> QED BY <1>1, <1>2, SrInitHolds, SrStepKeeps, PTL DEF SrSpec

-----------------------------------------------------------------------------
(* Deriving paths by parsing their text.                                   *)

\* One name more, and ".." drops the one before it.
PaStep(seq, name) ==
    IF name # ".." THEN Append(seq, name)
    ELSE SubSeq(seq, 1, IF Len(seq) > 1 THEN Len(seq) - 1 ELSE Len(seq))

PaRun(text, n, f) == f = [i \in 0..n |-> IF i = 0 THEN <<>> ELSE PaStep(f[i - 1], text[i])]

\* What a run says.
LEMMA PaRunSays ==
    ASSUME NEW text, NEW n \in Nat, NEW f, PaRun(text, n, f)
    PROVE  f[0] = <<>> /\ \A i \in 1..n : f[i] = PaStep(f[i - 1], text[i])
<1>1. \A i \in 0..n : f[i] = IF i = 0 THEN <<>> ELSE PaStep(f[i - 1], text[i]) BY DEF PaRun
<1> QED BY <1>1

\* There is one for every length.
LEMMA PaRunExists == ASSUME NEW text PROVE \A n \in Nat : \E f : PaRun(text, n, f)
<1> DEFINE Bad == {n \in Nat : ~\E f : PaRun(text, n, f)}
<1>1. \A n \in Nat : n \in Bad <=> ~\E f : PaRun(text, n, f) OBVIOUS
<1>2. Bad \in SUBSET Nat OBVIOUS
<1> HIDE DEF Bad
<1>3. ASSUME Bad # {} PROVE FALSE
  <2>1. PICK n \in Bad : \A m \in Bad : n <= m BY <1>2, <1>3, LeastNumber
  <2>2. n \in Nat BY <1>2, <2>1
  <2>3. CASE n = 0
    <3> DEFINE f == [i \in 0..0 |-> <<>>]
    <3>1. f = [i \in 0..0 |-> IF i = 0 THEN <<>> ELSE PaStep(f[i - 1], text[i])] OBVIOUS
    <3>2. PaRun(text, 0, f) BY <3>1 DEF PaRun
    <3> QED BY <1>1, <2>1, <2>2, <2>3, <3>2
  <2>4. CASE n # 0
    <3>1. n - 1 \in Nat /\ n - 1 \notin Bad BY <2>1, <2>2, <2>4
    <3>2. PICK g : PaRun(text, n - 1, g) BY <1>1, <3>1
    <3>3. g[0] = <<>> /\ \A i \in 1..(n - 1) : g[i] = PaStep(g[i - 1], text[i]) BY <3>1, <3>2, PaRunSays
    <3> DEFINE f == [i \in 0..n |-> IF i = n THEN PaStep(g[n - 1], text[n]) ELSE g[i]]
    <3>4. ASSUME NEW i \in 0..n PROVE f[i] = IF i = 0 THEN <<>> ELSE PaStep(f[i - 1], text[i])
      <4>1. CASE i = 0 BY <2>2, <2>4, <3>3, <4>1
      <4>2. CASE i \in 1..(n - 1)
        <5>1. f[i] = g[i] /\ f[i - 1] = g[i - 1] /\ i # 0 BY <2>2, <4>2
        <5>2. g[i] = PaStep(g[i - 1], text[i]) BY <3>3, <4>2
        <5> HIDE DEF f
        <5> QED BY <5>1, <5>2
      <4>3. CASE i = n
        <5>1. f[i] = PaStep(g[n - 1], text[n]) /\ f[i - 1] = g[n - 1] /\ i # 0 BY <2>2, <2>4, <4>3
        <5> HIDE DEF f
        <5> QED BY <4>3, <5>1
      <4> QED BY <2>2, <4>1, <4>2, <4>3
    <3>5. f = [i \in 0..n |-> f[i]] OBVIOUS
    <3> HIDE DEF f
    <3>6. f = [i \in 0..n |-> IF i = 0 THEN <<>> ELSE PaStep(f[i - 1], text[i])] BY <3>4, <3>5
    <3>7. PaRun(text, n, f) BY <3>6 DEF PaRun
    <3> QED BY <1>1, <2>1, <2>2, <3>7
  <2> QED BY <2>3, <2>4
<1> QED BY <1>1, <1>3

\* The URL library's result is the end of any such run.
LEMMA PaUpIs ==
    ASSUME NEW text, Len(text) \in Nat, NEW r, r[0] = <<>>, \A i \in 1..Len(text) : r[i] = PaStep(r[i - 1], text[i])
    PROVE  PaUp(text) = r[Len(text)]
<1> DEFINE n == Len(text)
           f == CHOOSE run : PaRun(text, n, run)
           Bad == {i \in 0..n : f[i] # r[i]}
<1>1. PaUp(text) = f[n] BY DEF PaUp, PaRun, PaStep
<1>2. n \in Nat OBVIOUS
<1>3. PaRun(text, n, f)
  <2>1. \E run : PaRun(text, n, run) BY <1>2, PaRunExists
  <2> QED BY <2>1
<1> HIDE DEF f, n
<1>4. f[0] = <<>> /\ \A i \in 1..n : f[i] = PaStep(f[i - 1], text[i]) BY <1>2, <1>3, PaRunSays
<1>5. Bad \in SUBSET Nat /\ \A i \in 0..n : i \in Bad <=> f[i] # r[i] BY <1>2
<1>6. \A i \in Bad : i \in 0..n OBVIOUS
<1> HIDE DEF Bad
<1>7. ASSUME Bad # {} PROVE FALSE
  <2>1. PICK i \in Bad : \A j \in Bad : i <= j BY <1>5, <1>7, LeastNumber
  <2>2. i \in 0..n /\ f[i] # r[i] BY <1>5, <1>6, <2>1
  <2>3. i # 0 BY <1>4, <2>2
  <2>4. i \in 1..n /\ i - 1 \in 0..n /\ ~(i <= i - 1) BY <1>2, <2>2, <2>3
  <2>5. f[i - 1] = r[i - 1] BY <1>5, <2>1, <2>4
  <2>6. r[i] = PaStep(r[i - 1], text[i]) BY <2>4 DEF n
  <2>7. f[i] = PaStep(f[i - 1], text[i]) BY <1>4, <2>4
  <2> QED BY <2>2, <2>5, <2>6, <2>7
<1>8. n \in 0..n BY <1>2
<1> QED BY <1>1, <1>5, <1>7, <1>8 DEF n

\* Names without "..".
PaClean(text) == text \in Seq(PaWords) /\ \A i \in 1..Len(text) : text[i] # ".."

\* They stay as they are.
LEMMA PaUpClean == ASSUME NEW text, PaClean(text) PROVE PaUp(text) = text
<1>1. text \in Seq(PaWords) /\ Len(text) \in Nat /\ \A i \in 1..Len(text) : text[i] # ".." BY DEF PaClean
<1> DEFINE n == Len(text)
           r == [i \in 0..n |-> SubSeq(text, 1, i)]
<1>2. r[0] = <<>> /\ r[n] = text BY <1>1
<1>3. ASSUME NEW i \in 1..n PROVE r[i] = PaStep(r[i - 1], text[i])
  <2>1. r[i] = SubSeq(text, 1, i) /\ r[i - 1] = SubSeq(text, 1, i - 1) BY <1>1
  <2>2. SubSeq(text, 1, i) = Append(SubSeq(text, 1, i - 1), text[i]) BY <1>1
  <2> QED BY <1>1, <2>1, <2>2 DEF PaStep
<1> HIDE DEF r
<1>4. PaUp(text) = r[n] BY <1>1, <1>2, <1>3, PaUpIs
<1> QED BY <1>2, <1>4

\* Each ".." drops a name before it, as long as one is left.
LEMMA PaUpBack ==
    ASSUME NEW from, PaClean(from), NEW on, PaClean(on), NEW k \in Nat, k < Len(from),
           NEW up, up = [i \in 1..k |-> ".."]
    PROVE  PaUp(from \o (up \o on)) = SubSeq(from, 1, Len(from) - k) \o on
<1>1. from \in Seq(PaWords) /\ Len(from) \in Nat /\ \A i \in 1..Len(from) : from[i] # ".." BY DEF PaClean
<1>2. on \in Seq(PaWords) /\ Len(on) \in Nat /\ \A i \in 1..Len(on) : on[i] # ".." BY DEF PaClean
<1>3. up \in Seq(PaWords) /\ Len(up) = k /\ \A i \in 1..k : up[i] = ".."
  <2>5. \A i \in 1..k : up[i] = ".." OBVIOUS
  <2>6. ".." \in PaWords BY DEF PaWords
  <2>1. up \in [1..k -> PaWords] /\ \A i \in 1..k : up[i] = ".." BY <2>5, <2>6
  <2>2. up \in Seq(PaWords) BY <2>1
  <2>3. DOMAIN up = 1..k OBVIOUS
  <2>4. Len(up) = k BY <2>2, <2>3
  <2> QED BY <2>1, <2>2, <2>4
<1> DEFINE a == Len(from)
           b == Len(on)
           text == from \o (up \o on)
           at(i) == IF i <= a THEN SubSeq(from, 1, i)
                    ELSE IF i <= a + k THEN SubSeq(from, 1, a + a - i)
                    ELSE SubSeq(from, 1, a - k) \o SubSeq(on, 1, i - a - k)
           r == [i \in 0..(a + k + b) |-> at(i)]
<1>4. Len(text) = a + k + b BY <1>1, <1>2, <1>3
<1>5. \A i \in 1..a : text[i] = from[i] BY <1>1, <1>2, <1>3
<1>6. \A i \in (a + 1)..(a + k) : text[i] = ".."
  <2> SUFFICES ASSUME NEW i \in (a + 1)..(a + k) PROVE text[i] = ".."
    OBVIOUS
  <2>1. i - a \in 1..k BY <1>1
  <2>2. (up \o on)[i - a] = up[i - a] BY <1>2, <1>3, <2>1
  <2>3. text[i] = (up \o on)[i - a] BY <1>1, <1>2, <1>3
  <2> QED BY <1>3, <2>1, <2>2, <2>3
<1>7. \A i \in (a + k + 1)..(a + k + b) : text[i] = on[i - a - k]
  <2> SUFFICES ASSUME NEW i \in (a + k + 1)..(a + k + b) PROVE text[i] = on[i - a - k]
    OBVIOUS
  <2>1. i - a \in (k + 1)..(k + b) BY <1>1, <1>2
  <2>2. (up \o on)[i - a] = on[i - a - k] BY <1>2, <1>3, <2>1
  <2>3. text[i] = (up \o on)[i - a] BY <1>1, <1>2, <1>3
  <2> QED BY <2>2, <2>3
<1> HIDE DEF text
<1>8. \A i \in 0..(a + k + b) : r[i] = at(i) OBVIOUS
<1>9. r[0] = <<>> BY <1>1, <1>2
<1> HIDE DEF r
<1>10. ASSUME NEW i \in 1..(a + k + b) PROVE r[i] = PaStep(r[i - 1], text[i])
  <2>1. r[i] = at(i) /\ r[i - 1] = at(i - 1)
    <3>1. i \in 0..(a + k + b) /\ i - 1 \in 0..(a + k + b) BY <1>1, <1>2
    <3> QED BY <1>8, <3>1
  <2>2. CASE i <= a
    <3>1. at(i) = SubSeq(from, 1, i) /\ at(i - 1) = SubSeq(from, 1, i - 1)
      <4>1. i <= a /\ i - 1 <= a BY <1>1, <2>2
      <4> HIDE DEF a, b
      <4> QED BY <4>1
    <3>2. i \in 1..a BY <1>1, <2>2
    <3>3. SubSeq(from, 1, i) = Append(SubSeq(from, 1, i - 1), from[i]) BY <1>1, <3>2
    <3>4. text[i] = from[i] /\ from[i] # ".." BY <1>1, <1>5, <3>2
    <3> HIDE DEF at
    <3> QED BY <2>1, <3>1, <3>3, <3>4 DEF PaStep
  <2>3. CASE i \in (a + 1)..(a + k)
    <3> DEFINE m == a + a - i
    <3>1. m \in 1..(a - 1) BY <1>1, <2>3
    <3>2. at(i) = SubSeq(from, 1, m) BY <1>1, <2>3
    <3>3. at(i - 1) = SubSeq(from, 1, m + 1)
      <4>1. CASE i = a + 1 BY <1>1, <4>1
      <4>2. CASE i # a + 1
        <5>1. ~(i - 1 <= a) /\ i - 1 <= a + k /\ a + a - (i - 1) = m + 1 BY <1>1, <2>3, <4>2
        <5> HIDE DEF m
        <5> QED BY <5>1
      <4> QED BY <4>1, <4>2
    <3> HIDE DEF at, m
    <3>4. text[i] = ".." BY <1>6, <2>3
    <3>5. Len(SubSeq(from, 1, m + 1)) = m + 1 BY <1>1, <3>1
    <3>6. SubSeq(SubSeq(from, 1, m + 1), 1, m) = SubSeq(from, 1, m) BY <1>1, <3>1
    <3>7. m + 1 > 1 /\ (m + 1) - 1 = m BY <1>1, <3>1
    <3> QED BY <2>1, <3>2, <3>3, <3>4, <3>5, <3>6, <3>7 DEF PaStep
  <2>4. CASE i \in (a + k + 1)..(a + k + b)
    <3> DEFINE j == i - a - k
               base == SubSeq(from, 1, a - k)
    <3>1. j \in 1..b BY <1>1, <1>2, <2>4
    <3>2. at(i) = base \o SubSeq(on, 1, j)
      <4>1. ~(i <= a) /\ ~(i <= a + k) BY <1>1, <1>2, <2>4
      <4> HIDE DEF a, b
      <4> QED BY <4>1
    <3>3. base \in Seq(PaWords) BY <1>1
    <3>4. at(i - 1) = base \o SubSeq(on, 1, j - 1)
      <4>1. CASE i = a + k + 1
        <5>1. at(i - 1) = base
          <6>1. CASE k = 0 BY <1>1, <4>1, <6>1
          <6>2. CASE k # 0
            <7>1. ~(i - 1 <= a) /\ i - 1 <= a + k /\ a + a - (i - 1) = a - k BY <1>1, <4>1, <6>2
            <7> HIDE DEF base
            <7> QED BY <7>1 DEF base
          <6> QED BY <6>1, <6>2
        <5>2. SubSeq(on, 1, j - 1) = <<>> BY <1>1, <4>1
        <5> HIDE DEF base, at
        <5>3. base \o <<>> = base BY <3>3
        <5> QED BY <5>1, <5>2, <5>3
      <4>2. CASE i # a + k + 1
        <5>1. ~(i - 1 <= a) /\ ~(i - 1 <= a + k) /\ (i - 1) - a - k = j - 1 BY <1>1, <2>4, <4>2
        <5> HIDE DEF base, j
        <5> QED BY <5>1 DEF base
      <4> QED BY <4>1, <4>2
    <3>5. text[i] = on[j] /\ on[j] # ".." BY <1>2, <1>7, <2>4, <3>1
    <3>6. SubSeq(on, 1, j) = Append(SubSeq(on, 1, j - 1), on[j]) BY <1>2, <3>1
    <3>7. SubSeq(on, 1, j - 1) \in Seq(PaWords) /\ on[j] \in PaWords BY <1>2, <3>1
    <3> HIDE DEF at, base, j
    <3>8. base \o Append(SubSeq(on, 1, j - 1), on[j]) = Append(base \o SubSeq(on, 1, j - 1), on[j])
      <4> DEFINE s == SubSeq(on, 1, j - 1)
      <4> HIDE DEF s
      <4>1. \A x \in PaWords : s \in Seq(PaWords) => base \o Append(s, x) = Append(base \o s, x) BY <3>3
      <4> QED BY <3>7, <4>1 DEF s
    <3> QED BY <2>1, <3>2, <3>4, <3>5, <3>6, <3>8 DEF PaStep
  <2> QED BY <1>1, <1>2, <2>2, <2>3, <2>4
<1>11. PaUp(text) = r[a + k + b]
  <2>1. Len(text) \in Nat BY <1>1, <1>2, <1>4
  <2> QED BY <1>4, <1>9, <1>10, <2>1, PaUpIs
<1>12. r[a + k + b] = SubSeq(from, 1, a - k) \o on
  <2>1. a + k + b \in 0..(a + k + b) BY <1>1, <1>2
  <2>2. r[a + k + b] = at(a + k + b) BY <1>8, <2>1
  <2>3. SubSeq(on, 1, b) = on BY <1>2
  <2>4. CASE b # 0
    <3>1. ~(a + k + b <= a) /\ ~(a + k + b <= a + k) /\ (a + k + b) - a - k = b BY <1>1, <1>2, <2>4
    <3>2. at(a + k + b) = SubSeq(from, 1, a - k) \o SubSeq(on, 1, b)
      <4> HIDE DEF b
      <4> QED BY <3>1
    <3> QED BY <2>2, <2>3, <3>2
  <2>5. CASE b = 0
    <3>1. on = <<>> BY <1>2, <2>5
    <3>2. SubSeq(from, 1, a - k) \in Seq(PaWords) BY <1>1
    <3>3. SubSeq(from, 1, a - k) \o on = SubSeq(from, 1, a - k) BY <3>1, <3>2
    <3>4. at(a + k + b) = SubSeq(from, 1, a - k)
      <4>1. CASE k = 0 BY <1>1, <2>5, <4>1
      <4>2. CASE k # 0
        <5>1. ~(a + k + b <= a) /\ a + k + b <= a + k /\ a + a - (a + k + b) = a - k BY <1>1, <2>5, <4>2
        <5> HIDE DEF b
        <5> QED BY <5>1
      <4> QED BY <4>1, <4>2
    <3> HIDE DEF at
    <3> QED BY <2>2, <3>3, <3>4
  <2> QED BY <2>4, <2>5
<1> QED BY <1>11, <1>12 DEF text

\* Where two paths stop to agree.
LEMMA PaCommonIs ==
    ASSUME NEW p, PaClean(p), NEW q, PaClean(q)
    PROVE  LET c == PaCommon(p, q)
           IN  /\ c \in 0..Len(p) /\ c <= Len(q) /\ SubSeq(p, 1, c) = SubSeq(q, 1, c)
               /\ c < Len(p) /\ c < Len(q) => p[c + 1] # q[c + 1]
<1>1. p \in Seq(PaWords) /\ Len(p) \in Nat /\ q \in Seq(PaWords) /\ Len(q) \in Nat BY DEF PaClean
<1> DEFINE Good(n) == /\ n <= Len(q) /\ SubSeq(p, 1, n) = SubSeq(q, 1, n)
                      /\ n < Len(p) /\ n < Len(q) => p[n + 1] # q[n + 1]
           Ends == {n \in 0..Len(p) : n = Len(p) \/ n = Len(q) \/ p[n + 1] # q[n + 1]}
<1>2. Ends \in SUBSET Nat /\ Len(p) \in Ends BY <1>1
<1>3. \A n \in 0..Len(p) : n \in Ends <=> n = Len(p) \/ n = Len(q) \/ p[n + 1] # q[n + 1] OBVIOUS
<1>4. \A n \in Ends : n \in 0..Len(p) OBVIOUS
<1> HIDE DEF Ends
<1>5. PICK n \in Ends : \A m \in Ends : n <= m BY <1>2, LeastNumber
<1>6. n \in 0..Len(p) BY <1>4, <1>5
<1>7. n <= Len(q)
  <2>1. CASE Len(q) \in 0..Len(p)
    <3>1. Len(q) \in Ends BY <1>3, <2>1
    <3> QED BY <1>5, <3>1
  <2> QED BY <1>1, <1>6, <2>1
<1>8. \A i \in 1..n : p[i] = q[i]
  <2> SUFFICES ASSUME NEW i \in 1..n, p[i] # q[i] PROVE FALSE
    OBVIOUS
  <2>1. i - 1 \in 0..Len(p) /\ (i - 1) + 1 = i /\ ~(n <= i - 1) BY <1>1, <1>6
  <2>2. i - 1 \in Ends BY <1>3, <2>1
  <2> QED BY <1>5, <2>1, <2>2
<1>9. SubSeq(p, 1, n) = SubSeq(q, 1, n) BY <1>1, <1>6, <1>7, <1>8
<1>10. n < Len(p) /\ n < Len(q) => p[n + 1] # q[n + 1] BY <1>1, <1>3, <1>5, <1>6
<1>11. \E m \in 0..Len(p) : Good(m) BY <1>6, <1>7, <1>9, <1>10
<1> DEFINE c == PaCommon(p, q)
<1>12. c = CHOOSE m \in 0..Len(p) : Good(m) BY DEF PaCommon
<1> HIDE DEF Good, c
<1>13. c \in 0..Len(p) /\ Good(c) BY <1>11, <1>12
<1> QED BY <1>13 DEF Good, c

\* Paths of one authority agree on it.
LEMMA PaCommonAuthority ==
    ASSUME NEW p, PaClean(p), p # <<>>, NEW q, PaClean(q), q # <<>>, PaAuthority(p) = PaAuthority(q)
    PROVE  PaCommon(p, q) # 0
<1>1. Len(p) \in Nat \ {0} /\ Len(q) \in Nat \ {0} BY DEF PaClean
<1>2. p[1] = q[1]
  <2>1. <<Head(p)>> = <<Head(q)>> BY DEF PaAuthority
  <2>2. Head(p) = Head(q) BY <2>1
  <2>3. Head(p) = p[1] /\ Head(q) = q[1] BY DEF PaClean
  <2> QED BY <2>2, <2>3
<1> SUFFICES ASSUME PaCommon(p, q) = 0 PROVE FALSE
  OBVIOUS
<1> DEFINE c == PaCommon(p, q)
<1>4. c < Len(p) /\ c < Len(q) => p[c + 1] # q[c + 1] BY PaCommonIs
<1> HIDE DEF c
<1>5. c = 0 BY DEF c
<1>3. p[1] # q[1] BY <1>1, <1>4, <1>5
<1> QED BY <1>2, <1>3

\* Joining the way from one path to another of its authority leads there.
LEMMA PaWayLeads ==
    ASSUME NEW p, PaClean(p), p # <<>>, NEW q, PaClean(q), q # <<>>, PaAuthority(p) = PaAuthority(q)
    PROVE  PaUp(q \o PaRelativeTo(p, q)) = p
<1> DEFINE c == PaCommon(p, q)
           k == Len(q) - c
           up == PaUpTheirs(p, q)
           on == SubSeq(p, c + 1, Len(p))
<1>1. p \in Seq(PaWords) /\ Len(p) \in Nat /\ \A i \in 1..Len(p) : p[i] # ".." BY DEF PaClean
<1>2. q \in Seq(PaWords) /\ Len(q) \in Nat BY DEF PaClean
<1>3. c \in 0..Len(p) /\ c <= Len(q) /\ SubSeq(p, 1, c) = SubSeq(q, 1, c) BY PaCommonIs
<1>4. c # 0 BY PaCommonAuthority
<1>5. up = [i \in 1..k |-> ".."] BY DEF PaUpTheirs
<1>6. PaRelativeTo(p, q) = up \o on BY DEF PaRelativeTo
<1> HIDE DEF c, up
<1>7. k \in Nat /\ k < Len(q) /\ Len(q) - k = c BY <1>1, <1>2, <1>3, <1>4
<1>8. PaClean(on)
  <2>1. on \in Seq(PaWords) /\ Len(on) = Len(p) - c BY <1>1, <1>3
  <2>2. \A i \in 1..Len(on) : on[i] = p[c + i] /\ c + i \in 1..Len(p) BY <1>1, <1>3, <2>1
  <2> HIDE DEF on
  <2> QED BY <1>1, <2>1, <2>2 DEF PaClean
<1>9. SubSeq(p, 1, c) \o on = p
  <2>1. SubSeq(p, 1, c) \in Seq(PaWords) /\ Len(SubSeq(p, 1, c)) = c /\ \A i \in 1..c : SubSeq(p, 1, c)[i] = p[i]
    BY <1>1, <1>3
  <2>2. on \in Seq(PaWords) /\ Len(on) = Len(p) - c /\ \A i \in 1..(Len(p) - c) : on[i] = p[c + i] BY <1>1, <1>3
  <2> DEFINE s == SubSeq(p, 1, c)
  <2> HIDE DEF s, on
  <2>3. s \o on \in Seq(PaWords) /\ Len(s \o on) = Len(p) BY <1>1, <1>3, <2>1, <2>2 DEF s
  <2>4. ASSUME NEW i \in 1..Len(p) PROVE (s \o on)[i] = p[i]
    <3>1. CASE i \in 1..c
      <4>1. (s \o on)[i] = s[i] BY <1>3, <2>1, <2>2, <3>1 DEF s
      <4> QED BY <2>1, <3>1, <4>1 DEF s
    <3>2. CASE i \notin 1..c
      <4>1. i - c \in 1..(Len(p) - c) /\ c + (i - c) = i BY <1>1, <1>3, <3>2
      <4>2. (s \o on)[i] = on[i - c] BY <1>1, <1>3, <2>1, <2>2, <3>2 DEF s
      <4> QED BY <2>2, <4>1, <4>2
    <3> QED BY <3>1, <3>2
  <2>5. s \o on = p BY <1>1, <2>3, <2>4, SeqEqual
  <2> QED BY <2>5 DEF s
<1> HIDE DEF k, on
<1>10. PaUp(q \o (up \o on)) = SubSeq(q, 1, Len(q) - k) \o on BY <1>5, <1>7, <1>8, PaUpBack
<1> QED BY <1>3, <1>6, <1>7, <1>9, <1>10

-----------------------------------------------------------------------------
(* What the user has set.                                                  *)

\* Base URLs are there and written without ".."; below one, the user takes no
\* parents, and goes up only when its host looks like one.
PaRegular(user) ==
    /\ user.bases \in Seq(Seq(PaWords))
    /\ \A i \in 1..Len(user.bases) : user.bases[i] # <<>> /\ PaClean(user.bases[i])
    /\ user.bases # <<>> =>
         /\ "parent" \notin user.ops
         /\ "up" \in user.ops => \A i \in 1..Len(user.bases) : Head(user.bases[i]) \in PaQualified

\* A text that means the path of its names.
PaSafe(text) == PaBases = <<>> \/ PaUnderPrefix(text) \/ Head(text) \in PaQualified
PaGood(text) ==
    /\ PaClean(text) /\ text # <<>> /\ PaSafe(text)
    /\ "up" \in paUser.ops /\ PaBases # <<>> => Head(text) \in PaQualified

\* It is not expanded.
LEMMA PaGoodStays == ASSUME NEW text, PaGood(text) PROVE PaExpand(text) = text /\ PaParse(text, <<>>) = text
<1>1. PaExpand(text) = text BY DEF PaGood, PaSafe, PaExpand
<1>2. text \o <<>> = text BY DEF PaGood, PaClean
<1>3. PaUp(text) = text BY PaUpClean DEF PaGood
<1> QED BY <1>1, <1>2, <1>3 DEF PaParse

\* Clean texts that are joined are clean.
LEMMA PaJoinClean == ASSUME NEW s, PaClean(s), NEW t, PaClean(t) PROVE PaClean(s \o t)
<1>1. s \in Seq(PaWords) /\ t \in Seq(PaWords) /\ Len(s) \in Nat /\ Len(t) \in Nat BY DEF PaClean
<1>2. s \o t \in Seq(PaWords) /\ Len(s \o t) = Len(s) + Len(t) BY <1>1
<1>3. ASSUME NEW i \in 1..Len(s \o t) PROVE (s \o t)[i] # ".."
  <2>1. CASE i \in 1..Len(s)
    <3>1. (s \o t)[i] = s[i] BY <1>1, <2>1
    <3> QED BY <2>1, <3>1 DEF PaClean
  <2>2. CASE i \notin 1..Len(s)
    <3>1. i - Len(s) \in 1..Len(t) BY <1>1, <1>2, <2>2
    <3>2. (s \o t)[i] = t[i - Len(s)] BY <1>1, <1>2, <2>2
    <3> QED BY <3>1, <3>2 DEF PaClean
  <2> QED BY <2>1, <2>2
<1> QED BY <1>2, <1>3 DEF PaClean

\* The beginning of a clean text is clean.
LEMMA PaCutClean ==
    ASSUME NEW s, PaClean(s), NEW n \in 1..Len(s)
    PROVE  LET cut == SubSeq(s, 1, n)
           IN  PaClean(cut) /\ cut # <<>> /\ Len(cut) = n /\ Head(cut) = Head(s)
<1> DEFINE cut == SubSeq(s, 1, n)
<1>1. s \in Seq(PaWords) /\ Len(s) \in Nat /\ \A i \in 1..Len(s) : s[i] # ".." BY DEF PaClean
<1>2. cut \in Seq(PaWords) /\ Len(cut) = n /\ \A i \in 1..n : cut[i] = s[i] BY <1>1
<1>3. cut # <<>> /\ cut[1] = s[1] /\ s # <<>> BY <1>1, <1>2
<1> HIDE DEF cut
<1>4. Head(cut) = cut[1] /\ Head(s) = s[1] BY <1>1, <1>2, <1>3
<1>5. PaClean(cut) BY <1>1, <1>2 DEF PaClean
<1> QED BY <1>2, <1>3, <1>4, <1>5 DEF cut

\* What is joined to a good text makes a good one.
LEMMA PaJoinGood ==
    ASSUME PaRegular(paUser), NEW s, PaGood(s), NEW t, PaClean(t)
    PROVE  PaGood(s \o t) /\ Head(s \o t) = Head(s)
<1>1. PaClean(s) /\ s # <<>> BY DEF PaGood
<1>2. s \in Seq(PaWords) /\ t \in Seq(PaWords) /\ Len(s) \in Nat \ {0} BY <1>1 DEF PaClean
<1> DEFINE st == s \o t
<1>3. PaClean(st) BY <1>1, PaJoinClean
<1>4. st # <<>> /\ Len(st) = Len(s) + Len(t) /\ \A i \in 1..Len(s) : st[i] = s[i] BY <1>2
<1>5. Head(st) = Head(s)
  <2>1. st \in Seq(PaWords) BY <1>3 DEF PaClean
  <2> HIDE DEF st
  <2>2. Head(st) = st[1] /\ Head(s) = s[1] BY <1>2, <1>4, <2>1
  <2> QED BY <1>2, <1>4, <2>2
<1>6. PaUnderPrefix(s) => PaUnderPrefix(st)
  <2> SUFFICES ASSUME NEW i \in DOMAIN PaBases, PaIsPrefix(PaBases[i], s) PROVE PaIsPrefix(PaBases[i], st)
    BY DEF PaUnderPrefix
  <2> DEFINE base == PaBases[i]
             n == Len(base)
  <2>1. base \in Seq(PaWords) BY DEF PaRegular, PaBases, PaClean
  <2>2. n <= Len(s) /\ SubSeq(s, 1, n) = base BY DEF PaIsPrefix
  <2> HIDE DEF base
  <2>3. n \in Nat BY <2>1
  <2>4. SubSeq(st, 1, n) = SubSeq(s, 1, n) BY <1>2, <1>4, <2>2, <2>3
  <2>5. n <= Len(st)
    <3>1. Len(t) \in Nat /\ Len(s) \in Nat BY <1>2
    <3> QED BY <1>4, <2>2, <2>3, <3>1
  <2> QED BY <2>2, <2>4, <2>5 DEF PaIsPrefix, base
<1> QED BY <1>1, <1>3, <1>4, <1>5, <1>6 DEF PaGood, PaSafe

\* Expanding a text makes a good one, and leaves one that names a host alone.
LEMMA PaExpandGood ==
    ASSUME PaRegular(paUser), NEW text, PaClean(text), text # <<>>
    PROVE  PaGood(PaExpand(text)) /\ (Head(text) \in PaQualified => PaExpand(text) = text)
<1>1. text \in Seq(PaWords) /\ Len(text) \in Nat \ {0} BY DEF PaClean
<1>2. CASE PaBases = <<>> BY <1>2 DEF PaExpand, PaGood, PaSafe
<1>3. CASE PaUnderPrefix(text)
  <2>1. PaExpand(text) = text BY <1>3 DEF PaExpand
  <2>2. PICK i \in DOMAIN PaBases : PaIsPrefix(PaBases[i], text) BY <1>3 DEF PaUnderPrefix
  <2> DEFINE base == PaBases[i]
  <2>3. base \in Seq(PaWords) /\ base # <<>> BY DEF PaRegular, PaBases, PaClean
  <2>4. PaBases # <<>> /\ "up" \in paUser.ops => Head(base) \in PaQualified BY DEF PaRegular, PaBases
  <2>5. Len(base) <= Len(text) /\ SubSeq(text, 1, Len(base)) = base BY <2>2 DEF PaIsPrefix
  <2> HIDE DEF base
  <2>6. Len(base) \in Nat \ {0} /\ Head(base) = base[1] BY <2>3
  <2>7. base[1] = text[1]
    <3>1. SubSeq(text, 1, Len(base))[1] = text[1] BY <1>1, <2>5, <2>6
    <3> QED BY <2>5, <3>1
  <2>8. Head(text) = text[1] BY <1>1
  <2> QED BY <1>3, <2>1, <2>4, <2>6, <2>7, <2>8 DEF PaGood, PaSafe
<1>4. CASE Head(text) \in PaQualified BY <1>4 DEF PaExpand, PaGood, PaSafe
<1>5. CASE PaBases # <<>> /\ ~PaUnderPrefix(text) /\ Head(text) \notin PaQualified
  <2> DEFINE base == PaBases[1]
  <2>1. PaExpand(text) = base \o text BY <1>5 DEF PaExpand
  <2>2. 1 \in 1..Len(PaBases) /\ 1 \in DOMAIN PaBases BY <1>5 DEF PaRegular, PaBases
  <2>3. PaClean(base) /\ base # <<>> BY <2>2 DEF PaRegular, PaBases
  <2>4. "up" \in paUser.ops => Head(base) \in PaQualified BY <1>5, <2>2 DEF PaRegular, PaBases
  <2>5. PaIsPrefix(base, base)
    <3> HIDE DEF base
    <3>1. base \in Seq(PaWords) /\ Len(base) \in Nat BY <2>3 DEF PaClean
    <3>2. SubSeq(base, 1, Len(base)) = base BY <3>1
    <3> QED BY <3>1, <3>2 DEF PaIsPrefix
  <2>6. PaUnderPrefix(base) BY <2>2, <2>5 DEF PaUnderPrefix
  <2> HIDE DEF base
  <2>7. PaGood(base) BY <2>3, <2>4, <2>6 DEF PaGood, PaSafe
  <2>8. PaGood(base \o text) BY <2>7, PaJoinGood
  <2> QED BY <1>5, <2>1, <2>8
<1> QED BY <1>2, <1>3, <1>4, <1>5

PaRegularUsers == ".." \notin PaQualified /\ \A user \in PaUsers : PaRegular(user)

\* One name or two are clean.
LEMMA PaNamesClean ==
    /\ PaClean(<<>>)
    /\ \A a \in PaWords : a # ".." => PaClean(<<a>>) /\ Head(<<a>>) = a
    /\ \A a, b \in PaWords : a # ".." /\ b # ".." => PaClean(<<a, b>>)
<1>1. PaClean(<<>>) BY DEF PaClean
<1>2. ASSUME NEW a \in PaWords, a # ".." PROVE PaClean(<<a>>) /\ Head(<<a>>) = a
  <2>1. <<a>> \in Seq(PaWords) /\ Len(<<a>>) = 1 /\ <<a>>[1] = a OBVIOUS
  <2>2. Head(<<a>>) = a OBVIOUS
  <2> QED BY <1>2, <2>1, <2>2 DEF PaClean
<1>3. ASSUME NEW a \in PaWords, NEW b \in PaWords, a # "..", b # ".." PROVE PaClean(<<a, b>>)
  <2>1. <<a, b>> \in Seq(PaWords) /\ Len(<<a, b>>) = 2 /\ <<a, b>>[1] = a /\ <<a, b>>[2] = b OBVIOUS
  <2>2. 1..2 = {1, 2} OBVIOUS
  <2> QED BY <1>3, <2>1, <2>2 DEF PaClean
<1> QED BY <1>1, <1>2, <1>3

\* What a user writes is clean.
LEMMA PaTextsClean ==
    ASSUME PaRegularUsers, PaRegular(paUser), NEW text \in PaTexts
    PROVE  PaClean(text) /\ text # <<>>
<1>1. {"artifactory", "repo", "x", "y"} \subseteq PaWords /\ PaQualified \subseteq PaWords BY DEF PaWords
<1>2. PaClean(<<"artifactory", "repo">>) /\ PaClean(<<"repo", "x">>) /\ PaClean(<<"repo">>)
  BY <1>1, PaNamesClean
<1>3. CASE text \in {<<host>> : host \in PaQualified}
  <2>1. PICK host \in PaQualified : text = <<host>> BY <1>3
  <2>2. PaClean(<<host>>) /\ <<host>> # <<>> BY <1>1, PaNamesClean DEF PaRegularUsers
  <2> QED BY <2>1, <2>2
<1>6. CASE text \in {<<host>> \o <<"artifactory", "repo">> : host \in PaQualified}
  <2>1. PICK host \in PaQualified : text = <<host>> \o <<"artifactory", "repo">> BY <1>6
  <2>2. PaClean(<<host>>) BY <1>1, PaNamesClean DEF PaRegularUsers
  <2>3. PaClean(<<host>> \o <<"artifactory", "repo">>) BY <1>2, <2>2, PaJoinClean
  <2>4. <<host>> \o <<"artifactory", "repo">> # <<>> OBVIOUS
  <2> QED BY <2>1, <2>3, <2>4
<1>4. CASE text \in {<<"repo">>, <<"repo", "x">>} BY <1>2, <1>4
<1>5. CASE text \in {PaBases[i] \o <<"repo">> : i \in DOMAIN PaBases}
  <2>1. PICK i \in DOMAIN PaBases : text = PaBases[i] \o <<"repo">> BY <1>5
  <2> DEFINE base == PaBases[i]
  <2>5. PaBases \in Seq(Seq(PaWords)) /\ \A j \in 1..Len(PaBases) : PaClean(PaBases[j])
    BY DEF PaRegular, PaBases
  <2>6. i \in 1..Len(PaBases)
    <3> DEFINE bases == PaBases
    <3>1. bases \in Seq(Seq(PaWords)) BY <2>5
    <3>2. i \in DOMAIN bases BY <2>1
    <3> HIDE DEF bases
    <3>3. DOMAIN bases = 1..Len(bases) BY <3>1
    <3> QED BY <3>2, <3>3 DEF bases
  <2>2. PaClean(base) BY <2>5, <2>6
  <2> HIDE DEF base
  <2>3. PaClean(base \o <<"repo">>) BY <1>2, <2>2, PaJoinClean
  <2>4. base \o <<"repo">> # <<>> BY <2>2 DEF PaClean
  <2> QED BY <2>1, <2>3, <2>4 DEF base
<1>7. \/ text \in {<<host>> : host \in PaQualified}
      \/ text \in {<<host>> \o <<"artifactory", "repo">> : host \in PaQualified}
      \/ text \in {<<"repo">>, <<"repo", "x">>}
      \/ text \in {PaBases[i] \o <<"repo">> : i \in DOMAIN PaBases}
  BY Zenon DEF PaTexts
<1> QED BY <1>3, <1>4, <1>5, <1>6, <1>7

-----------------------------------------------------------------------------
\* The text of the path means the path, and the options are where they may be.
PaInv ==
    /\ paUser \in PaUsers /\ PaGood(paPath)
    /\ paBound \in BOOLEAN /\ paGiven \in BOOLEAN /\ paHas \in BOOLEAN /\ paStayed \in BOOLEAN
    /\ paStayed => PaAuthority(paPath) = paHome
    /\ PaOptionsFollow

\* Deriving a good path keeps that, if the shortcut says what parsing would.
LEMMA PaDeriveKeeps ==
    ASSUME PaInv, NEW text, NEW parts, PaDerive(text, parts), NEW path, path = PaParse(text, parts), PaGood(path),
           PaKeepsAuthority(paPath, text, parts) => PaAuthority(path) = PaAuthority(paPath)
    PROVE  PaInv'
<1>1. /\ paPath' = path /\ UNCHANGED <<paUser, paBound, paGiven, paHome>>
      /\ paHas' = (paHas /\ (~paBound \/ PaKeepsAuthority(paPath, text, parts) \/ PaAuthority(path) = PaAuthority(paPath)))
      /\ paStayed' = (paStayed /\ PaAuthority(path) = paHome)
  BY DEF PaDerive
<1>2. /\ paUser \in PaUsers /\ paBound \in BOOLEAN /\ paGiven \in BOOLEAN /\ paHas \in BOOLEAN /\ paStayed \in BOOLEAN
      /\ (paStayed => PaAuthority(paPath) = paHome) /\ paHas = (paGiven /\ (paBound => paStayed))
  BY DEF PaInv, PaOptionsFollow
<1>3. PaGood(paPath)' BY <1>1 DEF PaGood, PaSafe, PaUnderPrefix, PaBases
<1>4. paHas' \in BOOLEAN /\ paStayed' \in BOOLEAN BY <1>1, Zenon
<1>5. paStayed' => PaAuthority(paPath') = paHome' BY <1>1
<1>6. PaOptionsFollow'
  <2> DEFINE same == PaAuthority(path) = PaAuthority(paPath)
             home == PaAuthority(path) = paHome
  <2>1. paHas' = (paHas /\ (~paBound \/ same)) BY <1>1
  <2>2. paStayed' = (paStayed /\ home) BY <1>1
  <2>3. paStayed => (home <=> same) BY <1>2
  <2>4. paGiven' = paGiven /\ paBound' = paBound BY <1>1
  <2> HIDE DEF same, home
  <2>5. paHas' = (paGiven' /\ (paBound' => paStayed')) BY <1>2, <2>1, <2>2, <2>3, <2>4, Zenon
  <2> QED BY <2>5 DEF PaOptionsFollow
<1>7. PaAuthority(paPath)' = PaAuthority(paPath') BY DEF PaAuthority
<1> QED BY <1>1, <1>2, <1>3, <1>4, <1>5, <1>6, <1>7 DEF PaInv

\* path / name.
LEMMA PaJoinKeeps == ASSUME PaRegularUsers, PaInv, PaJoin PROVE PaInv'
<1>1. PICK name \in PaNames : (name = ".." => "up" \in paUser.ops) /\ PaDerive(paPath, <<name>>) BY DEF PaJoin
<1>2. PaGood(paPath) /\ PaRegular(paUser) BY DEF PaInv, PaRegularUsers
<1>3. PaClean(paPath) /\ paPath # <<>> BY <1>2 DEF PaGood
<1>4. paPath \in Seq(PaWords) /\ Len(paPath) \in Nat \ {0} BY <1>3 DEF PaClean
<1> DEFINE path == PaParse(paPath, <<name>>)
<1>5. path = PaUp(paPath \o <<name>>) BY <1>2, PaGoodStays DEF PaParse
<1>6. name \in PaWords BY DEF PaWords
<1>7. PaGood(path) /\ Head(path) = Head(paPath)
  <2>1. CASE name # ".."
    <3>1. PaClean(<<name>>) BY <1>6, <2>1, PaNamesClean
    <3>2. PaGood(paPath \o <<name>>) /\ Head(paPath \o <<name>>) = Head(paPath) BY <1>2, <3>1, PaJoinGood
    <3>3. PaUp(paPath \o <<name>>) = paPath \o <<name>> BY <3>2, PaUpClean DEF PaGood
    <3> QED BY <1>5, <3>2, <3>3
  <2>2. CASE name = ".."
    <3> DEFINE n == IF Len(paPath) > 1 THEN Len(paPath) - 1 ELSE Len(paPath)
               cut == SubSeq(paPath, 1, n)
    <3>1. n \in 1..Len(paPath) BY <1>4
    <3>2. path = cut
      <4> DEFINE m == Len(paPath)
                 text == paPath \o <<name>>
                 r == [i \in 0..(m + 1) |-> IF i <= m THEN SubSeq(paPath, 1, i) ELSE cut]
      <4>1. Len(text) = m + 1 /\ text[m + 1] = ".." /\ \A i \in 1..m : text[i] = paPath[i] BY <1>4, <1>6, <2>2
      <4>2. r[0] = <<>> BY <1>4
      <4>3. ASSUME NEW i \in 1..(m + 1) PROVE r[i] = PaStep(r[i - 1], text[i])
        <5>1. CASE i \in 1..m
          <6>1. r[i] = SubSeq(paPath, 1, i) /\ r[i - 1] = SubSeq(paPath, 1, i - 1) BY <1>4, <5>1
          <6>2. SubSeq(paPath, 1, i) = Append(SubSeq(paPath, 1, i - 1), paPath[i]) BY <1>4, <5>1
          <6>3. text[i] = paPath[i] /\ paPath[i] # ".." BY <1>3, <4>1, <5>1 DEF PaClean
          <6> HIDE DEF r, text
          <6> QED BY <6>1, <6>2, <6>3 DEF PaStep
        <5>2. CASE i = m + 1
          <6>1. r[i] = cut /\ r[i - 1] = SubSeq(paPath, 1, m) BY <1>4, <5>2
          <6>2. SubSeq(paPath, 1, m) = paPath BY <1>4
          <6> HIDE DEF r, text
          <6> QED BY <4>1, <5>2, <6>1, <6>2 DEF PaStep
        <5> QED BY <1>4, <5>1, <5>2
      <4>4. r[m + 1] = cut BY <1>4
      <4>5. Len(text) \in Nat BY <1>4, <4>1
      <4> HIDE DEF r, cut, text
      <4>6. PaUp(text) = r[Len(text)] BY <4>1, <4>2, <4>3, <4>5, PaUpIs
      <4> QED BY <1>5, <4>1, <4>4, <4>6 DEF text
    <3> HIDE DEF n
    <3>3. PaClean(cut) /\ cut # <<>> /\ Head(cut) = Head(paPath) BY <1>3, <3>1, PaCutClean
    <3> HIDE DEF cut, path
    <3>4. PaBases = <<>> \/ Head(paPath) \in PaQualified BY <1>1, <1>2, <2>2 DEF PaGood
    <3> QED BY <3>2, <3>3, <3>4 DEF PaGood, PaSafe
  <2> QED BY <2>1, <2>2
<1>8. PaAuthority(path) = PaAuthority(paPath) BY <1>3, <1>7 DEF PaAuthority, PaGood
<1> HIDE DEF path
<1> QED BY <1>1, <1>7, <1>8, PaDeriveKeeps DEF path

\* Without base URLs the scheme before names is the path of these names.
LEMMA PaFromScheme ==
    ASSUME PaBases = <<>>, NEW text, PaClean(text), text # <<>>
    PROVE  PaParse(<<>>, text) = text /\ PaGood(text)
<1>1. PaExpand(<<>>) = <<>> BY DEF PaExpand
<1>2. <<>> \o text = text BY DEF PaClean
<1>3. PaUp(text) = text BY PaUpClean
<1> QED BY <1>1, <1>2, <1>3 DEF PaParse, PaGood, PaSafe

\* Nothing else is derived from the scheme.
LEMMA PaSchemeKeeps ==
    ASSUME PaRegularUsers, PaInv, "parent" \in paUser.ops, NEW text, PaClean(text), text # <<>>, PaDerive(<<>>, text)
    PROVE  PaInv'
<1>1. PaGood(paPath) /\ PaRegular(paUser) BY DEF PaInv, PaRegularUsers
<1>2. PaBases = <<>> BY <1>1 DEF PaRegular, PaBases
<1>3. PaParse(<<>>, text) = text /\ PaGood(text) BY <1>2, PaFromScheme
<1>4. PaKeepsAuthority(paPath, <<>>, text) => PaAuthority(text) = PaAuthority(paPath)
  BY <1>1 DEF PaKeepsAuthority, PaGood
<1> QED BY <1>3, <1>4, PaDeriveKeeps

\* The path without its last name.
LEMMA PaRemainingIs ==
    ASSUME PaGood(paPath), Len(paPath) > 1
    PROVE  PaClean(PaRemaining(paPath)) /\ PaRemaining(paPath) # <<>> /\ Len(PaRemaining(paPath)) = Len(paPath) - 1
           /\ Head(PaRemaining(paPath)) = Head(paPath)
<1>1. PaClean(paPath) /\ Len(paPath) \in Nat BY DEF PaGood, PaClean
<1>2. Len(paPath) - 1 \in 1..Len(paPath) BY <1>1
<1> QED BY <1>1, <1>2, PaCutClean DEF PaRemaining

\* Every step keeps the invariant.
LEMMA PaStepKeeps == ASSUME PaRegularUsers PROVE PaInv /\ [PaNext]_paVars => PaInv'
<1> SUFFICES ASSUME PaInv, [PaNext]_paVars PROVE PaInv'
  OBVIOUS
<1>1. PaGood(paPath) /\ PaRegular(paUser) BY DEF PaInv, PaRegularUsers
<1>2. CASE PaJoin BY <1>2, PaJoinKeeps
<1>3. CASE PaParent
  <2>1. "parent" \in paUser.ops /\ Len(paPath) > 1 /\ PaDerive(<<>>, PaRemaining(paPath)) BY <1>3 DEF PaParent
  <2> QED BY <1>1, <2>1, PaRemainingIs, PaSchemeKeeps
<1>4. ASSUME NEW text \in PaTexts, PaDerive(text, <<>>) PROVE PaInv'
  <2>1. PaClean(text) /\ text # <<>> BY <1>1, PaTextsClean
  <2> DEFINE path == PaExpand(text)
  <2>2. PaGood(path) /\ (Head(text) \in PaQualified => path = text) BY <1>1, <2>1, PaExpandGood
  <2>3. PaParse(text, <<>>) = path
    <3> HIDE DEF path
    <3>1. path \o <<>> = path /\ PaUp(path) = path BY <2>2, PaUpClean DEF PaGood, PaClean
    <3> QED BY <3>1 DEF PaParse, path
  <2>4. PaKeepsAuthority(paPath, text, <<>>) => PaAuthority(path) = PaAuthority(paPath)
    BY <2>1, <2>2 DEF PaKeepsAuthority
  <2> QED BY <1>4, <2>2, <2>3, <2>4, PaDeriveKeeps
<1>5. ASSUME NEW text \in PaTexts, "parent" \in paUser.ops, PaDerive(<<>>, text) PROVE PaInv'
  BY <1>1, <1>5, PaTextsClean, PaSchemeKeeps
<1>6. CASE UNCHANGED paVars
  BY <1>6 DEF paVars, PaInv, PaGood, PaSafe, PaUnderPrefix, PaBases, PaAuthority, PaOptionsFollow
<1> QED BY <1>2, <1>3, <1>4, <1>5, <1>6 DEF PaNext, PaWithSegments

\* So are the first paths.
LEMMA PaInitHolds == ASSUME PaRegularUsers PROVE PaInit => PaInv
<1> SUFFICES ASSUME PaInit PROVE PaInv
  OBVIOUS
<1>1. PICK text \in PaTexts : paPath = PaParse(text, <<>>) BY DEF PaInit
<1>2. paUser \in PaUsers /\ PaRegular(paUser) BY DEF PaInit, PaRegularUsers
<1>3. PaClean(text) /\ text # <<>> BY <1>2, PaTextsClean
<1> DEFINE path == PaExpand(text)
<1>4. PaGood(path) BY <1>2, <1>3, PaExpandGood
<1>5. paPath = path
  <2> HIDE DEF path
  <2>1. path \o <<>> = path /\ PaUp(path) = path BY <1>4, PaUpClean DEF PaGood, PaClean
  <2> QED BY <1>1, <2>1 DEF PaParse, path
<1>6. paHas = paGiven /\ paStayed = TRUE /\ paHome = PaAuthority(paPath) /\ paBound \in BOOLEAN /\ paGiven \in BOOLEAN
  BY DEF PaInit
<1>7. PaOptionsFollow BY <1>6 DEF PaOptionsFollow
<1> QED BY <1>2, <1>4, <1>5, <1>6, <1>7 DEF PaInv

\* Deriving paths by parsing their text agrees with deriving their names, and the
\* options go exactly where they may, unless a user with base URLs takes parents
\* or goes up below one whose host looks like a name.
THEOREM PathsDerive == ASSUME PaRegularUsers PROVE PaSpec => []PaDerives
<1>1. PaInv => PaDerives
  <2> SUFFICES ASSUME PaInv PROVE PaDerives
    OBVIOUS
  <2>1. PaGood(paPath) /\ PaRegular(paUser) /\ PaOptionsFollow BY DEF PaInv, PaRegularUsers
  <2>2. PaCanonical BY <2>1, PaGoodStays DEF PaCanonical
  <2>3. PaClean(paPath) /\ paPath # <<>> BY <2>1 DEF PaGood
  <2>4. PaJoinsBack
    <3> SUFFICES ASSUME NEW other \in PaOthers, PaIsRelative(paPath, other, TRUE)
                 PROVE  PaParse(other, PaRelativeTo(paPath, other)) = paPath
      BY DEF PaJoinsBack
    <3>1. PICK text : PaClean(text) /\ text # <<>> /\ other = PaParse(text, <<>>)
      <4>1. ASSUME NEW n \in 1..Len(paPath)
            PROVE  /\ PaClean(SubSeq(paPath, 1, n)) /\ SubSeq(paPath, 1, n) # <<>>
                   /\ PaClean(SubSeq(paPath, 1, n) \o <<"y", "x">>) /\ SubSeq(paPath, 1, n) \o <<"y", "x">> # <<>>
        <5> DEFINE cut == SubSeq(paPath, 1, n)
        <5>1. PaClean(cut) /\ cut # <<>> BY <2>3, PaCutClean
        <5>2. PaClean(<<"y", "x">>)
          <6>1. "y" \in PaWords /\ "x" \in PaWords BY DEF PaWords
          <6> QED BY <6>1, PaNamesClean
        <5> HIDE DEF cut
        <5>3. PaClean(cut \o <<"y", "x">>) BY <5>1, <5>2, PaJoinClean
        <5>4. cut \o <<"y", "x">> # <<>> BY <5>1, <5>2 DEF PaClean
        <5> QED BY <5>1, <5>3, <5>4 DEF cut
      <4> QED BY <4>1 DEF PaOthers
    <3> DEFINE to == PaExpand(text)
    <3>2. PaGood(to) BY <2>1, <3>1, PaExpandGood
    <3> HIDE DEF to
    <3>3. to \o <<>> = to /\ PaUp(to) = to BY <3>2, PaUpClean DEF PaGood, PaClean
    <3>4. other = to BY <3>1, <3>3 DEF PaParse, to
    <3>5. PaExpand(other) = other /\ PaClean(other) /\ other # <<>> BY <3>2, <3>4, PaGoodStays DEF PaGood
    <3>6. PaAuthority(paPath) = PaAuthority(other) BY DEF PaIsRelative
    <3>7. PaUp(other \o PaRelativeTo(paPath, other)) = paPath BY <2>3, <3>5, <3>6, PaWayLeads
    <3> QED BY <3>5, <3>7 DEF PaParse
  <2>5. ASSUME "parent" \in paUser.ops, Len(paPath) > 1
        PROVE  PaAbove(paPath, PaParse(<<>>, PaRemaining(paPath)))
    <3> DEFINE rest == PaRemaining(paPath)
               c == PaCommon(paPath, rest)
    <3>1. PaBases = <<>> BY <2>1, <2>5 DEF PaRegular, PaBases
    <3>2. PaClean(rest) /\ rest # <<>> /\ Len(rest) = Len(paPath) - 1 /\ Head(rest) = Head(paPath)
      BY <2>1, <2>5, PaRemainingIs
    <3>3. paPath \in Seq(PaWords) /\ Len(paPath) \in Nat BY <2>3 DEF PaClean
    <3>4. \A i \in 1..Len(rest) : rest[i] = paPath[i] BY <2>5, <3>2, <3>3 DEF PaRemaining
    <3> HIDE DEF rest
    <3>5. PaParse(<<>>, rest) = rest BY <3>1, <3>2, PaFromScheme
    <3>6. PaAuthority(paPath) = PaAuthority(rest) BY <2>3, <3>2 DEF PaAuthority
    <3>7. c \in 0..Len(paPath) /\ c <= Len(rest) /\ (c < Len(paPath) /\ c < Len(rest) => paPath[c + 1] # rest[c + 1])
      BY <2>3, <3>2, PaCommonIs
    <3> HIDE DEF c
    <3>8. c = Len(rest)
      <4> SUFFICES ASSUME c < Len(rest) PROVE FALSE
        BY <3>2, <3>3, <3>7
      <4>1. c + 1 \in 1..Len(rest) BY <3>2, <3>3, <3>7
      <4>2. rest[c + 1] = paPath[c + 1] BY <3>4, <4>1
      <4> QED BY <3>2, <3>3, <3>7, <4>2
    <3>9. PaIsRelative(paPath, rest, FALSE) BY <3>6, <3>8 DEF PaIsRelative, c
    <3>10. PaRelativeTo(paPath, rest) = <<paPath[Len(paPath)]>>
      <4> DEFINE up == PaUpTheirs(paPath, rest)
                 on == SubSeq(paPath, c + 1, Len(paPath))
      <4>1. PaRelativeTo(paPath, rest) = up \o on BY DEF PaRelativeTo, c
      <4>2. up = <<>>
        <5>1. up = [i \in 1..0 |-> ".."] BY <3>2, <3>3, <3>8 DEF PaUpTheirs, c
        <5> QED BY <5>1
      <4>3. on = <<paPath[Len(paPath)]>>
        <5>1. c + 1 = Len(paPath) BY <3>2, <3>3, <3>8
        <5> DEFINE n == Len(paPath)
                   one == SubSeq(paPath, n, n)
                   two == <<paPath[n]>>
        <5>2. paPath \in Seq(PaWords) /\ n \in Nat \ {0} /\ paPath[n] \in PaWords BY <2>5, <3>3
        <5>3. two \in Seq(PaWords) /\ Len(two) = 1 /\ two[1] = paPath[n] BY <5>2
        <5> HIDE DEF n
        <5>4. one \in Seq(PaWords) /\ Len(one) = 1 /\ one[1] = paPath[n] BY <5>2
        <5> HIDE DEF one, two
        <5>5. one = two BY <5>3, <5>4, SeqEqual
        <5> QED BY <5>1, <5>5 DEF on, one, two, n
      <4>4. paPath[Len(paPath)] \in PaWords BY <2>5, <3>3
      <4> HIDE DEF up, on
      <4> QED BY <4>1, <4>2, <4>3, <4>4
    <3> QED BY <3>2, <3>5, <3>9, <3>10 DEF PaAbove, rest
  <2> QED BY <2>1, <2>2, <2>4, <2>5 DEF PaDerives
<1> QED BY <1>1, PaInitHolds, PaStepKeeps, PTL DEF PaSpec
-----------------------------------------------------------------------------
(* What a path object remembers of its item.                               *)

AiWorth == {"absent", "dir", "A", "B"}
AiRaws == AiWorth \cup {"none"}
AiPlaces == {"idle", "request", "info", "reply", "kind", "copy", "remove", "delete", "write", "unlink",
             "iterdir", "answered"}
AiCallRecords == [at : AiPlaces, op : AiFileOps \cup {"rmdir", "iterdir"}, obj : AiObjects, raw : AiRaws,
                  knew : BOOLEAN]

AiTypes ==
    /\ aiItem.folder \in AiWorth /\ aiItem.file \in AiWorth
    /\ aiInfo \in [AiObjects -> AiRaws] /\ aiTask \in [AiTasks -> AiCallRecords]
    /\ aiAnswer \in [AiTasks -> AiRaws]

\* What task t may rest on, by what its item held since the call began.
AiSaw(seen, raw) == raw = "none" \/ raw \in seen

\* A call whose object knew nothing before, and that nobody else was in, is
\* served nothing its item did not hold meanwhile, whoever asked for it.
AiOwn(t) ==
    aiTask[t].at # "idle" /\ ~aiTask[t].knew =>
        /\ AiSaw(aiSeen[t], aiInfo[aiTask[t].obj])
        /\ \A u \in AiTasks : aiTask[u].at # "idle" /\ aiTask[u].obj = aiTask[t].obj =>
             AiSaw(aiSeen[t], aiTask[u].raw)

\* _transfer_stat forgets before it asks, so that its answer is the server's.
AiAsks(t) ==
    aiTask[t].op = "transfer_stat" =>
        /\ aiTask[t].at \in {"idle", "request", "reply", "answered"}
        /\ aiTask[t].at = "reply" => aiTask[t].raw \in aiSeen[t]
        /\ aiTask[t].at = "answered" => aiAnswer[t] \in aiSeen[t]

\* A move is about to remove its source when the destination held its content.
AiMoves(t) ==
    /\ aiTask[t].at = "kind" => aiTask[t].op \in {"is_file", "move"}
    /\ aiTask[t].at = "answered" => aiTask[t].op = "transfer_stat"
    /\ aiTask[t].at \in {"copy", "remove"} => aiTask[t].op = "move"
    /\ aiTask[t].op = "move" => AiItemOf(aiTask[t].obj) = "file"
    /\ aiTask[t].at = "remove" => aiTask[t].knew \/ AiSource \in aiSeen[t]

\* The history of a call has what its item holds.
AiWatches(t) == aiTask[t].at # "idle" => aiItem[AiItemOf(aiTask[t].obj)] \in aiSeen[t]

AiInv ==
    /\ AiTypes /\ AiMoveChecked
    /\ \A t \in AiTasks : AiOwn(t) /\ AiAsks(t) /\ (aiTask[t].at # "idle" => AiMoves(t)) /\ AiWatches(t)

\* A step of a task in its call: what it and its object remember afterwards is
\* what they did, what the server has, or nothing.
LEMMA AiStepKeeps ==
    ASSUME AiInv, NEW t \in AiTasks, aiTask[t].at # "idle",
           NEW call \in AiCallRecords, aiTask' = [aiTask EXCEPT ![t] = call],
           call.at # "idle" =>
             /\ call.op = aiTask[t].op /\ call.obj = aiTask[t].obj /\ call.knew = aiTask[t].knew
             /\ call.raw \in {"none", aiTask[t].raw, aiInfo[aiTask[t].obj], aiItem[AiItemOf(aiTask[t].obj)]},
           AiTypes', AiFollow(aiItem'),
           \A o \in AiObjects : aiInfo'[o] \in {aiInfo[o], "none"} \/ (o = aiTask[t].obj /\ aiInfo'[o] = aiTask[t].raw),
           \A u \in AiTasks \ {t} : aiAnswer'[u] = aiAnswer[u],
           call.at # "idle" => AiAsks(t)' /\ AiMoves(t)',
           AiMoveChecked'
    PROVE  AiInv'
<1>1. /\ AiTypes /\ (\A u \in AiTasks : AiOwn(u) /\ AiAsks(u) /\ AiWatches(u))
      /\ \A u \in AiTasks : aiTask[u].at # "idle" => AiMoves(u)
  BY DEF AiInv
<1>2. aiTask'[t] = call /\ \A u \in AiTasks \ {t} : aiTask'[u] = aiTask[u] BY <1>1 DEF AiTypes
<1>3. \A u \in AiTasks : aiSeen'[u] = IF aiTask'[u].at = "idle" THEN {}
                                      ELSE aiSeen[u] \cup {aiItem'[AiItemOf(aiTask'[u].obj)]}
  BY DEF AiFollow
<1>4. ASSUME NEW u \in AiTasks PROVE AiOwn(u)'
  <2> SUFFICES ASSUME aiTask'[u].at # "idle", ~aiTask'[u].knew
               PROVE  /\ AiSaw(aiSeen'[u], aiInfo'[aiTask'[u].obj])
                      /\ \A v \in AiTasks : aiTask'[v].at # "idle" /\ aiTask'[v].obj = aiTask'[u].obj =>
                           AiSaw(aiSeen'[u], aiTask'[v].raw)
    BY DEF AiOwn, AiSaw
  <2> DEFINE o == aiTask[u].obj
  <2>1. aiTask[u].at # "idle" /\ ~aiTask[u].knew /\ aiTask'[u].obj = o /\ o \in AiObjects
    <3>1. CASE u = t BY <1>1, <1>2, <3>1 DEF AiTypes, AiCallRecords
    <3>2. CASE u # t BY <1>1, <1>2, <3>2 DEF AiTypes, AiCallRecords
    <3> QED BY <3>1, <3>2
  <2>2. aiSeen[u] \subseteq aiSeen'[u] BY <1>3
  <2>3. /\ AiSaw(aiSeen[u], aiInfo[o])
        /\ \A v \in AiTasks : aiTask[v].at # "idle" /\ aiTask[v].obj = o => AiSaw(aiSeen[u], aiTask[v].raw)
    BY <1>1, <2>1 DEF AiOwn
  <2>4. aiItem[AiItemOf(o)] \in aiSeen[u] BY <1>1, <2>1 DEF AiWatches
  <2>5. AiSaw(aiSeen'[u], aiInfo'[o]) BY <2>1, <2>2, <2>3 DEF AiSaw
  <2>6. ASSUME NEW v \in AiTasks, aiTask'[v].at # "idle", aiTask'[v].obj = o
        PROVE  AiSaw(aiSeen'[u], aiTask'[v].raw)
    <3>1. CASE v = t
      <4>1. aiTask[t].obj = o /\ aiTask'[v].raw \in {"none", aiTask[t].raw, aiInfo[o], aiItem[AiItemOf(o)]}
        BY <1>2, <2>6, <3>1
      <4> QED BY <2>2, <2>3, <2>4, <4>1 DEF AiSaw
    <3>2. CASE v # t BY <1>2, <2>2, <2>3, <2>6, <3>2 DEF AiSaw
    <3> QED BY <3>1, <3>2
  <2> QED BY <2>1, <2>5, <2>6
<1>5. ASSUME NEW u \in AiTasks, u # t PROVE AiAsks(u)' /\ (aiTask'[u].at # "idle" => AiMoves(u)')
  <2>1. aiTask'[u] = aiTask[u] /\ aiAnswer'[u] = aiAnswer[u] BY <1>2, <1>5
  <2>2. aiTask[u].at # "idle" => aiSeen[u] \subseteq aiSeen'[u] BY <1>3, <2>1
  <2> QED BY <1>1, <2>1, <2>2 DEF AiAsks, AiMoves
<1>6. AiAsks(t)' BY <1>2 DEF AiAsks
<1>7. ASSUME NEW u \in AiTasks PROVE AiWatches(u)' BY <1>3 DEF AiWatches
<1>8. \A u \in AiTasks : AiOwn(u)' /\ AiAsks(u)' /\ (aiTask'[u].at # "idle" => AiMoves(u)') /\ AiWatches(u)'
  BY <1>2, <1>4, <1>5, <1>6, <1>7
<1> QED BY <1>8 DEF AiInv

\* Files are what all but the folder's object is about, and what holds is one of
\* the things there are.
LEMMA AiItemTyped ==
    ASSUME AiTypes, NEW o \in AiObjects PROVE aiItem[AiItemOf(o)] \in AiWorth
BY DEF AiTypes, AiItemOf

\* A task goes on in its call, or ends it, and nothing else changes.
LEMMA AiGoKeeps ==
    ASSUME AiInv, NEW t \in AiTasks, aiTask[t].at # "idle",
           NEW place \in AiPlaces \ {"kind"}, AiGo(t, place), AiFollow(aiItem), AiTypes',
           aiItem' = aiItem, aiMoved' = aiMoved,
           \A o \in AiObjects : aiInfo'[o] \in {aiInfo[o], "none"} \/ (o = aiTask[t].obj /\ aiInfo'[o] = aiTask[t].raw),
           \A u \in AiTasks \ {t} : aiAnswer'[u] = aiAnswer[u],
           place # "idle" /\ aiTask[t].op = "transfer_stat" =>
             place = "answered" /\ aiAnswer'[t] \in aiSeen[t],
           place = "copy" => aiTask[t].op = "move", place = "answered" => aiTask[t].op = "transfer_stat",
           place = "remove" => aiTask[t].op = "move" /\ (aiTask[t].knew \/ AiSource \in aiSeen[t])
    PROVE  AiInv'
<1> DEFINE call == AiAt(aiTask[t], place)
<1>1. aiTask' = [aiTask EXCEPT ![t] = call] /\ aiTask[t] \in AiCallRecords BY DEF AiGo, AiInv, AiTypes
<1>2. AiIdle \in AiCallRecords BY DEF AiIdle, AiCallRecords, AiPlaces, AiFileOps, AiObjects, AiRaws
<1>3. /\ call \in AiCallRecords /\ call.at = place
      /\ place # "idle" => /\ call.op = aiTask[t].op /\ call.obj = aiTask[t].obj
                           /\ call.knew = aiTask[t].knew /\ call.raw = "none"
  BY <1>1, <1>2 DEF AiAt, AiCallRecords, AiIdle, AiRaws
<1> HIDE DEF call
<1>4. aiTask'[t] = call BY <1>1 DEF AiInv, AiTypes
<1>5. place # "idle" => aiSeen[t] \subseteq aiSeen'[t] BY <1>3, <1>4 DEF AiFollow
<1>6. place # "idle" => AiAsks(t)' /\ AiMoves(t)'
  <2> SUFFICES ASSUME place # "idle" PROVE AiAsks(t)' /\ AiMoves(t)'
    OBVIOUS
  <2>1. AiMoves(t) BY DEF AiInv
  <2> QED BY <1>3, <1>4, <1>5, <2>1 DEF AiAsks, AiMoves
<1>7. AiMoveChecked' BY DEF AiInv, AiMoveChecked
<1>8. AiFollow(aiItem') BY DEF AiFollow
<1> QED BY <1>1, <1>3, <1>6, <1>7, <1>8, AiStepKeeps

\* A call begins.
LEMMA AiCallKeeps == ASSUME AiInv, NEW t \in AiTasks, AiCall(t) PROVE AiInv'
<1>1. /\ aiTask[t].at = "idle" /\ AiFollow(aiItem)
      /\ UNCHANGED <<aiItem, aiFolder, aiMoved, aiAnswer, aiOthers>>
  BY DEF AiCall
<1> DEFINE Made(o, op) ==
        /\ aiInfo' = [aiInfo EXCEPT ![o] = IF op = "transfer_stat" THEN AiDropInfo(o) ELSE @]
        /\ aiTask' = [aiTask EXCEPT ![t] =
                [at |-> CASE op \in {"write", "unlink", "iterdir"} -> op
                          [] op \in {"is_file", "move"} -> "kind"
                          [] OTHER -> IF aiInfo'[o] = "none" THEN "request" ELSE "info",
                 op |-> op, obj |-> o, raw |-> "none",
                 knew |-> \/ aiFolder[o] # "unknown" \/ aiInfo[o] # "none"
                          \/ \E other \in AiTasks : aiTask[other].at # "idle" /\ AiObj(other) = o]]
<1>0. PICK o \in AiObjects : \E op \in AiOps(o) : Made(o, op) BY DEF AiCall
<1>2. PICK op \in AiOps(o) : Made(o, op) BY <1>0
<1> DEFINE knew == \/ aiFolder[o] # "unknown" \/ aiInfo[o] # "none"
                   \/ \E other \in AiTasks : aiTask[other].at # "idle" /\ AiObj(other) = o
           at == CASE op \in {"write", "unlink", "iterdir"} -> op
                   [] op \in {"is_file", "move"} -> "kind"
                   [] OTHER -> IF aiInfo'[o] = "none" THEN "request" ELSE "info"
           call == [at |-> at, op |-> op, obj |-> o, raw |-> "none", knew |-> knew]
<1>3. /\ AiTypes /\ (\A u \in AiTasks : AiOwn(u) /\ AiAsks(u) /\ AiWatches(u))
      /\ \A u \in AiTasks : aiTask[u].at # "idle" => AiMoves(u)
  BY DEF AiInv
<1>4. op \in AiFileOps \cup {"rmdir", "iterdir"} /\ (op \in {"move", "write", "unlink"} => AiItemOf(o) = "file")
  BY DEF AiOps, AiFileOps, AiItemOf
<1>5. /\ at \in AiPlaces \ {"idle", "reply", "answered", "copy", "remove"}
      /\ op = "transfer_stat" => at = "request"
      /\ at = "kind" => op \in {"is_file", "move"}
  <2>1. op = "transfer_stat" => aiInfo'[o] = "none" BY <1>2, <1>3 DEF AiTypes, AiDropInfo
  <2> QED BY <2>1 DEF AiPlaces
<1>6. knew \in BOOLEAN OBVIOUS
<1>7. ~knew => /\ aiInfo[o] = "none"
               /\ \A u \in AiTasks : ~(aiTask[u].at # "idle" /\ aiTask[u].obj = o)
  BY DEF AiObj
<1>8. aiTask' = [aiTask EXCEPT ![t] = call] BY <1>2
<1> HIDE DEF knew, at
<1>9. call \in AiCallRecords BY <1>4, <1>5, <1>6 DEF AiCallRecords, AiRaws
<1>10. call.at = at /\ call.op = op /\ call.obj = o /\ call.raw = "none" /\ call.knew = knew OBVIOUS
<1> HIDE DEF call
<1>11. aiTask'[t] = call /\ \A u \in AiTasks \ {t} : aiTask'[u] = aiTask[u] BY <1>3, <1>8 DEF AiTypes
<1>12. \A p \in AiObjects : aiInfo'[p] \in {aiInfo[p], "none"} BY <1>2, <1>3 DEF AiTypes, AiDropInfo
<1>13. AiTypes'
  <2>1. aiInfo' \in [AiObjects -> AiRaws] BY <1>2, <1>3 DEF AiTypes, AiDropInfo, AiRaws
  <2>2. aiTask' \in [AiTasks -> AiCallRecords] BY <1>3, <1>8, <1>9 DEF AiTypes
  <2> QED BY <1>1, <1>3, <2>1, <2>2 DEF AiTypes
<1>14. \A u \in AiTasks : aiSeen'[u] = IF aiTask'[u].at = "idle" THEN {}
                                       ELSE aiSeen[u] \cup {aiItem[AiItemOf(aiTask'[u].obj)]}
  BY <1>1 DEF AiFollow
<1>15. ASSUME NEW u \in AiTasks PROVE AiOwn(u)'
  <2> SUFFICES ASSUME aiTask'[u].at # "idle", ~aiTask'[u].knew
               PROVE  /\ AiSaw(aiSeen'[u], aiInfo'[aiTask'[u].obj])
                      /\ \A v \in AiTasks : aiTask'[v].at # "idle" /\ aiTask'[v].obj = aiTask'[u].obj =>
                           AiSaw(aiSeen'[u], aiTask'[v].raw)
    BY DEF AiOwn, AiSaw
  <2>1. CASE u = t
    <3>1. aiInfo'[o] = "none" /\ aiTask'[t].obj = o BY <1>7, <1>10, <1>11, <1>12, <2>1
    <3>2. ASSUME NEW v \in AiTasks, aiTask'[v].at # "idle", aiTask'[v].obj = o PROVE aiTask'[v].raw = "none"
      BY <1>7, <1>10, <1>11, <2>1, <3>2
    <3> QED BY <2>1, <3>1, <3>2 DEF AiSaw
  <2>2. CASE u # t
    <3>1. aiTask'[u] = aiTask[u] /\ aiTask[u].obj \in AiObjects BY <1>3, <1>11, <2>2 DEF AiTypes, AiCallRecords
    <3>2. aiSeen[u] \subseteq aiSeen'[u] BY <1>14, <3>1
    <3>3. /\ AiSaw(aiSeen[u], aiInfo[aiTask[u].obj])
          /\ \A v \in AiTasks : aiTask[v].at # "idle" /\ aiTask[v].obj = aiTask[u].obj =>
               AiSaw(aiSeen[u], aiTask[v].raw)
      BY <1>3, <3>1 DEF AiOwn
    <3>4. AiSaw(aiSeen'[u], aiInfo'[aiTask[u].obj]) BY <1>12, <3>1, <3>2, <3>3 DEF AiSaw
    <3>5. ASSUME NEW v \in AiTasks, aiTask'[v].at # "idle", aiTask'[v].obj = aiTask[u].obj
          PROVE  AiSaw(aiSeen'[u], aiTask'[v].raw)
      <4>1. CASE v = t BY <1>10, <1>11, <4>1 DEF AiSaw
      <4>2. CASE v # t BY <1>11, <3>2, <3>3, <3>5, <4>2 DEF AiSaw
      <4> QED BY <4>1, <4>2
    <3> QED BY <3>1, <3>4, <3>5
  <2> QED BY <2>1, <2>2
<1>16. ASSUME NEW u \in AiTasks PROVE AiAsks(u)' /\ (aiTask'[u].at # "idle" => AiMoves(u)') /\ AiWatches(u)'
  <2>1. AiWatches(u)' BY <1>1, <1>14 DEF AiWatches
  <2>2. CASE u = t BY <1>4, <1>5, <1>10, <1>11, <2>1, <2>2 DEF AiAsks, AiMoves
  <2>3. CASE u # t
    <3>1. aiTask'[u] = aiTask[u] BY <1>11, <2>3
    <3>2. aiTask[u].at # "idle" => aiSeen[u] \subseteq aiSeen'[u] BY <1>14, <3>1
    <3> QED BY <1>1, <1>3, <2>1, <3>1, <3>2 DEF AiAsks, AiMoves
  <2> QED BY <2>2, <2>3
<1>17. AiMoveChecked' BY <1>1 DEF AiInv, AiMoveChecked
<1> QED BY <1>13, <1>15, <1>16, <1>17 DEF AiInv

\* A task that goes on has a call of its type.
LEMMA AiGoTypes ==
    ASSUME AiTypes, NEW t \in AiTasks, NEW place \in AiPlaces, AiGo(t, place)
    PROVE  aiTask' \in [AiTasks -> AiCallRecords]
<1>1. AiIdle \in AiCallRecords BY DEF AiIdle, AiCallRecords, AiPlaces, AiFileOps, AiObjects, AiRaws
<1>2. aiTask[t] \in AiCallRecords BY DEF AiTypes
<1>3. AiAt(aiTask[t], place) \in AiCallRecords BY <1>1, <1>2 DEF AiAt, AiCallRecords, AiRaws
<1> QED BY <1>3 DEF AiGo, AiTypes

\* A call ends, with a change on the server or without.
LEMMA AiEndKeeps ==
    ASSUME AiInv, NEW t \in AiTasks, aiTask[t].at # "idle", AiGo(t, "idle"), AiFollow(aiItem'),
           aiItem'.folder \in AiWorth, aiItem'.file \in AiWorth,
           aiInfo' = aiInfo, aiAnswer' = aiAnswer, AiMoveChecked'
    PROVE  AiInv'
<1>1. AiTypes BY DEF AiInv
<1>2. "idle" \in AiPlaces BY DEF AiPlaces
<1>3. aiTask' \in [AiTasks -> AiCallRecords] BY <1>1, <1>2, AiGoTypes
<1>4. AiTypes' BY <1>1, <1>3 DEF AiTypes
<1>5. aiTask' = [aiTask EXCEPT ![t] = AiIdle] /\ AiIdle \in AiCallRecords /\ AiIdle.at = "idle"
  BY <1>1, <1>2 DEF AiGo, AiAt, AiIdle, AiCallRecords, AiPlaces, AiFileOps, AiObjects, AiRaws
<1> HIDE DEF AiIdle
<1> QED BY <1>4, <1>5, AiStepKeeps

\* The flag tells is_file and the move what to do next.
LEMMA AiKindKeeps == ASSUME AiInv, NEW t \in AiTasks, AiKind(t) PROVE AiInv'
<1> DEFINE place == IF aiFolder[AiObj(t)] = "unknown" THEN "info"
                    ELSE IF aiTask[t].op = "is_file" THEN "idle"
                    ELSE IF aiFolder[AiObj(t)] = "file" THEN "info" ELSE "copy"
<1>1. /\ aiTask[t].at = "kind" /\ AiGo(t, place) /\ AiFollow(aiItem)
      /\ UNCHANGED <<aiItem, aiFolder, aiInfo, aiMoved, aiAnswer, aiCalls, aiOthers>>
  BY DEF AiKind
<1>2. AiTypes /\ AiAsks(t) /\ AiMoves(t) BY <1>1 DEF AiInv
<1>3. aiTask[t].op # "transfer_stat" /\ aiTask[t].op \in {"is_file", "move"} BY <1>1, <1>2 DEF AiAsks, AiMoves
<1>4. place \in AiPlaces \ {"kind", "remove", "answered"} /\ (place = "copy" => aiTask[t].op = "move") BY <1>3 DEF AiPlaces
<1> HIDE DEF place
<1>5. AiTypes' BY <1>1, <1>2, <1>4, AiGoTypes DEF AiTypes
<1> QED BY <1>1, <1>3, <1>4, <1>5, AiGoKeeps

\* The answer the object has is taken, or one is asked for.
LEMMA AiEnterKeeps == ASSUME AiInv, NEW t \in AiTasks, AiEnter(t) PROVE AiInv'
<1> DEFINE call == [aiTask[t] EXCEPT !.raw = aiInfo[AiObj(t)],
                                     !.at = IF aiInfo[AiObj(t)] = "none" THEN "request" ELSE "reply"]
<1>1. AiTypes /\ AiAsks(t) /\ (aiTask[t].at # "idle" => AiMoves(t)) BY DEF AiInv
<1>2. /\ aiTask[t].at = "info" /\ aiTask' = [aiTask EXCEPT ![t] = call] /\ AiFollow(aiItem)
      /\ UNCHANGED <<aiItem, aiFolder, aiInfo, aiMoved, aiAnswer, aiCalls, aiOthers>>
  BY <1>1 DEF AiEnter, AiTypes
<1>3. aiTask[t] \in AiCallRecords /\ aiInfo[aiTask[t].obj] \in AiRaws BY <1>1 DEF AiTypes, AiCallRecords
<1>4. /\ call \in AiCallRecords /\ call.at \in {"request", "reply"} /\ call.op = aiTask[t].op
      /\ call.obj = aiTask[t].obj /\ call.knew = aiTask[t].knew /\ call.raw = aiInfo[aiTask[t].obj]
  BY <1>3 DEF AiCallRecords, AiPlaces, AiObj
<1> HIDE DEF call
<1>5. aiTask' \in [AiTasks -> AiCallRecords] /\ aiTask'[t] = call BY <1>1, <1>2, <1>4 DEF AiTypes
<1>6. AiTypes' BY <1>1, <1>2, <1>5 DEF AiTypes
<1>7. AiMoves(t)' /\ AiAsks(t)' BY <1>1, <1>2, <1>4, <1>5 DEF AiMoves, AiAsks
<1>8. AiFollow(aiItem') /\ AiMoveChecked' BY <1>2 DEF AiFollow, AiInv, AiMoveChecked
<1> QED BY <1>2, <1>4, <1>6, <1>7, <1>8, AiStepKeeps

\* The storage API answers.
LEMMA AiServeKeeps == ASSUME AiInv, NEW t \in AiTasks, AiServe(t) PROVE AiInv'
<1> DEFINE call == [aiTask[t] EXCEPT !.raw = aiItem[AiItemOf(AiObj(t))], !.at = "reply"]
<1>1. AiTypes /\ AiAsks(t) /\ (aiTask[t].at # "idle" => AiMoves(t)) BY DEF AiInv
<1>2. /\ aiTask[t].at = "request" /\ aiTask' = [aiTask EXCEPT ![t] = call] /\ AiFollow(aiItem)
      /\ UNCHANGED <<aiItem, aiFolder, aiInfo, aiMoved, aiAnswer, aiCalls, aiOthers>>
  BY <1>1 DEF AiServe, AiTypes
<1>3. aiTask[t] \in AiCallRecords /\ aiItem[AiItemOf(aiTask[t].obj)] \in AiRaws
  BY <1>1, AiItemTyped DEF AiTypes, AiCallRecords, AiRaws
<1>4. /\ call \in AiCallRecords /\ call.at = "reply" /\ call.op = aiTask[t].op /\ call.obj = aiTask[t].obj
      /\ call.knew = aiTask[t].knew /\ call.raw = aiItem[AiItemOf(aiTask[t].obj)]
  BY <1>3 DEF AiCallRecords, AiPlaces, AiObj
<1> HIDE DEF call
<1>5. aiTask' \in [AiTasks -> AiCallRecords] /\ aiTask'[t] = call BY <1>1, <1>2, <1>4 DEF AiTypes
<1>6. AiTypes' BY <1>1, <1>2, <1>5 DEF AiTypes
<1>7. call.raw \in aiSeen'[t] BY <1>2, <1>4, <1>5 DEF AiFollow
<1>8. AiMoves(t)' /\ AiAsks(t)' BY <1>1, <1>2, <1>4, <1>5, <1>7 DEF AiMoves, AiAsks
<1>9. AiFollow(aiItem') /\ AiMoveChecked' BY <1>2 DEF AiFollow, AiInv, AiMoveChecked
<1> QED BY <1>2, <1>4, <1>6, <1>8, <1>9, AiStepKeeps

\* The answer is kept and compared.
LEMMA AiStoreKeeps == ASSUME AiInv, NEW t \in AiTasks, AiStore(t) PROVE AiInv'
<1> DEFINE o == AiObj(t)
           raw == aiTask[t].raw
           op == aiTask[t].op
           asksKind == op = "is_file" \/ (op = "move" /\ aiFolder[o] = "unknown")
           place == CASE op = "rmdir" -> IF raw = "dir" THEN "delete" ELSE "idle"
                      [] op = "move" -> IF asksKind /\ AiFlag(raw) = "file" THEN "info"
                                        ELSE IF ~asksKind /\ AiEqual(raw) THEN "remove" ELSE "copy"
                      [] op = "transfer_stat" -> "answered"
                      [] OTHER -> "idle"
<1>1. /\ aiTask[t].at = "reply" /\ AiFollow(aiItem) /\ UNCHANGED <<aiItem, aiMoved, aiCalls, aiOthers>>
      /\ aiInfo' = [aiInfo EXCEPT ![o] = IF raw = "absent" THEN aiInfo[o] ELSE raw]
      /\ aiAnswer' = [aiAnswer EXCEPT ![t] = IF op = "transfer_stat" THEN raw ELSE aiAnswer[t]]
      /\ AiGo(t, place)
  BY DEF AiStore
<1>2. AiTypes /\ AiAsks(t) /\ AiMoves(t) /\ AiOwn(t) BY <1>1 DEF AiInv
<1>3. o \in AiObjects /\ raw \in AiRaws /\ o = aiTask[t].obj BY <1>2 DEF AiTypes, AiCallRecords, AiObj
<1>4. /\ place \in AiPlaces \ {"kind"}
      /\ place # "idle" /\ op = "transfer_stat" => place = "answered"
      /\ place = "copy" => op = "move"
      /\ place = "answered" => op = "transfer_stat"
      /\ place = "remove" => op = "move" /\ raw = AiSource
  BY DEF AiPlaces, AiEqual
<1>5. place = "remove" => aiTask[t].knew \/ AiSource \in aiSeen[t]
  <2>1. ~aiTask[t].knew => AiSaw(aiSeen[t], raw) BY <1>1, <1>2 DEF AiOwn
  <2> QED BY <1>4, <2>1 DEF AiSaw, AiSource
<1>6. op = "transfer_stat" => aiAnswer'[t] \in aiSeen[t] BY <1>1, <1>2 DEF AiAsks, AiTypes
<1> HIDE DEF place, asksKind
<1>7. \A p \in AiObjects : aiInfo'[p] \in {aiInfo[p], "none"} \/ (p = aiTask[t].obj /\ aiInfo'[p] = aiTask[t].raw)
  BY <1>1, <1>2, <1>3 DEF AiTypes
<1>8. \A u \in AiTasks \ {t} : aiAnswer'[u] = aiAnswer[u] BY <1>1, <1>2 DEF AiTypes
<1>9. AiTypes'
  <2>1. aiInfo' \in [AiObjects -> AiRaws] BY <1>1, <1>2, <1>3 DEF AiTypes
  <2>2. aiAnswer' \in [AiTasks -> AiRaws] BY <1>1, <1>2, <1>3 DEF AiTypes
  <2>3. aiTask' \in [AiTasks -> AiCallRecords] BY <1>1, <1>2, <1>4, AiGoTypes
  <2> QED BY <1>1, <1>2, <2>1, <2>2, <2>3 DEF AiTypes
<1> QED BY <1>1, <1>4, <1>5, <1>6, <1>7, <1>8, <1>9, AiGoKeeps

\* _transfer_stat returns.
LEMMA AiAnsweredKeeps == ASSUME AiInv, NEW t \in AiTasks, AiAnswered(t) PROVE AiInv'
<1>1. /\ aiTask[t].at = "answered" /\ AiGo(t, "idle") /\ AiFollow(aiItem)
      /\ aiAnswer' = [aiAnswer EXCEPT ![t] = "none"]
      /\ UNCHANGED <<aiItem, aiFolder, aiInfo, aiMoved, aiCalls, aiOthers>>
  BY DEF AiAnswered
<1>2. AiTypes BY DEF AiInv
<1>3. "idle" \in AiPlaces \ {"kind"} BY DEF AiPlaces
<1>4. AiTypes' BY <1>1, <1>2, <1>3, AiGoTypes DEF AiTypes, AiRaws
<1>5. \A u \in AiTasks \ {t} : aiAnswer'[u] = aiAnswer[u] BY <1>1, <1>2 DEF AiTypes
<1> QED BY <1>1, <1>3, <1>4, <1>5, AiGoKeeps

\* A write, unlink or recursive rmdir changes what the server has.
LEMMA AiChangeKeeps == ASSUME AiInv, NEW t \in AiTasks, AiChange(t) PROVE AiInv'
<1>1. /\ aiTask[t].at \in {"write", "unlink", "delete"} /\ AiGo(t, "idle") /\ AiFollow(aiItem')
      /\ UNCHANGED <<aiFolder, aiInfo, aiMoved, aiAnswer, aiCalls, aiOthers>>
      /\ aiItem' = CASE aiTask[t].at = "write" -> [aiItem EXCEPT !.file = "B"]
                     [] aiTask[t].at = "unlink" -> [aiItem EXCEPT !.file = "absent"]
                     [] OTHER -> [folder |-> "absent", file |-> "absent"]
  BY DEF AiChange
<1>2. AiTypes BY DEF AiInv
<1>3. aiItem'.folder \in AiWorth /\ aiItem'.file \in AiWorth BY <1>1, <1>2 DEF AiTypes, AiWorth
<1>4. AiMoveChecked' BY <1>1 DEF AiInv, AiMoveChecked
<1> QED BY <1>1, <1>2, <1>3, <1>4, AiEndKeeps

\* The copy is made or fails.
LEMMA AiCopyKeeps == ASSUME AiInv, NEW t \in AiTasks, AiCopy(t) PROVE AiInv'
<1>1. /\ aiTask[t].at = "copy" /\ AiFollow(aiItem')
      /\ UNCHANGED <<aiFolder, aiInfo, aiMoved, aiAnswer, aiCalls, aiOthers>>
      /\ \/ aiItem' = [aiItem EXCEPT !.file = AiSource] /\ AiGo(t, "remove")
         \/ aiItem' = aiItem /\ AiGo(t, "idle")
  BY DEF AiCopy
<1>2. AiTypes /\ AiAsks(t) /\ AiMoves(t) BY <1>1 DEF AiInv
<1>3. CASE aiItem' = [aiItem EXCEPT !.file = AiSource] /\ AiGo(t, "remove")
  <2> DEFINE call == AiAt(aiTask[t], "remove")
  <2>1. aiTask' = [aiTask EXCEPT ![t] = call] /\ aiTask[t] \in AiCallRecords BY <1>2, <1>3 DEF AiGo, AiTypes
  <2>2. /\ call \in AiCallRecords /\ call.at = "remove" /\ call.op = aiTask[t].op /\ call.obj = aiTask[t].obj
        /\ call.knew = aiTask[t].knew /\ call.raw = "none"
    BY <2>1 DEF AiAt, AiCallRecords, AiRaws, AiPlaces
  <2> HIDE DEF call
  <2>3. aiTask' \in [AiTasks -> AiCallRecords] /\ aiTask'[t] = call BY <1>2, <2>1, <2>2 DEF AiTypes
  <2>4. aiItem'.folder \in AiWorth /\ aiItem'.file = AiSource BY <1>2, <1>3 DEF AiTypes
  <2>5. AiTypes' BY <1>1, <1>2, <2>3, <2>4 DEF AiTypes, AiWorth, AiSource
  <2>6. AiItemOf(aiTask[t].obj) = "file" /\ aiTask[t].op = "move" BY <1>1, <1>2 DEF AiMoves
  <2>7. AiSource \in aiSeen'[t]
    <3>1. aiItem'["file"] = AiSource BY <2>4
    <3> QED BY <1>1, <2>2, <2>3, <2>6, <3>1 DEF AiFollow
  <2>8. AiMoves(t)' /\ AiAsks(t)' BY <2>2, <2>3, <2>6, <2>7 DEF AiMoves, AiAsks
  <2>9. AiMoveChecked' BY <1>1 DEF AiInv, AiMoveChecked
  <2> QED BY <1>1, <2>1, <2>2, <2>5, <2>8, <2>9, AiStepKeeps
<1>4. CASE aiItem' = aiItem /\ AiGo(t, "idle")
  <2>1. AiMoveChecked' BY <1>1 DEF AiInv, AiMoveChecked
  <2>2. aiItem'.folder \in AiWorth /\ aiItem'.file \in AiWorth BY <1>2, <1>4 DEF AiTypes
  <2> QED BY <1>1, <1>4, <2>1, <2>2, AiEndKeeps
<1> QED BY <1>1, <1>3, <1>4

\* The move removes its source.
LEMMA AiRemoveKeeps == ASSUME AiInv, NEW t \in AiTasks, AiRemove(t) PROVE AiInv'
<1>1. /\ aiTask[t].at = "remove" /\ AiGo(t, "idle") /\ AiFollow(aiItem)
      /\ aiMoved' = aiMoved \cup {[there |-> AiSource \in aiSeen[t], knew |-> aiTask[t].knew]}
      /\ UNCHANGED <<aiItem, aiFolder, aiInfo, aiAnswer, aiCalls, aiOthers>>
  BY DEF AiRemove
<1>2. AiTypes /\ AiMoves(t) /\ AiMoveChecked BY <1>1 DEF AiInv
<1> DEFINE new == [there |-> AiSource \in aiSeen[t], knew |-> aiTask[t].knew]
<1>3. (new.there <=> AiSource \in aiSeen[t]) /\ (new.knew <=> aiTask[t].knew) OBVIOUS
<1> HIDE DEF new
<1>4. AiMoveChecked'
  <2>1. new.knew \/ new.there BY <1>1, <1>2, <1>3 DEF AiMoves
  <2>2. aiMoved' = aiMoved \cup {new} BY <1>1 DEF new
  <2> QED BY <1>2, <2>1, <2>2 DEF AiMoveChecked
<1>5. AiFollow(aiItem') BY <1>1 DEF AiFollow
<1> QED BY <1>1, <1>2, <1>4, <1>5, AiEndKeeps DEF AiTypes

\* A listing of the folder makes a new object for the file.
LEMMA AiIterdirKeeps == ASSUME AiInv, NEW t \in AiTasks, AiIterdir(t) PROVE AiInv'
<1>1. /\ aiTask[t].at = "iterdir" /\ AiGo(t, "idle") /\ AiFollow(aiItem)
      /\ aiInfo' \in {aiInfo, [aiInfo EXCEPT !["child"] = "none"]}
      /\ UNCHANGED <<aiItem, aiMoved, aiAnswer, aiCalls, aiOthers>>
  BY DEF AiIterdir, AiCleared
<1>2. AiTypes BY DEF AiInv
<1>3. "idle" \in AiPlaces \ {"kind"} BY DEF AiPlaces
<1>4. aiInfo' \in [AiObjects -> AiRaws] /\ \A o \in AiObjects : aiInfo'[o] \in {aiInfo[o], "none"}
  BY <1>1, <1>2 DEF AiTypes, AiRaws
<1>5. AiTypes' BY <1>1, <1>2, <1>3, <1>4, AiGoTypes DEF AiTypes
<1> QED BY <1>1, <1>3, <1>4, <1>5, AiGoKeeps

\* Another client changes the items.
LEMMA AiOtherKeeps == ASSUME AiInv, AiOther PROVE AiInv'
<1>1. /\ UNCHANGED <<aiFolder, aiInfo, aiTask, aiMoved, aiAnswer, aiCalls>> /\ AiFollow(aiItem')
      /\ \E value \in AiValues.file : aiItem' = [folder |-> "dir", file |-> value]
  BY DEF AiOther
<1>2. aiItem'.folder \in AiWorth /\ aiItem'.file \in AiWorth BY <1>1 DEF AiValues, AiWorth
<1>3. /\ AiTypes /\ AiMoveChecked
      /\ \A u \in AiTasks : AiOwn(u) /\ AiAsks(u) /\ (aiTask[u].at # "idle" => AiMoves(u)) /\ AiWatches(u)
  BY DEF AiInv
<1>4. AiTypes' /\ AiMoveChecked' BY <1>1, <1>2, <1>3 DEF AiTypes, AiMoveChecked
<1>5. \A u \in AiTasks : aiSeen'[u] = IF aiTask[u].at = "idle" THEN {}
                                      ELSE aiSeen[u] \cup {aiItem'[AiItemOf(aiTask[u].obj)]}
  BY <1>1 DEF AiFollow
<1>6. ASSUME NEW u \in AiTasks
      PROVE  AiOwn(u)' /\ AiAsks(u)' /\ (aiTask'[u].at # "idle" => AiMoves(u)') /\ AiWatches(u)'
  <2>1. aiTask[u].at # "idle" => aiSeen[u] \subseteq aiSeen'[u] BY <1>5
  <2>2. AiWatches(u)' BY <1>1, <1>5 DEF AiWatches
  <2>3. AiOwn(u)' BY <1>1, <1>3, <2>1 DEF AiOwn, AiSaw
  <2>4. AiAsks(u)' BY <1>1, <1>3, <2>1 DEF AiAsks
  <2>5. aiTask'[u].at # "idle" => AiMoves(u)' BY <1>1, <1>3, <2>1 DEF AiMoves
  <2> QED BY <2>2, <2>3, <2>4, <2>5
<1> QED BY <1>4, <1>6 DEF AiInv

\* AiInv holds initially.
LEMMA AiInitHolds == AiInit => AiInv
<1> SUFFICES ASSUME AiInit PROVE AiInv
  OBVIOUS
<1>1. AiIdle \in AiCallRecords /\ AiIdle.at = "idle" /\ AiIdle.op = "stat"
  BY DEF AiIdle, AiCallRecords, AiPlaces, AiFileOps, AiObjects, AiRaws
<1>2. AiTypes BY <1>1 DEF AiInit, AiTypes, AiWorth, AiRaws
<1>3. AiMoveChecked BY DEF AiInit, AiMoveChecked
<1>4. \A t \in AiTasks : aiTask[t] = AiIdle BY DEF AiInit
<1> HIDE DEF AiIdle
<1> QED BY <1>1, <1>2, <1>3, <1>4 DEF AiInv, AiOwn, AiAsks, AiMoves, AiWatches

\* Every step keeps AiInv.
LEMMA AiInvKept == AiInv /\ [AiNext]_aiVars => AiInv'
<1> SUFFICES ASSUME AiInv, [AiNext]_aiVars PROVE AiInv'
  OBVIOUS
<1>1. CASE UNCHANGED aiVars
  BY <1>1 DEF aiVars, AiInv, AiTypes, AiOwn, AiAsks, AiMoves, AiWatches, AiMoveChecked
<1> QED BY <1>1, AiCallKeeps, AiKindKeeps, AiEnterKeeps, AiServeKeeps, AiStoreKeeps, AiAnsweredKeeps,
           AiChangeKeeps, AiCopyKeeps, AiRemoveKeeps, AiIterdirKeeps, AiOtherKeeps
        DEF AiNext, AiDone

\* However calls on the same path objects interleave and other clients change
\* the items (_storage_info, _transfer_stat, async_destination_state), a ranged
\* download is told what its item was during the call, and a move whose
\* object knew nothing removes its source only when the content had arrived.
THEOREM NotMisled == AiSpec => []AiNotMisled
<1>1. AiInit => AiInv BY AiInitHolds
<1>2. AiInv /\ [AiNext]_aiVars => AiInv' BY AiInvKept
<1>3. AiInv => AiNotMisled
  <2> SUFFICES ASSUME AiInv, NEW t \in AiTasks, aiTask[t].at = "answered" PROVE aiAnswer[t] \in aiSeen[t]
    BY DEF AiInv, AiNotMisled, AiTransferFresh
  <2>1. AiAsks(t) /\ AiMoves(t) BY DEF AiInv
  <2> QED BY <2>1 DEF AiAsks, AiMoves
<1> QED BY <1>1, <1>2, <1>3, PTL DEF AiSpec

-----------------------------------------------------------------------------
(* The protocol map: no class is lost between the threads.                 *)

PmOps == {"idle", "done", "missed", "import", "assign", "ensure", "items"}
PmThreadRecords == [op : PmOps, proto : PmBuiltin, url : BOOLEAN, todo : SUBSET PmBuiltin, seen : SUBSET PmBuiltin,
                    alone : BOOLEAN, answer : PmAnswers \cup {"none"}]

PmTypes ==
    /\ pmPending \subseteq PmBuiltin /\ pmClass \in [PmBuiltin -> {"none", "builtin", "user"}]
    /\ pmThread \in [PmThreads -> PmThreadRecords] /\ pmLost \subseteq PmBuiltin \ PmMissing

\* A call is entering the class of protocol p.
PmEnters(call, p) == call.op \in {"import", "assign"} /\ call.proto = p

\* Only a call that looks at all the items has a list of protocols to load; who
\* has missed alone will find its protocol pending, and only a call that met
\* another one is refused an installed protocol that is not lost.
PmCallFine(call, pending, lost) ==
    /\ call.op \in {"ensure", "items"} \/ call.todo # {} => call.url
    /\ call.op = "assign" => call.answer # "unsupported"
    /\ call.op = "missed" /\ call.alone /\ call.proto \notin PmMissing \cup lost => call.proto \in pending
    /\ call.op = "done" /\ ~call.url /\ call.alone /\ call.proto \notin PmMissing \cup lost =>
         call.answer # "unsupported"

PmInv ==
    /\ PmTypes /\ PmNeverForgotten
    /\ \A t \in PmThreads : PmCallFine(pmThread[t], pmPending, pmLost)

\* PmIdle is a call.
LEMMA PmIdleFits ==
    /\ PmIdle \in PmThreadRecords /\ PmIdle.op = "idle" /\ PmIdle.todo = {} /\ PmIdle.answer = ""
    /\ PmIdle.url = FALSE
BY PmAssumption DEF PmIdle, PmThreadRecords, PmOps, PmAnswers

\* What another thread's step may change in a call.
PmSame(new, old) ==
    /\ new.op = old.op /\ new.proto = old.proto /\ new.url = old.url /\ new.todo = old.todo
    /\ new.answer = old.answer /\ (new.alone => old.alone)

\* A thread goes on, and each protocol that leaves the pending ones is one it
\* enters, or one that was lost.
LEMMA PmMoves ==
    ASSUME PmInv, NEW t \in PmThreads, NEW call \in PmThreadRecords,
           pmThread' \in [PmThreads -> PmThreadRecords], pmThread'[t] = call,
           \A u \in PmThreads \ {t} : PmSame(pmThread'[u], pmThread[u]),
           \A u \in PmThreads \ {t} : pmThread[u].op = "missed" /\ pmThread'[u].alone
               /\ pmThread[u].proto \in pmPending => pmThread[u].proto \in pmPending',
           PmCallFine(call, pmPending', pmLost'), pmLost \subseteq pmLost', pmLost' \subseteq PmBuiltin \ PmMissing,
           pmPending' \subseteq PmBuiltin, pmClass' \in [PmBuiltin -> {"none", "builtin", "user"}],
           \A p \in PmBuiltin \ (PmMissing \cup pmLost') : pmClass'[p] = "none" /\ p \notin pmPending' =>
               \/ PmEnters(call, p)
               \/ pmClass[p] = "none" /\ p \notin pmPending /\ ~PmEnters(pmThread[t], p)
    PROVE  PmInv'
<1>1. PmTypes /\ PmTypes' BY DEF PmInv, PmTypes
<1>2. ASSUME NEW u \in PmThreads PROVE PmCallFine(pmThread'[u], pmPending', pmLost')
  <2>1. CASE u = t BY <2>1
  <2>2. CASE u # t
    <3>1. PmCallFine(pmThread[u], pmPending, pmLost) BY DEF PmInv
    <3> QED BY <2>2, <3>1 DEF PmCallFine, PmSame
  <2> QED BY <2>1, <2>2
<1>3. PmNeverForgotten'
  <2> SUFFICES ASSUME NEW p \in PmBuiltin \ (PmMissing \cup pmLost'), pmClass'[p] = "none", p \notin pmPending'
               PROVE  \E u \in PmThreads : PmEnters(pmThread'[u], p)
    BY DEF PmNeverForgotten, PmEnters
  <2>1. CASE PmEnters(call, p) BY <2>1
  <2>2. CASE pmClass[p] = "none" /\ p \notin pmPending /\ ~PmEnters(pmThread[t], p)
    <3>1. p \in PmBuiltin \ (PmMissing \cup pmLost) OBVIOUS
    <3>2. PICK u \in PmThreads : PmEnters(pmThread[u], p) BY <2>2, <3>1 DEF PmInv, PmNeverForgotten, PmEnters
    <3>3. u # t BY <2>2, <3>2
    <3>4. PmEnters(pmThread'[u], p) BY <3>2, <3>3 DEF PmEnters, PmSame
    <3> QED BY <3>4
  <2> QED BY <2>1, <2>2
<1> QED BY <1>1, <1>2, <1>3 DEF PmInv

\* A thread goes on and takes no protocol off the pending ones.
LEMMA PmGoesOn ==
    ASSUME PmInv, NEW t \in PmThreads, NEW call \in PmThreadRecords, pmThread' = [pmThread EXCEPT ![t] = call],
           PmCallFine(call, pmPending, pmLost'), pmLost \subseteq pmLost', pmLost' \subseteq PmBuiltin \ PmMissing,
           pmPending' = pmPending, pmClass' \in [PmBuiltin -> {"none", "builtin", "user"}],
           \A p \in PmBuiltin \ (PmMissing \cup pmLost') : pmClass'[p] = "none" =>
               pmClass[p] = "none" /\ ~PmEnters(pmThread[t], p)
    PROVE  PmInv'
<1>1. PmTypes BY DEF PmInv
<1>2. /\ pmThread' \in [PmThreads -> PmThreadRecords] /\ pmThread'[t] = call
      /\ \A u \in PmThreads \ {t} : pmThread'[u] = pmThread[u]
  BY <1>1 DEF PmTypes
<1>3. \A u \in PmThreads \ {t} : PmSame(pmThread'[u], pmThread[u]) BY <1>2 DEF PmSame
<1>4. pmPending' \subseteq PmBuiltin BY <1>1 DEF PmTypes
<1> QED BY <1>2, <1>3, <1>4, PmMoves

\* A thread takes protocol p off them and enters it, if it was there.
LEMMA PmTakesKeeps ==
    ASSUME PmInv, NEW t \in PmThreads, NEW p \in PmBuiltin, NEW call \in PmThreadRecords, PmTakes(t, p, call),
           PmCallFine(call, pmPending \ {p}, pmLost), UNCHANGED <<pmClass, pmLost>>,
           p \in pmPending => PmEnters(call, p), \A q \in PmBuiltin : ~PmEnters(pmThread[t], q)
    PROVE  PmInv'
<1> DEFINE met(u) == pmThread[u].op = "missed" /\ pmThread[u].proto = p
           other(u) == [pmThread[u] EXCEPT !.alone = @ /\ ~met(u)]
<1>1. PmTypes BY DEF PmInv
<1>2. \A u \in PmThreads : pmThread[u] \in PmThreadRecords BY <1>1 DEF PmTypes
<1>3. /\ pmPending' = pmPending \ {p}
      /\ pmThread' = [u \in PmThreads |-> IF u = t THEN call ELSE other(u)]
  BY DEF PmTakes, PmPop
<1>4. \A u \in PmThreads : met(u) \in BOOLEAN OBVIOUS
<1>5. ASSUME NEW u \in PmThreads
      PROVE  /\ other(u) \in PmThreadRecords /\ PmSame(other(u), pmThread[u])
             /\ other(u).alone => ~met(u)
  <2> DEFINE alone == pmThread[u].alone /\ ~met(u)
  <2>1. alone \in BOOLEAN BY <1>2 DEF PmThreadRecords
  <2>2. other(u) = [pmThread[u] EXCEPT !.alone = alone] BY <1>2 DEF PmThreadRecords
  <2>3. (alone => pmThread[u].alone) /\ (alone => ~met(u)) OBVIOUS
  <2> HIDE DEF alone, met, other
  <2> QED BY <1>2, <2>1, <2>2, <2>3 DEF PmThreadRecords, PmSame
<1> HIDE DEF other
<1>6. pmThread' \in [PmThreads -> PmThreadRecords] BY <1>3, <1>5
<1>7. pmThread'[t] = call /\ \A u \in PmThreads \ {t} : pmThread'[u] = other(u) BY <1>3
<1>8. \A u \in PmThreads \ {t} : PmSame(pmThread'[u], pmThread[u]) BY <1>5, <1>7
<1>9. \A u \in PmThreads \ {t} : pmThread[u].op = "missed" /\ pmThread'[u].alone
        /\ pmThread[u].proto \in pmPending => pmThread[u].proto \in pmPending'
  BY <1>3, <1>5, <1>7
<1>10. /\ pmPending' \subseteq PmBuiltin /\ pmClass' \in [PmBuiltin -> {"none", "builtin", "user"}]
       /\ pmLost \subseteq pmLost' /\ pmLost' \subseteq PmBuiltin \ PmMissing
  BY <1>1, <1>3 DEF PmTypes
<1>11. PmCallFine(call, pmPending', pmLost') BY <1>3
<1>12. \A q \in PmBuiltin \ (PmMissing \cup pmLost') : pmClass'[q] = "none" /\ q \notin pmPending' =>
           PmEnters(call, q) \/ (pmClass[q] = "none" /\ q \notin pmPending /\ ~PmEnters(pmThread[t], q))
  BY <1>3
<1> QED BY <1>6, <1>7, <1>8, <1>9, <1>10, <1>11, <1>12, PmMoves

\* A protocol is looked up.
LEMMA PmLookupKeeps == ASSUME PmInv, NEW t \in PmThreads, NEW p \in PmBuiltin, PmLookup(t, p) PROVE PmInv'
<1> DEFINE known == pmClass[p] # "none"
           alone == ~PmBusy(t, p)
           found == [PmIdle EXCEPT !.op = "done", !.proto = p, !.answer = pmClass[p]]
           miss == [PmIdle EXCEPT !.op = "missed", !.proto = p, !.alone = alone]
           call == IF known THEN found ELSE miss
<1>1. /\ pmThread[t].op \in {"idle", "done"} /\ pmThread' = [pmThread EXCEPT ![t] = call]
      /\ UNCHANGED <<pmPending, pmClass, pmLost>>
  BY DEF PmLookup, PmBegin
<1>2. PmTypes BY DEF PmInv
<1>3. alone \in BOOLEAN /\ (known => pmClass[p] \in PmAnswers /\ pmClass[p] # "unsupported")
  BY <1>2 DEF PmTypes, PmBusy, PmAnswers
<1>4. ~known /\ alone /\ p \notin PmMissing \cup pmLost => p \in pmPending
  <2> SUFFICES ASSUME ~known, p \notin PmMissing \cup pmLost, p \notin pmPending PROVE PmBusy(t, p)
    OBVIOUS
  <2>1. PICK u \in PmThreads : pmThread[u].op \in {"import", "assign"} /\ pmThread[u].proto = p
    BY DEF PmInv, PmNeverForgotten
  <2> QED BY <1>1, <2>1 DEF PmBusy
<1> HIDE DEF alone
<1>5. /\ known => found \in PmThreadRecords
      /\ found.op = "done" /\ found.answer = pmClass[p] /\ found.todo = {} /\ found.url = FALSE
  BY <1>3, PmIdleFits DEF PmThreadRecords, PmOps
<1>6. /\ miss \in PmThreadRecords
      /\ miss.op = "missed" /\ miss.proto = p /\ miss.alone = alone /\ miss.todo = {} /\ miss.url = FALSE
  BY <1>3, PmIdleFits DEF PmThreadRecords, PmOps
<1> HIDE DEF found, miss
<1>7. known => PmCallFine(found, pmPending, pmLost) BY <1>3, <1>5 DEF PmCallFine
<1>8. ~known => PmCallFine(miss, pmPending, pmLost) BY <1>4, <1>6 DEF PmCallFine
<1> HIDE DEF known
<1>9. call \in PmThreadRecords /\ PmCallFine(call, pmPending, pmLost') BY <1>1, <1>5, <1>6, <1>7, <1>8
<1> HIDE DEF call
<1>10. \A q \in PmBuiltin : ~PmEnters(pmThread[t], q) BY <1>1 DEF PmEnters
<1>11. /\ pmClass' \in [PmBuiltin -> {"none", "builtin", "user"}]
       /\ pmLost \subseteq pmLost' /\ pmLost' \subseteq PmBuiltin \ PmMissing
  BY <1>1, <1>2 DEF PmTypes
<1> QED BY <1>1, <1>9, <1>10, <1>11, PmGoesOn

\* What _load leaves.
LEMMA PmLoadedIs ==
    ASSUME NEW t \in PmThreads, pmThread[t] \in PmThreadRecords, NEW answer \in PmAnswers, NEW pending, NEW lost,
           pmThread[t].todo # {} => pmThread[t].url,
           answer = "unsupported" /\ pmThread[t].alone => pmThread[t].proto \in PmMissing \cup lost
    PROVE  PmLoaded(t, answer) \in PmThreadRecords /\ PmCallFine(PmLoaded(t, answer), pending, lost)
<1> DEFINE old == pmThread[t]
           call == PmLoaded(t, answer)
<1>1. call = IF old.url THEN [old EXCEPT !.op = "ensure"] ELSE [old EXCEPT !.op = "done", !.answer = answer]
  BY DEF PmLoaded
<1> HIDE DEF old, call
<1>2. old \in PmThreadRecords /\ (old.todo # {} => old.url)
      /\ (answer = "unsupported" /\ old.alone => old.proto \in PmMissing \cup lost)
  BY DEF old
<1>3. CASE old.url
  <2>1. call \in PmThreadRecords /\ call.op = "ensure" /\ call.url BY <1>1, <1>2, <1>3 DEF PmThreadRecords, PmOps
  <2>2. PmCallFine(call, pending, lost) BY <2>1 DEF PmCallFine
  <2> QED BY <2>1, <2>2 DEF call
<1>4. CASE ~old.url
  <2>1. /\ call \in PmThreadRecords /\ call.op = "done" /\ call.answer = answer
        /\ call.todo = old.todo /\ call.proto = old.proto /\ call.alone = old.alone
    BY <1>1, <1>2, <1>4 DEF PmThreadRecords, PmOps
  <2>2. PmCallFine(call, pending, lost) BY <1>2, <1>4, <2>1 DEF PmCallFine
  <2> QED BY <2>1, <2>2 DEF call
<1> QED BY <1>3, <1>4

\* A lookup that missed takes its protocol, or finds it taken.
LEMMA PmMissedKeeps == ASSUME PmInv, NEW t \in PmThreads, PmMissed(t) PROVE PmInv'
<1> DEFINE old == pmThread[t]
           p == old.proto
<1>1. old.op = "missed" /\ UNCHANGED <<pmClass, pmLost>> BY DEF PmMissed
<1>2. PmTypes /\ PmCallFine(old, pmPending, pmLost) BY DEF PmInv
<1>3. old \in PmThreadRecords /\ p \in PmBuiltin BY <1>2 DEF PmTypes, PmThreadRecords
<1>4. (old.todo # {} => old.url) /\ (old.alone /\ p \notin PmMissing \cup pmLost => p \in pmPending)
  BY <1>1, <1>2 DEF PmCallFine
<1>5. \A q \in PmBuiltin : ~PmEnters(old, q) BY <1>1 DEF PmEnters
<1>6. CASE p \in pmPending
  <2> DEFINE call == [old EXCEPT !.op = "import"]
  <2>1. PmTakes(t, p, call) BY <1>6 DEF PmMissed
  <2>2. /\ call \in PmThreadRecords /\ call.op = "import" /\ call.proto = p
        /\ call.todo = old.todo /\ call.url = old.url
    BY <1>3 DEF PmThreadRecords, PmOps
  <2> HIDE DEF call
  <2>3. PmCallFine(call, pmPending \ {p}, pmLost) /\ PmEnters(call, p) BY <1>4, <2>2 DEF PmCallFine, PmEnters
  <2> HIDE DEF p
  <2> QED BY <1>1, <1>3, <1>5, <2>1, <2>2, <2>3, PmTakesKeeps
<1>7. CASE p \notin pmPending
  <2> DEFINE call == PmLoaded(t, "unsupported")
  <2>1. pmThread' = [pmThread EXCEPT ![t] = call] /\ UNCHANGED pmPending BY <1>7 DEF PmMissed
  <2>2. call \in PmThreadRecords /\ PmCallFine(call, pmPending, pmLost)
    <3>1. "unsupported" \in PmAnswers BY DEF PmAnswers
    <3>2. old.alone => p \in PmMissing \cup pmLost BY <1>4, <1>7
    <3> QED BY <1>3, <1>4, <3>1, <3>2, PmLoadedIs
  <2>3. /\ pmClass' \in [PmBuiltin -> {"none", "builtin", "user"}]
        /\ pmLost \subseteq pmLost' /\ pmLost' \subseteq PmBuiltin \ PmMissing
    BY <1>1, <1>2 DEF PmTypes
  <2> HIDE DEF call
  <2> QED BY <1>1, <1>5, <2>1, <2>2, <2>3, PmGoesOn
<1> QED BY <1>6, <1>7

\* A module has been imported ...
LEMMA PmImportedKeeps == ASSUME PmInv, NEW t \in PmThreads, PmImported(t) PROVE PmInv'
<1> DEFINE old == pmThread[t]
           p == old.proto
           answer == pmClass'[p]
           call == PmLoaded(t, answer)
<1>1. /\ old.op = "import" /\ pmThread' = [pmThread EXCEPT ![t] = call] /\ UNCHANGED <<pmPending, pmLost>>
      /\ pmClass' = [pmClass EXCEPT ![p] = PmSetDefault(p)]
  BY DEF PmImported
<1>2. PmTypes /\ PmCallFine(old, pmPending, pmLost) BY DEF PmInv
<1>3. old \in PmThreadRecords /\ p \in PmBuiltin BY <1>2 DEF PmTypes, PmThreadRecords
<1>4. /\ pmClass' \in [PmBuiltin -> {"none", "builtin", "user"}] /\ pmClass'[p] # "none"
      /\ \A q \in PmBuiltin : pmClass'[q] = "none" => pmClass[q] = "none" /\ q # p
  BY <1>1, <1>2, <1>3 DEF PmTypes, PmSetDefault
<1>5. answer \in PmAnswers /\ answer # "unsupported" BY <1>3, <1>4 DEF PmAnswers
<1>6. old.todo # {} => old.url BY <1>2 DEF PmCallFine
<1>7. call \in PmThreadRecords /\ PmCallFine(call, pmPending, pmLost')
  <2> HIDE DEF answer
  <2> QED BY <1>3, <1>5, <1>6, PmLoadedIs
<1>8. \A q \in PmBuiltin : pmClass'[q] = "none" => pmClass[q] = "none" /\ ~PmEnters(old, q) BY <1>4 DEF PmEnters
<1>9. pmLost \subseteq pmLost' /\ pmLost' \subseteq PmBuiltin \ PmMissing BY <1>1, <1>2 DEF PmTypes
<1> HIDE DEF call
<1> QED BY <1>1, <1>4, <1>7, <1>8, <1>9, PmGoesOn

\* ... or an exception has ended its import.
LEMMA PmImportFailsKeeps == ASSUME PmInv, NEW t \in PmThreads, PmImportFails(t) PROVE PmInv'
<1> DEFINE old == pmThread[t]
           p == old.proto
           none == PmLoaded(t, "unsupported")
           raised == [old EXCEPT !.op = "done", !.answer = "raised"]
<1>1. old.op = "import" /\ pmLost' = pmLost \cup ({p} \ PmMissing) /\ UNCHANGED <<pmPending, pmClass>>
  BY DEF PmImportFails
<1>2. PmTypes /\ PmCallFine(old, pmPending, pmLost) BY DEF PmInv
<1>3. old \in PmThreadRecords /\ p \in PmBuiltin BY <1>2 DEF PmTypes, PmThreadRecords
<1>4. old.todo # {} => old.url BY <1>2 DEF PmCallFine
<1>5. PICK call \in {none, raised} : pmThread' = [pmThread EXCEPT ![t] = call]
  BY <1>2 DEF PmImportFails, PmTypes, PmThreadRecords
<1>6. none \in PmThreadRecords /\ PmCallFine(none, pmPending, pmLost')
  <2>1. "unsupported" \in PmAnswers BY DEF PmAnswers
  <2>2. p \in PmMissing \cup pmLost' BY <1>1
  <2> QED BY <1>3, <1>4, <2>1, <2>2, PmLoadedIs
<1>7. raised \in PmThreadRecords /\ PmCallFine(raised, pmPending, pmLost')
  <2> HIDE DEF old
  <2>1. /\ raised \in PmThreadRecords /\ raised.op = "done" /\ raised.answer = "raised"
        /\ raised.todo = old.todo /\ raised.url = old.url
    BY <1>3 DEF PmThreadRecords, PmOps, PmAnswers
  <2> HIDE DEF raised
  <2> QED BY <1>4, <2>1 DEF PmCallFine
<1> HIDE DEF none, raised
<1>8. call \in PmThreadRecords /\ PmCallFine(call, pmPending, pmLost') BY <1>6, <1>7
<1>9. /\ pmClass' \in [PmBuiltin -> {"none", "builtin", "user"}]
      /\ pmLost \subseteq pmLost' /\ pmLost' \subseteq PmBuiltin \ PmMissing
  BY <1>1, <1>2, <1>3 DEF PmTypes
<1>10. \A q \in PmBuiltin \ (PmMissing \cup pmLost') : pmClass'[q] = "none" => pmClass[q] = "none" /\ ~PmEnters(old, q)
  BY <1>1 DEF PmEnters
<1> QED BY <1>1, <1>5, <1>8, <1>9, <1>10, PmGoesOn

\* The pending protocols are loaded for a look at all of them, one by one.
LEMMA PmEnsureKeeps == ASSUME PmInv, NEW t \in PmThreads, PmEnsure(t) PROVE PmInv'
<1> DEFINE old == pmThread[t]
<1>1. old.op = "ensure" /\ UNCHANGED <<pmClass, pmLost>> BY DEF PmEnsure
<1>2. PICK p \in old.todo :
        PmTakes(t, p, [old EXCEPT !.todo = @ \ {p}, !.proto = p,
                                  !.op = IF p \in pmPending THEN "import" ELSE "ensure"])
  BY DEF PmEnsure
<1>3. PmTypes /\ PmCallFine(old, pmPending, pmLost) BY DEF PmInv
<1>4. old \in PmThreadRecords /\ p \in PmBuiltin /\ old.todo \subseteq PmBuiltin BY <1>3 DEF PmTypes, PmThreadRecords
<1> DEFINE op == IF p \in pmPending THEN "import" ELSE "ensure"
           todo == old.todo \ {p}
           call == [old EXCEPT !.todo = todo, !.proto = p, !.op = op]
<1>5. PmTakes(t, p, call) BY <1>2, <1>4 DEF PmThreadRecords
<1>6. old.url BY <1>1, <1>3 DEF PmCallFine
<1>7. op \in {"import", "ensure"} /\ (p \in pmPending => op = "import") /\ todo \subseteq PmBuiltin BY <1>4
<1>8. \A q \in PmBuiltin : ~PmEnters(old, q) BY <1>1 DEF PmEnters
<1> HIDE DEF op, todo
<1>9. call \in PmThreadRecords /\ call.op = op /\ call.proto = p /\ call.url = old.url
  <2> HIDE DEF old
  <2> QED BY <1>4, <1>7 DEF PmThreadRecords, PmOps
<1> HIDE DEF call
<1>10. PmCallFine(call, pmPending \ {p}, pmLost) /\ (p \in pmPending => PmEnters(call, p))
  BY <1>6, <1>7, <1>9 DEF PmCallFine, PmEnters
<1> QED BY <1>1, <1>4, <1>5, <1>8, <1>9, <1>10, PmTakesKeeps

\* A look at all the items begins.
LEMMA PmUrlKeeps == ASSUME PmInv, NEW t \in PmThreads, PmUrl(t) PROVE PmInv'
<1> DEFINE call == [PmIdle EXCEPT !.op = "ensure", !.url = TRUE, !.todo = pmPending]
<1>1. /\ pmThread[t].op \in {"idle", "done"} /\ pmThread' = [pmThread EXCEPT ![t] = call]
      /\ UNCHANGED <<pmPending, pmClass, pmLost>>
  BY DEF PmUrl, PmBegin
<1>2. PmTypes BY DEF PmInv
<1>3. call \in PmThreadRecords /\ call.op = "ensure" /\ call.url
  BY <1>2, PmIdleFits DEF PmTypes, PmThreadRecords, PmOps
<1> HIDE DEF call
<1>4. PmCallFine(call, pmPending, pmLost') BY <1>3 DEF PmCallFine
<1>5. \A q \in PmBuiltin : ~PmEnters(pmThread[t], q) BY <1>1 DEF PmEnters
<1> QED BY <1>1, <1>2, <1>3, <1>4, <1>5, PmGoesOn DEF PmTypes

\* ... takes the items ...
LEMMA PmItemsKeep == ASSUME PmInv, NEW t \in PmThreads, PmItems(t) PROVE PmInv'
<1> DEFINE old == pmThread[t]
           call == [old EXCEPT !.op = "items", !.seen = PmKeys]
<1>1. old.op = "ensure" /\ UNCHANGED <<pmPending, pmClass, pmLost>> BY DEF PmItems
<1>2. PmTypes /\ PmCallFine(old, pmPending, pmLost) BY DEF PmInv
<1>3. old \in PmThreadRecords /\ PmKeys \subseteq PmBuiltin BY <1>2 DEF PmTypes, PmKeys
<1>4. pmThread' = [pmThread EXCEPT ![t] = call] BY <1>2 DEF PmItems, PmTypes, PmThreadRecords
<1>5. old.url BY <1>1, <1>2 DEF PmCallFine
<1>6. \A q \in PmBuiltin : ~PmEnters(pmThread[t], q) BY <1>1 DEF PmEnters
<1> HIDE DEF old
<1>7. call \in PmThreadRecords /\ call.op = "items" /\ call.url = old.url BY <1>3 DEF PmThreadRecords, PmOps
<1> HIDE DEF call
<1>8. PmCallFine(call, pmPending, pmLost') BY <1>5, <1>7 DEF PmCallFine
<1> QED BY <1>1, <1>2, <1>4, <1>6, <1>7, <1>8, PmGoesOn DEF PmTypes

\* ... and finds its class.
LEMMA PmMatchedKeeps == ASSUME PmInv, NEW t \in PmThreads, PmMatched(t) PROVE PmInv'
<1> DEFINE old == pmThread[t]
<1>1. old.op = "items" /\ UNCHANGED <<pmPending, pmClass, pmLost>> BY DEF PmMatched
<1>2. PICK answer \in (IF PmMatch \in old.seen THEN {pmClass[PmMatch]} ELSE {"http"})
                        \cup (IF PmKeys # old.seen THEN {"raised"} ELSE {}) :
        pmThread' = [pmThread EXCEPT ![t].op = "done", ![t].answer = answer]
  BY DEF PmMatched
<1>3. PmTypes /\ PmCallFine(old, pmPending, pmLost) BY DEF PmInv
<1>4. old \in PmThreadRecords BY <1>3 DEF PmTypes
<1> DEFINE call == [old EXCEPT !.op = "done", !.answer = answer]
<1>5. pmThread' = [pmThread EXCEPT ![t] = call] BY <1>2, <1>3 DEF PmTypes, PmThreadRecords
<1>6. old.url BY <1>1, <1>3 DEF PmCallFine
<1>7. \A q \in PmBuiltin : ~PmEnters(pmThread[t], q) BY <1>1 DEF PmEnters
<1>8. answer \in {pmClass[PmMatch], "http", "raised"} BY <1>2
<1> HIDE DEF old
<1>9. answer \in PmAnswers \cup {"none"} BY <1>3, <1>8, PmAssumption DEF PmTypes, PmAnswers
<1>10. call \in PmThreadRecords /\ call.op = "done" /\ call.url = old.url BY <1>4, <1>9 DEF PmThreadRecords, PmOps
<1> HIDE DEF call
<1>11. PmCallFine(call, pmPending, pmLost') BY <1>6, <1>10 DEF PmCallFine
<1> QED BY <1>1, <1>3, <1>5, <1>7, <1>10, <1>11, PmGoesOn DEF PmTypes

\* A class of the user is entered in two steps.
LEMMA PmRegisterKeeps == ASSUME PmInv, NEW t \in PmThreads, NEW p \in PmBuiltin, PmRegister(t, p) PROVE PmInv'
<1> DEFINE call == [PmIdle EXCEPT !.op = "assign", !.proto = p]
<1>1. pmThread[t].op \in {"idle", "done"} /\ PmTakes(t, p, call) /\ UNCHANGED <<pmClass, pmLost>>
  BY DEF PmRegister, PmBegin
<1>2. call \in PmThreadRecords /\ call.op = "assign" /\ call.proto = p /\ call.todo = {} /\ call.answer = ""
  BY PmIdleFits DEF PmThreadRecords, PmOps
<1> HIDE DEF call
<1>3. PmCallFine(call, pmPending \ {p}, pmLost) /\ PmEnters(call, p) BY <1>2 DEF PmCallFine, PmEnters
<1>4. \A q \in PmBuiltin : ~PmEnters(pmThread[t], q) BY <1>1 DEF PmEnters
<1> QED BY <1>1, <1>2, <1>3, <1>4, PmTakesKeeps

\* The class that was imported is entered.
LEMMA PmAssignKeeps == ASSUME PmInv, NEW t \in PmThreads, PmAssign(t) PROVE PmInv'
<1> DEFINE old == pmThread[t]
           call == [old EXCEPT !.op = "done"]
<1>1. /\ old.op = "assign" /\ UNCHANGED <<pmPending, pmLost>>
      /\ pmClass' = [pmClass EXCEPT ![old.proto] = "user"]
  BY DEF PmAssign
<1>2. PmTypes /\ PmCallFine(old, pmPending, pmLost) BY DEF PmInv
<1>3. old \in PmThreadRecords /\ old.proto \in PmBuiltin BY <1>2 DEF PmTypes, PmThreadRecords
<1>4. pmThread' = [pmThread EXCEPT ![t] = call] BY <1>2 DEF PmAssign, PmTypes, PmThreadRecords
<1>5. old.answer # "unsupported" /\ (old.todo # {} => old.url) BY <1>1, <1>2 DEF PmCallFine
<1>6. /\ pmClass' \in [PmBuiltin -> {"none", "builtin", "user"}]
      /\ \A q \in PmBuiltin : pmClass'[q] = "none" => pmClass[q] = "none" /\ q # old.proto
  BY <1>1, <1>2, <1>3 DEF PmTypes
<1>7. \A q \in PmBuiltin : pmClass'[q] = "none" => pmClass[q] = "none" /\ ~PmEnters(pmThread[t], q)
  BY <1>1, <1>6 DEF PmEnters
<1>8. pmLost \subseteq pmLost' /\ pmLost' \subseteq PmBuiltin \ PmMissing BY <1>1, <1>2 DEF PmTypes
<1> HIDE DEF old
<1>9. call \in PmThreadRecords /\ call.op = "done" /\ call.answer = old.answer /\ call.todo = old.todo /\ call.url = old.url
  BY <1>3 DEF PmThreadRecords, PmOps
<1> HIDE DEF call
<1>10. PmCallFine(call, pmPending, pmLost') BY <1>5, <1>9 DEF PmCallFine
<1> QED BY <1>1, <1>4, <1>6, <1>7, <1>8, <1>9, <1>10, PmGoesOn

\* Whatever the threads do.
LEMMA PmStepKeeps == PmInv /\ [PmNext]_pmVars => PmInv'
<1> SUFFICES ASSUME PmInv, [PmNext]_pmVars PROVE PmInv'
  OBVIOUS
<1>1. CASE UNCHANGED pmVars BY <1>1 DEF pmVars, PmInv, PmTypes, PmNeverForgotten
<1>2. CASE PmDone BY <1>1, <1>2 DEF PmDone
<1>3. ASSUME NEW t \in PmThreads,
             \/ PmMissed(t) \/ PmImported(t) \/ PmImportFails(t) \/ PmUrl(t) \/ PmEnsure(t) \/ PmItems(t)
             \/ PmMatched(t) \/ PmAssign(t) \/ \E p \in PmBuiltin : PmLookup(t, p) \/ PmRegister(t, p)
      PROVE  PmInv'
  BY <1>3, PmMissedKeeps, PmImportedKeeps, PmImportFailsKeeps, PmUrlKeeps, PmEnsureKeeps, PmItemsKeep,
     PmMatchedKeeps, PmAssignKeeps, PmLookupKeeps, PmRegisterKeeps
<1> QED BY <1>1, <1>2, <1>3 DEF PmNext

\* No thread has begun.
LEMMA PmInitHolds == PmInit => PmInv
<1> SUFFICES ASSUME PmInit PROVE PmInv
  OBVIOUS
<1>1. PmTypes BY PmIdleFits DEF PmInit, PmTypes
<1>2. PmNeverForgotten BY DEF PmInit, PmNeverForgotten
<1>3. \A t \in PmThreads : PmCallFine(pmThread[t], pmPending, pmLost) BY PmIdleFits DEF PmInit, PmCallFine
<1> QED BY <1>1, <1>2, <1>3 DEF PmInv

\* setdefault keeps a class that is there, and only register_protocol enters
\* one of the user.
LEMMA PmUserKept == PmInv /\ [PmNext]_pmVars => \A p \in PmBuiltin : pmClass[p] = "user" => pmClass'[p] = "user"
<1> SUFFICES ASSUME PmInv, [PmNext]_pmVars, NEW p \in PmBuiltin, pmClass[p] = "user" PROVE pmClass'[p] = "user"
  OBVIOUS
<1>1. PmTypes BY DEF PmInv
<1>2. CASE pmClass' = pmClass BY <1>2
<1>3. ASSUME NEW t \in PmThreads, PmImported(t) PROVE pmClass'[p] = "user"
  BY <1>1, <1>3 DEF PmImported, PmSetDefault, PmTypes
<1>4. ASSUME NEW t \in PmThreads, PmAssign(t) PROVE pmClass'[p] = "user"
  BY <1>1, <1>4 DEF PmAssign, PmTypes
<1>5. \/ pmClass' = pmClass
      \/ \E t \in PmThreads : PmImported(t) \/ PmAssign(t)
  BY DEF PmNext, pmVars, PmDone, PmLookup, PmMissed, PmImportFails, PmRegister, PmUrl, PmEnsure, PmItems, PmMatched
<1> QED BY <1>2, <1>3, <1>4, <1>5

\* Whatever the threads look up and register at once, every installed backend is
\* in the dict, pending or being entered unless an exception ended its import; a
\* class of the user stays; and a lookup of an installed protocol, not lost, that
\* met no other thread is not told that the protocol is unsupported.
THEOREM KeepsClasses == PmSpec => PmKeepsClasses
<1>1. PmInit => PmInv BY PmInitHolds
<1>2. PmInv /\ [PmNext]_pmVars => PmInv' BY PmStepKeeps
<1>3. PmInv => PmNeverForgotten /\ PmServedAlone BY DEF PmInv, PmServedAlone, PmCallFine
<1>4. PmInv /\ [PmNext]_pmVars => [\A p \in PmBuiltin : pmClass[p] = "user" => pmClass'[p] = "user"]_pmVars
  BY PmUserKept
<1> QED BY <1>1, <1>2, <1>3, <1>4, PTL DEF PmSpec, PmKeepsClasses, PmUserClassKept

-----------------------------------------------------------------------------
(* The types of all of them.                                               *)

\* The flight of a batch: its callers are distinct, hence as many as there are.
LEMMA MbBatchIsShort ==
    ASSUME MbInv, NEW b \in mbBatches
    PROVE  Len(b.callers) \in 1..Cardinality(MbCallers)
<1> DEFINE n == Len(b.callers)
           f == [i \in 1..n |-> b.callers[i]]
<1>1. b.callers \in Seq(MbCallers) /\ b.callers # <<>> BY DEF MbInv, MbTypes, MbBatchFits
<1>2. n \in Nat /\ n # 0 /\ \A i \in 1..n : b.callers[i] \in MbCallers BY <1>1
<1>3. IsFiniteSet(MbCallers) /\ Cardinality(MbCallers) \in Nat BY MbAssumption, FS_CardinalityType
<1>4. IsFiniteSet(1..n) /\ Cardinality(1..n) = n BY <1>2, FS_Interval
<1>5. f \in [1..n -> MbCallers] BY <1>2
<1>6. ASSUME NEW i \in 1..n, NEW j \in 1..n, f[i] = f[j] PROVE i = j
  <2>1. MbFliesAt(b, i, f[i]) /\ MbFliesAt(b, j, f[i]) BY <1>6 DEF MbFliesAt
  <2>2. f[i] \in MbCallers BY <1>5
  <2> QED BY <2>1, <2>2 DEF MbInv, MbCaller, MbFliesOnce
<1> HIDE DEF f
<1>7. f \in Injection(1..n, MbCallers) BY <1>5, <1>6 DEF Injection, IsInjective
<1>8. Cardinality(1..n) <= Cardinality(MbCallers) BY <1>3, <1>7, FS_Injection
<1> HIDE DEF n
<1>9. n \in 1..Cardinality(MbCallers) BY <1>2, <1>3, <1>4, <1>8
<1> QED BY <1>9 DEF n

\* A request takes an object away, nothing brings one.
LEMMA MbStoreShrinks == [MbNext]_mbVars /\ mbStore \subseteq MbItems => mbStore' \subseteq MbItems
<1> SUFFICES ASSUME [MbNext]_mbVars, mbStore \subseteq MbItems PROVE mbStore' \subseteq MbItems
  OBVIOUS
<1>1. ASSUME NEW b \in mbBatches, NEW i \in DOMAIN b.callers, MbRequest(b, i) PROVE mbStore' \subseteq MbItems
  BY <1>1 DEF MbRequest
<1>2. ASSUME ~\E b \in mbBatches : \E i \in DOMAIN b.callers : MbRequest(b, i) PROVE mbStore' = mbStore
  BY <1>2 DEF MbNext, MbWork, MbQuiet, MbFlush, MbAnswer, MbAnswerError, MbSubmit, MbCancelCaller, mbVars
<1> QED BY <1>1, <1>2

\* What the batcher keeps.
MbTyped == MbInv /\ mbStore \subseteq MbItems

\* So its variables have their types.
LEMMA MbTypeFollows == MbTyped => MbTypeOK
<1> SUFFICES ASSUME MbTyped PROVE MbTypeOK
  OBVIOUS
<1>1. MbTypes /\ MbKeyPresentWhileScheduled /\ MbInv BY DEF MbTyped, MbInv
<1>2. ASSUME NEW b \in mbBatches
      PROVE  /\ b.callers \in Seq(MbCallers) /\ Len(b.callers) \in 1..Cardinality(MbCallers)
             /\ b.outcomes \in [DOMAIN b.callers -> MbOutcomes \cup {MbNone}]
  <2>1. MbBatchFits(b) BY <1>1 DEF MbTypes
  <2>2. DOMAIN b.callers = 1..Len(b.callers) BY <2>1 DEF MbBatchFits
  <2> QED BY <1>1, <2>1, <2>2, MbBatchIsShort DEF MbBatchFits
<1> QED BY <1>1, <1>2 DEF MbTypeOK, MbTypes, MbTyped, MbKeyPresentWhileScheduled

-----------------------------------------------------------------------------
\* Every question is answered, left behind by a cancelled task, or asked now.
HtCounted ==
    /\ HtInv /\ htAsked \in Nat /\ htLeft \in Nat
    /\ htLeft <= htAsked /\ (htLock # {} => htLeft + 1 <= htAsked)

\* Whatever the connections do.
LEMMA HtCountedKept == HtCounted /\ [HtNext]_htVars => HtCounted'
<1> SUFFICES ASSUME HtCounted, [HtNext]_htVars PROVE HtCounted'
  OBVIOUS
<1>1. HtInv' BY HtStepKeeps DEF HtCounted
<1>2. HtAskedAlone /\ HtAskedAlone' BY <1>1 DEF HtCounted, HtInv
<1> DEFINE Counts == /\ htAsked \in Nat /\ htLeft \in Nat
                     /\ htLeft <= htAsked /\ (htLock # {} => htLeft + 1 <= htAsked)
<1>3. CASE UNCHANGED <<htLock, htAsked, htLeft>> BY <1>1, <1>3 DEF HtCounted
<1>4. ASSUME NEW t \in HtTasks, HtBegin(t) \/ HtNoQuestion(t) \/ HtConnect(t) PROVE UNCHANGED <<htLock, htAsked, htLeft>>
  BY <1>4 DEF HtBegin, HtNoQuestion, HtConnect
<1>5. ASSUME NEW t \in HtTasks, HtAsk(t) PROVE HtCounted'
  <2>1. htLock = {} /\ htAsked' = htAsked + 1 /\ htLeft' = htLeft BY <1>5 DEF HtAsk, HtLockFree
  <2> QED BY <1>1, <2>1 DEF HtCounted
<1>6. ASSUME NEW t \in HtTasks, HtAnswer(t) PROVE HtCounted'
  <2>1. htLock' = htLock \ {t} /\ UNCHANGED <<htAsked, htLeft>> BY <1>6 DEF HtAnswer
  <2> QED BY <1>1, <2>1 DEF HtCounted
<1>7. ASSUME NEW t \in HtTasks, HtCancel(t) PROVE HtCounted'
  <2>1. htLock' = htLock \ {t} /\ htAsked' = htAsked BY <1>7 DEF HtCancel
  <2>2. CASE htPc[t] = "asking"
    <3>1. t \in htLock /\ htLeft' = htLeft + 1 BY <1>2, <1>7, <2>2 DEF HtAskedAlone, HtCancel
    <3>2. htLock' = {} BY <1>2, <2>1, <3>1 DEF HtAskedAlone
    <3> QED BY <1>1, <2>1, <3>1, <3>2 DEF HtCounted
  <2>3. CASE htPc[t] # "asking"
    <3>1. htLeft' = htLeft BY <1>7, <2>3 DEF HtCancel
    <3> QED BY <1>1, <2>1, <3>1 DEF HtCounted
  <2> QED BY <2>2, <2>3
<1>8. HtDone \/ UNCHANGED htVars => UNCHANGED <<htLock, htAsked, htLeft>> BY DEF HtDone, htVars
<1> QED BY <1>3, <1>4, <1>5, <1>6, <1>7, <1>8 DEF HtNext

\* It holds at first, and the variables have their types.
LEMMA HtTypeFollows == (HtInit => HtCounted) /\ (HtCounted => HtTypeOK)
<1>1. HtInit => HtCounted BY HtInitHolds DEF HtCounted, HtInit
<1>2. HtCounted => HtTypeOK
  <2> SUFFICES ASSUME HtCounted PROVE HtTypeOK
    OBVIOUS
  <2>1. HtInv /\ htLock \subseteq HtTasks BY DEF HtCounted, HtInv, HtAskedAlone
  <2>2. htAsked \in Nat /\ htLeft \in 0..htAsked BY DEF HtCounted
  <2> QED BY <2>1, <2>2 DEF HtTypeOK, HtInv, HtPlaces
<1> QED BY <1>1, <1>2

-----------------------------------------------------------------------------
\* A lock that is made is the first of some task, and a task that waits or
\* works has one, with a client that was logged in.
FpIdle == {t \in FpTasks : fpTask[t].at = "idle"}
FpNumbers ==
    /\ fpMade + Cardinality(FpIdle) <= Cardinality(FpTasks)
    /\ fpHeld \subseteq 1..fpMade
    /\ \A t \in FpTasks : /\ fpTask[t].client <= fpClients
                          /\ fpTask[t].at = "wait" => fpTask[t].lock \in 1..fpMade
    /\ fpResets \in 0..FpMaxResets

\* What a task's step must keep of the numbers, when it makes no lock.
LEMMA FpNumbersStay ==
    ASSUME FpTypes, FpNumbers, NEW t \in FpTasks, NEW place \in FpPlaces \ {"idle", "wait"}, FpBecomes(t, place),
           fpTask'[t].client <= fpClients', fpMade' = fpMade, fpResets' = fpResets,
           fpHeld' \subseteq 1..fpMade, fpClients' \in Nat, fpClients <= fpClients'
    PROVE  FpNumbers'
<1>1. FpIdle' \subseteq FpIdle BY DEF FpBecomes, FpIdle
<1>2. IsFiniteSet(FpIdle) BY FpAssumption, FS_Subset DEF FpIdle
<1>3. /\ Cardinality(FpIdle') <= Cardinality(FpIdle)
      /\ Cardinality(FpIdle') \in Nat /\ Cardinality(FpIdle) \in Nat /\ Cardinality(FpTasks) \in Nat
  BY <1>1, <1>2, FpAssumption, FS_Subset, FS_CardinalityType
<1>4. fpMade' + Cardinality(FpIdle') <= Cardinality(FpTasks) BY <1>3 DEF FpNumbers, FpTypes
<1>5. ASSUME NEW u \in FpTasks
      PROVE  fpTask'[u].client <= fpClients' /\ (fpTask'[u].at = "wait" => fpTask'[u].lock \in 1..fpMade')
  <2>1. CASE u = t BY <2>1 DEF FpBecomes
  <2>2. CASE u # t
    <3>1. fpTask'[u] = fpTask[u] /\ fpTask[u].client \in Nat BY <2>2 DEF FpBecomes, FpTypes, FpTaskSet
    <3> QED BY <3>1 DEF FpNumbers, FpTypes
  <2> QED BY <2>1, <2>2
<1> QED BY <1>4, <1>5 DEF FpNumbers

\* A task begins: the lock of its key is an old one or the next.
LEMMA FpOpCounts == ASSUME FpInv, FpNumbers, NEW t \in FpTasks, FpOp(t) PROVE FpNumbers'
<1>1. /\ FpBecomes(t, "wait") /\ fpTask[t].at = "idle"
      /\ UNCHANGED <<fpHeld, fpClients, fpResets>>
  BY FpOpens DEF FpOp, FpInv, fpFixed
<1>2. PICK key \in FpPasswords, lock \in Nat :
        /\ fpTask'[t].key = key /\ fpTask'[t].lock = lock
        /\ \/ fpLocks[key] # 0 /\ lock = fpLocks[key] /\ fpMade' = fpMade
           \/ fpLocks[key] = 0 /\ lock = fpMade + 1 /\ fpMade' = fpMade + 1
  BY FpOpens DEF FpInv
<1>3. fpTask'[t].client = fpTask[t].client
  BY DEF FpOp, FpInv, FpTypes, FpTaskSet
<1>4. fpMade \in Nat /\ fpMade' \in Nat /\ fpMade <= fpMade' /\ fpMade' <= fpMade + 1 /\ lock \in 1..fpMade'
  BY <1>2 DEF FpInv, FpTypes, FpPoolFits
<1>5. FpIdle' = FpIdle \ {t} /\ t \in FpIdle BY <1>1 DEF FpBecomes, FpIdle
<1>6. IsFiniteSet(FpIdle) BY FpAssumption, FS_Subset DEF FpIdle
<1>7. Cardinality(FpIdle') = Cardinality(FpIdle) - 1 /\ Cardinality(FpIdle) \in Nat /\ Cardinality(FpTasks) \in Nat
  BY <1>5, <1>6, FpAssumption, FS_RemoveElement, FS_CardinalityType
<1>8. fpMade' + Cardinality(FpIdle') <= Cardinality(FpTasks) BY <1>4, <1>7 DEF FpNumbers
<1>9. fpHeld' \subseteq 1..fpMade' BY <1>1, <1>4 DEF FpNumbers
<1>10. ASSUME NEW u \in FpTasks
      PROVE  fpTask'[u].client <= fpClients' /\ (fpTask'[u].at = "wait" => fpTask'[u].lock \in 1..fpMade')
  <2>1. CASE u = t BY <1>1, <1>2, <1>3, <1>4, <2>1 DEF FpNumbers
  <2>2. CASE u # t
    <3>1. fpTask'[u] = fpTask[u] BY <1>1, <2>2 DEF FpBecomes
    <3> QED BY <1>1, <1>4, <3>1 DEF FpNumbers
  <2> QED BY <2>1, <2>2
<1> QED BY <1>1, <1>8, <1>9, <1>10 DEF FpNumbers

\* A task takes the lock of its key, which was made.
LEMMA FpEnterCounts == ASSUME FpInv, FpNumbers, NEW t \in FpTasks, FpEnter(t) PROVE FpNumbers'
<1>1. /\ fpTask[t].at = "wait" /\ FpGo(t, "ensure") /\ fpHeld' = fpHeld \cup {fpTask[t].lock}
      /\ UNCHANGED <<fpMade, fpClients, fpResets>>
  BY DEF FpEnter, fpPool, fpFixed
<1>2. FpTypes /\ "ensure" \in FpPlaces \ {"idle", "wait"} BY DEF FpInv, FpPlaces
<1>3. FpBecomes(t, "ensure") /\ FpSame(t) BY <1>1, <1>2, FpGoes
<1>4. fpHeld' \subseteq 1..fpMade BY <1>1 DEF FpNumbers
<1>5. fpTask'[t].client <= fpClients' /\ fpClients' \in Nat /\ fpClients <= fpClients'
  BY <1>1, <1>2, <1>3 DEF FpNumbers, FpSame, FpTypes
<1> QED BY <1>1, <1>2, <1>3, <1>4, <1>5, FpNumbersStay

\* A task finds a client in the pool, or logs in.
LEMMA FpEnsureCounts == ASSUME FpInv, FpNumbers, NEW t \in FpTasks, FpEnsure(t) PROVE FpNumbers'
<1> DEFINE cached == fpTask[t].key = "none" /\ fpTerminal /\ fpStore # "none"
           password == IF cached THEN fpStore ELSE fpTask[t].key
           client == fpCache[fpTask[t].key]
<1>1. /\ fpTask' = [fpTask EXCEPT ![t] =
               IF client # 0 THEN [@ EXCEPT !.at = "request", !.client = client]
               ELSE [@ EXCEPT !.at = "login", !.cached = cached, !.password = password]]
      /\ UNCHANGED <<fpMade, fpHeld, fpClients, fpResets>>
  BY DEF FpEnsure, fpPool, fpFixed
<1>2. FpTypes /\ fpTask[t] \in FpTaskSet /\ fpTask[t].key \in FpPasswords BY DEF FpInv, FpTypes, FpTaskSet
<1>3. client \in Nat /\ client <= fpClients BY <1>2 DEF FpInv, FpTypes, FpPoolFits
<1>4. cached \in BOOLEAN /\ password \in FpPasswords \cup FpEntries BY <1>2 DEF FpTypes
<1> HIDE DEF cached, password, client
<1>5. CASE client # 0
  <2> DEFINE task == [fpTask[t] EXCEPT !.at = "request", !.client = client]
  <2>1. task \in FpTaskSet /\ task.at = "request" /\ task.client = client BY <1>2, <1>3 DEF FpTaskSet, FpPlaces
  <2>2. fpTask' = [fpTask EXCEPT ![t] = task] BY <1>1, <1>5
  <2> HIDE DEF task
  <2>3. FpBecomes(t, "request") /\ fpTask'[t].client = client BY <1>2, <2>1, <2>2, FpUpdates
  <2>4. "request" \in FpPlaces \ {"idle", "wait"} BY DEF FpPlaces
  <2>5. fpHeld' \subseteq 1..fpMade /\ fpClients' \in Nat /\ fpClients <= fpClients' BY <1>1, <1>2 DEF FpNumbers, FpTypes
  <2> QED BY <1>1, <1>2, <1>3, <2>3, <2>4, <2>5, FpNumbersStay
<1>6. CASE client = 0
  <2> DEFINE task == [fpTask[t] EXCEPT !.at = "login", !.cached = cached, !.password = password]
  <2>1. task \in FpTaskSet /\ task.at = "login" /\ task.client = fpTask[t].client
    BY <1>2, <1>4 DEF FpTaskSet, FpPlaces
  <2>2. fpTask' = [fpTask EXCEPT ![t] = task] BY <1>1, <1>6
  <2> HIDE DEF task
  <2>3. FpBecomes(t, "login") /\ fpTask'[t].client = fpTask[t].client BY <1>2, <2>1, <2>2, FpUpdates
  <2>4. "login" \in FpPlaces \ {"idle", "wait"} BY DEF FpPlaces
  <2>5. fpHeld' \subseteq 1..fpMade /\ fpClients' \in Nat /\ fpClients <= fpClients' /\ fpTask'[t].client <= fpClients'
    BY <1>1, <1>2, <2>3 DEF FpNumbers, FpTypes
  <2> QED BY <1>1, <1>2, <2>3, <2>4, <2>5, FpNumbersStay
<1> QED BY <1>5, <1>6

\* A login makes a client, and the pool keeps it.
LEMMA FpLoggedInCounts == ASSUME FpInv, FpNumbers, NEW t \in FpTasks, FpLoggedIn(t) PROVE FpNumbers'
<1> DEFINE client == fpClients'
           task == [fpTask[t] EXCEPT !.at = "request", !.client = client]
<1>1. fpTask' = [fpTask EXCEPT ![t] = task] /\ client = fpClients + 1 /\ UNCHANGED <<fpMade, fpHeld, fpResets>>
  BY DEF FpLoggedIn, fpFixed
<1>2. FpTypes /\ fpTask[t] \in FpTaskSet /\ fpClients \in Nat BY DEF FpInv, FpTypes
<1>3. client \in Nat /\ fpClients <= client BY <1>1, <1>2
<1> HIDE DEF client
<1>4. task \in FpTaskSet /\ task.at = "request" /\ task.client = client BY <1>2, <1>3 DEF FpTaskSet, FpPlaces
<1> HIDE DEF task
<1>5. FpBecomes(t, "request") /\ fpTask'[t].client = client BY <1>1, <1>2, <1>4, FpUpdates
<1>6. "request" \in FpPlaces \ {"idle", "wait"} BY DEF FpPlaces
<1>7. fpHeld' \subseteq 1..fpMade /\ fpClients' \in Nat /\ fpClients <= fpClients' /\ fpTask'[t].client <= fpClients'
  BY <1>1, <1>3, <1>5 DEF FpNumbers, client
<1> QED BY <1>1, <1>2, <1>5, <1>6, <1>7, FpNumbersStay

\* The other steps of a task keep its client and take no lock.
LEMMA FpOthersCount ==
    ASSUME FpInv, FpNumbers, NEW t \in FpTasks,
           FpRefuse(t) \/ FpTyped(t) \/ FpRequest(t) \/ FpReply(t) \/ FpCancel(t)
    PROVE  FpNumbers'
<1>1. FpTypes /\ fpTask[t] \in FpTaskSet /\ fpClients \in Nat BY DEF FpInv, FpTypes
<1>2. UNCHANGED <<fpMade, fpClients, fpResets>> /\ fpHeld' \subseteq fpHeld
  BY DEF FpRefuse, FpTyped, FpRequest, FpReply, FpCancel, fpPool, fpFixed, FpEnd, FpRelease
<1>3. fpHeld' \subseteq 1..fpMade /\ fpClients' \in Nat /\ fpClients <= fpClients' /\ fpTask[t].client <= fpClients'
  BY <1>1, <1>2 DEF FpNumbers
<1>4. CASE \E place \in {"asking", "failed", "reply", "ok"} : FpGo(t, place)
  <2>1. PICK place \in {"asking", "failed", "reply", "ok"} : FpGo(t, place) BY <1>4
  <2>2. place \in FpPlaces \ {"idle", "wait"} BY DEF FpPlaces
  <2>3. FpBecomes(t, place) /\ FpSame(t) BY <1>1, <2>1, <2>2, FpGoes
  <2>4. fpTask'[t].client <= fpClients' BY <1>3, <2>3 DEF FpSame
  <2> QED BY <1>1, <1>2, <1>3, <2>2, <2>3, <2>4, FpNumbersStay
<1>5. CASE FpTyped(t)
  <2>1. PICK password \in {"good", "bad"} :
          fpTask' = [fpTask EXCEPT ![t] = [@ EXCEPT !.at = "again", !.password = password]]
    BY <1>5 DEF FpTyped
  <2> DEFINE task == [fpTask[t] EXCEPT !.at = "again", !.password = password]
  <2>2. task \in FpTaskSet /\ task.at = "again" /\ task.client = fpTask[t].client
    BY <1>1 DEF FpTaskSet, FpPlaces, FpPasswords
  <2>3. fpTask' = [fpTask EXCEPT ![t] = task] BY <2>1
  <2> HIDE DEF task
  <2>4. FpBecomes(t, "again") /\ fpTask'[t].client = fpTask[t].client
    <3>1. FpBecomes(t, task.at) /\ fpTask'[t] = task BY ONLY <1>1, <2>2, <2>3, FpUpdates
    <3> QED BY ONLY <2>2, <3>1
  <2>5. "again" \in FpPlaces \ {"idle", "wait"} BY DEF FpPlaces
  <2>6. fpTask'[t].client <= fpClients' BY <1>3, <2>4
  <2> QED BY <1>1, <1>2, <1>3, <2>4, <2>5, <2>6, FpNumbersStay
<1>6. CASE FpRefuse(t) \/ FpRequest(t) \/ FpReply(t) \/ FpCancel(t)
  <2>1. \E place \in {"asking", "failed", "reply", "ok"} : FpGo(t, place)
    BY <1>6 DEF FpRefuse, FpRequest, FpReply, FpCancel, FpEnd
  <2> QED BY <1>4, <2>1
<1> QED BY <1>5, <1>6

\* Whatever the operations do.
LEMMA FpNumbersKept == FpInv /\ FpNumbers /\ [FpNext]_fpVars => FpNumbers'
<1> SUFFICES ASSUME FpInv, FpNumbers, [FpNext]_fpVars PROVE FpNumbers'
  OBVIOUS
<1>1. CASE FpDone \/ UNCHANGED fpVars BY <1>1 DEF FpDone, fpVars, FpNumbers, FpIdle
<1>2. CASE FpDisconnectAll
  <2>1. UNCHANGED <<fpMade, fpHeld, fpClients, fpTask>> /\ fpResets < FpMaxResets /\ fpResets' = fpResets + 1
    BY <1>2 DEF FpDisconnectAll
  <2>2. fpResets' \in 0..FpMaxResets BY <2>1, FpAssumption DEF FpNumbers
  <2> QED BY <2>1, <2>2 DEF FpNumbers, FpIdle
<1> QED BY <1>1, <1>2, FpOpCounts, FpEnterCounts, FpEnsureCounts, FpLoggedInCounts, FpOthersCount DEF FpNext

\* Nothing has been opened.
LEMMA FpNumbersBegin == FpInit => FpNumbers
<1> SUFFICES ASSUME FpInit PROVE FpNumbers
  OBVIOUS
<1>1. \A t \in FpTasks : fpTask[t].at = "idle" /\ fpTask[t].client = 0 BY DEF FpInit
<1>2. FpIdle = FpTasks BY <1>1 DEF FpIdle
<1>3. Cardinality(FpTasks) \in Nat BY FpAssumption, FS_CardinalityType
<1> QED BY <1>1, <1>2, <1>3, FpAssumption DEF FpInit, FpNumbers

\* So the variables have their types.
LEMMA FpTypeFollows == FpInv /\ FpNumbers => FpTypeOK
<1> SUFFICES ASSUME FpInv, FpNumbers PROVE FpTypeOK
  OBVIOUS
<1>1. FpTypes /\ FpPoolFits BY DEF FpInv
<1>2. IsFiniteSet(FpIdle) /\ IsFiniteSet(FpToLogIn) BY FpAssumption, FS_Subset DEF FpIdle, FpToLogIn
<1>3. Cardinality(FpIdle) \in Nat /\ Cardinality(FpToLogIn) \in Nat /\ Cardinality(FpTasks) \in Nat
  BY <1>2, FpAssumption, FS_CardinalityType
<1>4. fpMade \in 0..Cardinality(FpTasks) /\ fpClients \in 0..Cardinality(FpTasks)
  BY <1>1, <1>3 DEF FpTypes, FpNumbers, FpInv, FpClientsFit
<1>5. fpLocks \in [FpPasswords -> 0..fpMade] /\ fpCache \in [FpPasswords -> 0..fpClients]
  BY <1>1, <1>4 DEF FpTypes, FpPoolFits
<1>6. \A t \in FpTasks : fpTask[t].at \in FpPlaces /\ fpTask[t].client \in 0..fpClients
  BY <1>1 DEF FpTypes, FpTaskSet, FpNumbers
<1> QED BY <1>1, <1>4, <1>5, <1>6 DEF FpTypeOK, FpNumbers, FpPoolFits, FpTypes

-----------------------------------------------------------------------------
\* Every URL of the walk is one the server names.
HwEntryNamed(entry) == entry.dir \in HwUrls /\ entry.todo \subseteq HwUrls
HwNamed ==
    /\ \A i \in 1..Len(hwStack) : HwEntryNamed(hwStack[i])
    /\ hwListed \subseteq HwUrls /\ hwYielded \subseteq HwUrls
    /\ hwState \in {"walking", "done", "raised"}

\* A link that is found is one a page may hold.
LEMMA HwFoundNamed == ASSUME NEW page, NEW found \in HwFound(page) PROVE found.url \in HwUrls
<1>1. PICK link \in HwLinks(page) : found = [url |-> IF link.other THEN <<>> ELSE link.url, slash |-> link.slash]
  BY DEF HwFound
<1>2. link.url \in HwUrls BY <1>1 DEF HwLinks
<1>3. <<>> \in HwUrls BY DEF HwUrls
<1> QED BY <1>1, <1>2, <1>3

\* The walk begins with the root.
LEMMA HwNamedBegins == HwInit => HwNamed
<1> SUFFICES ASSUME HwInit PROVE HwNamed
  OBVIOUS
<1> DEFINE e == [dir |-> HwRoot, todo |-> {}, listed |-> FALSE]
<1>1. hwStack = <<e>> /\ hwListed = {} /\ hwYielded = {} /\ hwState = "walking" BY DEF HwInit
<1>2. HwRoot \in HwUrls
  <2> DEFINE tail == [i \in 1..0 |-> "root"]
  <2>1. 0 \in 0..HwDepth BY HwAssumption
  <2>2. tail \in [1..0 -> HwNames] /\ tail = <<>> OBVIOUS
  <2> HIDE DEF tail
  <2>3. tail \in UNION {[1..n -> HwNames] : n \in 0..HwDepth} BY <2>1, <2>2
  <2>4. <<"root">> \o tail = <<"root">> BY <2>2
  <2>5. <<"root">> \o tail \in {<<"root">> \o t : t \in UNION {[1..n -> HwNames] : n \in 0..HwDepth}} BY <2>3
  <2> QED BY <2>4, <2>5 DEF HwUrls, HwRoot
<1>3. HwEntryNamed(e) BY <1>2 DEF HwEntryNamed
<1> HIDE DEF e
<1>4. Len(hwStack) = 1 /\ hwStack[1] = e BY <1>1
<1> QED BY <1>1, <1>3, <1>4 DEF HwNamed

\* Listing a directory.
LEMMA HwListNames == ASSUME HwInv, HwNamed, HwList PROVE HwNamed'
<1> DEFINE n == Len(hwStack)
           top == HwTop
<1>1. /\ n \in Nat \ {0} /\ top = hwStack[n] /\ top \in HwEntry
      /\ HwPop \in Seq(HwEntry) /\ Len(HwPop) = n - 1 /\ \A i \in 1..(n - 1) : HwPop[i] = hwStack[i]
  BY HwTopIs DEF HwList
<1>2. PICK found \in SUBSET HwFound(top.dir) :
        /\ hwYielded' = hwYielded \cup {link.url : link \in found}
        /\ hwStack' = Append(HwPop, [top EXCEPT !.listed = TRUE, !.todo = {link.url : link \in {l \in found : l.slash}}])
  BY DEF HwList
<1>3. hwListed' = hwListed \cup {top.dir} /\ hwState' = hwState BY DEF HwList
<1> DEFINE todo == {link.url : link \in {l \in found : l.slash}}
           e == [dir |-> top.dir, todo |-> todo, listed |-> TRUE]
<1>4. hwStack' = Append(HwPop, e)
  <2>1. [top EXCEPT !.listed = TRUE, !.todo = todo] = e BY <1>1, HwMarked
  <2> QED BY <1>2, <2>1
<1>5. HwEntryNamed(top) BY <1>1 DEF HwNamed
<1>6. \A link \in found : link.url \in HwUrls BY HwFoundNamed
<1>7. HwEntryNamed(e) BY <1>5, <1>6 DEF HwEntryNamed
<1>8. hwYielded' \subseteq HwUrls /\ hwListed' \subseteq HwUrls BY <1>2, <1>3, <1>5, <1>6 DEF HwNamed, HwEntryNamed
<1> HIDE DEF e, n, top
<1>9. Len(hwStack') = n /\ hwStack'[n] = e /\ \A i \in 1..(n - 1) : hwStack'[i] = hwStack[i] BY <1>1, <1>4
<1>10. \A i \in 1..n : i = n \/ i \in 1..(n - 1) BY <1>1
<1>11. \A i \in 1..n : HwEntryNamed(hwStack'[i]) BY <1>7, <1>9, <1>10 DEF HwNamed, n
<1> QED BY <1>3, <1>8, <1>9, <1>11 DEF HwNamed

\* Leaving one.
LEMMA HwPopNames ==
    ASSUME HwInv, HwNamed, hwState = "walking", hwStack' = HwPop, hwState' = HwAfterPop,
           UNCHANGED <<hwListed, hwYielded>>
    PROVE  HwNamed'
<1> DEFINE n == Len(hwStack)
<1>1. n \in Nat \ {0} /\ Len(HwPop) = n - 1 /\ \A i \in 1..(n - 1) : HwPop[i] = hwStack[i] BY HwTopIs
<1>2. \A i \in 1..(n - 1) : i \in 1..n BY <1>1
<1>3. hwState' \in {"walking", "done", "raised"} BY DEF HwAfterPop
<1> QED BY <1>1, <1>2, <1>3 DEF HwNamed

\* Going into one of those listed.
LEMMA HwDescendNames == ASSUME HwInv, HwNamed, HwDescend PROVE HwNamed'
<1> DEFINE n == Len(hwStack)
           top == HwTop
<1>1. /\ n \in Nat \ {0} /\ top = hwStack[n] /\ top \in HwEntry
      /\ HwPop \in Seq(HwEntry) /\ Len(HwPop) = n - 1 /\ \A i \in 1..(n - 1) : HwPop[i] = hwStack[i]
  BY HwTopIs DEF HwDescend
<1>2. PICK dir \in top.todo :
        hwStack' = HwPop \o <<[top EXCEPT !.todo = top.todo \ {dir}], [dir |-> dir, todo |-> {}, listed |-> FALSE]>>
  BY DEF HwDescend
<1>3. UNCHANGED <<hwListed, hwYielded, hwState>> BY DEF HwDescend
<1>4. HwEntryNamed(top) BY <1>1 DEF HwNamed
<1> DEFINE d == [dir |-> top.dir, todo |-> top.todo \ {dir}, listed |-> top.listed]
           e == [dir |-> dir, todo |-> {}, listed |-> FALSE]
<1>5. hwStack' = HwPop \o <<d, e>>
  <2>1. [top EXCEPT !.todo = top.todo \ {dir}] = d BY <1>1, HwMarked
  <2> QED BY <1>2, <2>1
<1>6. HwEntryNamed(d) /\ HwEntryNamed(e) BY <1>4 DEF HwEntryNamed
<1>10. d \in HwEntry /\ e \in HwEntry
  <2>1. HwTypes BY DEF HwInv
  <2>2. top.dir \in HwSeqs /\ top.todo \subseteq HwSeqs /\ top.listed \in BOOLEAN BY <1>1 DEF HwEntry
  <2> HIDE DEF top
  <2> QED BY <2>2 DEF HwEntry
<1> HIDE DEF d, e, n
<1>7. /\ Len(hwStack') = n + 1 /\ hwStack'[n] = d /\ hwStack'[n + 1] = e
      /\ \A i \in 1..(n - 1) : hwStack'[i] = hwStack[i]
  <2> DEFINE p == Append(HwPop, d)
  <2>1. hwStack' = Append(p, e) BY <1>1, <1>5, <1>10
  <2>2. p \in Seq(HwEntry) /\ Len(p) = n /\ p[n] = d /\ \A i \in 1..(n - 1) : p[i] = HwPop[i] BY <1>1, <1>10
  <2> HIDE DEF p
  <2>3. Len(hwStack') = n + 1 /\ hwStack'[n + 1] = e /\ \A i \in 1..n : hwStack'[i] = p[i] BY <1>10, <2>1, <2>2
  <2>4. n \in 1..n /\ \A i \in 1..(n - 1) : i \in 1..n BY <1>1
  <2> QED BY <1>1, <2>2, <2>3, <2>4
<1>8. \A i \in 1..(n + 1) : i = n \/ i = n + 1 \/ (i \in 1..(n - 1) /\ i \in 1..n) BY <1>1
<1>9. \A i \in 1..(n + 1) : HwEntryNamed(hwStack'[i]) BY <1>6, <1>7, <1>8 DEF HwNamed, n
<1> QED BY <1>3, <1>7, <1>9 DEF HwNamed

\* Whatever the pages hold.
LEMMA HwNamedKept == HwInv /\ HwNamed /\ [HwNext]_hwVars => HwNamed'
<1> SUFFICES ASSUME HwInv, HwNamed, [HwNext]_hwVars PROVE HwNamed'
  OBVIOUS
<1>1. CASE HwDone \/ UNCHANGED hwVars BY <1>1 DEF HwDone, hwVars, HwNamed
<1>2. CASE HwListFails
  <2>1. CASE hwStack' = HwPop /\ hwState' = HwAfterPop BY <1>2, <2>1, HwPopNames DEF HwListFails
  <2>2. CASE hwState' = "raised" /\ UNCHANGED hwStack BY <1>2, <2>2 DEF HwListFails, HwNamed
  <2> QED BY <1>2, <2>1, <2>2 DEF HwListFails
<1>3. CASE HwReturn BY <1>3, HwPopNames DEF HwReturn
<1> QED BY <1>1, <1>2, <1>3, HwListNames, HwDescendNames DEF HwNext

\* So the variables have their types.
LEMMA HwTypeFollows == HwInv /\ HwNamed => HwTypeOK
<1> SUFFICES ASSUME HwInv, HwNamed PROVE HwTypeOK
  OBVIOUS
<1>1. hwStack \in Seq(HwEntry) BY DEF HwInv, HwTypes
<1> DEFINE s == hwStack
<1> HIDE DEF s
<1>2. DOMAIN s = 1..Len(s) BY <1>1 DEF s
<1>3. DOMAIN hwStack = 1..Len(hwStack) BY <1>2 DEF s
<1> QED BY <1>3 DEF HwNamed, HwEntryNamed, HwTypeOK

-----------------------------------------------------------------------------
\* What the objects and the calls under way remember are answers for their own items.
AiAnswers(o) == AiValues[AiItemOf(o)] \cup {"none"}
AiItems == [folder : {"absent", "dir"}, file : {"absent", "A", "B"}]
AiFlags == {"unknown", "folder", "file"}
AiServed ==
    /\ aiItem \in AiItems /\ aiFolder \in [AiObjects -> AiFlags]
    /\ \A o \in AiObjects : aiInfo[o] \in AiAnswers(o)
    /\ \A t \in AiTasks : aiTask[t].raw \in AiAnswers(aiTask[t].obj)
    /\ aiCalls \in 0..AiMaxCalls /\ aiOthers \in 0..AiMaxOthers

\* The server answers for the item it is asked about.
LEMMA AiAnswersItem == ASSUME aiItem \in AiItems, NEW o \in AiObjects PROVE aiItem[AiItemOf(o)] \in AiAnswers(o)
<1>1. aiItem["folder"] \in {"absent", "dir"} /\ aiItem["file"] \in {"absent", "A", "B"} BY DEF AiItems
<1>2. AiValues["folder"] = {"absent", "dir"} /\ AiValues["file"] = {"absent", "A", "B"} BY DEF AiValues
<1> QED BY <1>1, <1>2 DEF AiItemOf, AiAnswers

\* A task that goes to another place carries no answer.
LEMMA AiGoServes ==
    ASSUME AiTypes, NEW t \in AiTasks, NEW place, AiGo(t, place),
           \A u \in AiTasks : aiTask[u].raw \in AiAnswers(aiTask[u].obj)
    PROVE  \A u \in AiTasks : aiTask'[u].raw \in AiAnswers(aiTask'[u].obj)
<1>1. "none" \in AiAnswers("f") /\ \A o : "none" \in AiAnswers(o) BY DEF AiAnswers
<1>2. AiAt(aiTask[t], place).raw = "none"
  <2>1. aiTask[t] \in AiCallRecords BY DEF AiTypes
  <2> QED BY <2>1 DEF AiAt, AiIdle, AiCallRecords
<1>3. aiTask'[t] = AiAt(aiTask[t], place) /\ \A u \in AiTasks \ {t} : aiTask'[u] = aiTask[u] BY DEF AiGo, AiTypes
<1> QED BY <1>1, <1>2, <1>3

\* A call on a path begins.
LEMMA AiCallServes == ASSUME AiInv, AiServed, NEW t \in AiTasks, AiCall(t) PROVE AiServed'
<1>1. aiCalls < AiMaxCalls /\ aiCalls' = aiCalls + 1 /\ UNCHANGED <<aiItem, aiFolder, aiOthers>> BY DEF AiCall
<1> DEFINE At(o, op) == CASE op \in {"write", "unlink", "iterdir"} -> op
                          [] op \in {"is_file", "move"} -> "kind"
                          [] OTHER -> IF aiInfo'[o] = "none" THEN "request" ELSE "info"
           Knew(o) == \/ aiFolder[o] # "unknown" \/ aiInfo[o] # "none"
                      \/ \E other \in AiTasks : aiTask[other].at # "idle" /\ AiObj(other) = o
<1>2. PICK o \in AiObjects : \E op \in AiOps(o) :
        /\ aiInfo' = [aiInfo EXCEPT ![o] = IF op = "transfer_stat" THEN AiDropInfo(o) ELSE @]
        /\ aiTask' = [aiTask EXCEPT ![t] = [at |-> At(o, op), op |-> op, obj |-> o, raw |-> "none", knew |-> Knew(o)]]
  BY DEF AiCall
<1> HIDE DEF At, Knew
<1>3. PICK at, op, knew : aiTask' = [aiTask EXCEPT ![t] = [at |-> at, op |-> op, obj |-> o, raw |-> "none", knew |-> knew]]
  BY <1>2
<1>4. AiTypes BY DEF AiInv
<1>5. \A p : "none" \in AiAnswers(p) BY DEF AiAnswers
<1>6. \A p \in AiObjects : aiInfo'[p] = aiInfo[p] \/ aiInfo'[p] = "none" BY <1>2, <1>4 DEF AiTypes, AiDropInfo
<1> DEFINE call == [at |-> at, op |-> op, obj |-> o, raw |-> "none", knew |-> knew]
<1>7. call.raw = "none" OBVIOUS
<1> HIDE DEF call
<1>8. aiTask' = [aiTask EXCEPT ![t] = call] BY <1>3 DEF call
<1>9. \A u \in AiTasks : aiTask'[u] = IF u = t THEN call ELSE aiTask[u] BY <1>4, <1>8 DEF AiTypes
<1>10. \A u \in AiTasks : aiTask'[u].raw \in AiAnswers(aiTask'[u].obj) BY <1>5, <1>7, <1>9 DEF AiServed
<1>11. aiCalls' \in 0..AiMaxCalls BY <1>1, AiAssumption DEF AiServed
<1> QED BY <1>1, <1>5, <1>6, <1>10, <1>11 DEF AiServed

\* A call takes what the path remembers, or the answer of the server.
LEMMA AiEnterServes == ASSUME AiInv, AiServed, NEW t \in AiTasks, AiEnter(t) \/ AiServe(t) PROVE AiServed'
<1>1. AiTypes /\ aiTask[t] \in AiCallRecords /\ aiTask[t].obj \in AiObjects BY DEF AiInv, AiTypes, AiCallRecords
<1>2. UNCHANGED <<aiItem, aiFolder, aiInfo, aiCalls, aiOthers>> BY DEF AiEnter, AiServe
<1>3. aiItem[AiItemOf(aiTask[t].obj)] \in AiAnswers(aiTask[t].obj) /\ aiInfo[aiTask[t].obj] \in AiAnswers(aiTask[t].obj)
  BY <1>1, AiAnswersItem DEF AiServed
<1>4. PICK raw \in AiAnswers(aiTask[t].obj), at \in {"request", "reply"} :
        aiTask' = [aiTask EXCEPT ![t] = [aiTask[t] EXCEPT !.raw = raw, !.at = at]]
  <2>1. CASE AiEnter(t)
    <3>1. aiTask' = [aiTask EXCEPT ![t] = [aiTask[t] EXCEPT !.raw = aiInfo[aiTask[t].obj],
                        !.at = IF aiInfo[aiTask[t].obj] = "none" THEN "request" ELSE "reply"]]
      BY <1>1, <2>1 DEF AiEnter, AiObj, AiTypes
    <3> QED BY <1>3, <3>1
  <2>2. CASE AiServe(t)
    <3>1. aiTask' = [aiTask EXCEPT ![t] = [aiTask[t] EXCEPT !.raw = aiItem[AiItemOf(aiTask[t].obj)], !.at = "reply"]]
      BY <1>1, <2>2 DEF AiServe, AiObj, AiTypes
    <3> QED BY <1>3, <3>1
  <2> QED BY <2>1, <2>2
<1> DEFINE call == [aiTask[t] EXCEPT !.raw = raw, !.at = at]
<1>5. call.raw = raw /\ call.obj = aiTask[t].obj BY <1>1 DEF AiCallRecords
<1> HIDE DEF call
<1>6. aiTask' = [aiTask EXCEPT ![t] = call] BY <1>4 DEF call
<1>7. \A u \in AiTasks : aiTask'[u] = IF u = t THEN call ELSE aiTask[u] BY <1>1, <1>6 DEF AiTypes
<1>8. \A u \in AiTasks : aiTask'[u].raw \in AiAnswers(aiTask'[u].obj) BY <1>5, <1>7 DEF AiServed
<1> QED BY <1>2, <1>8 DEF AiServed

\* The answer is remembered for the path.
LEMMA AiStoreServes == ASSUME AiInv, AiServed, NEW t \in AiTasks, AiStore(t) PROVE AiServed'
<1>1. AiTypes /\ aiTask[t].obj \in AiObjects BY DEF AiInv, AiTypes, AiCallRecords
<1> DEFINE o == aiTask[t].obj
           raw == aiTask[t].raw
           asksKind == aiTask[t].op = "is_file" \/ (aiTask[t].op = "move" /\ aiFolder[o] = "unknown")
<1>2. /\ aiInfo' = [aiInfo EXCEPT ![o] = IF raw = "absent" THEN @ ELSE raw]
      /\ aiFolder' = [aiFolder EXCEPT ![o] = IF asksKind /\ raw # "absent" THEN AiFlag(raw) ELSE @]
      /\ \E place : AiGo(t, place)
      /\ UNCHANGED <<aiItem, aiCalls, aiOthers>>
  BY DEF AiStore, AiObj
<1>3. AiFlag(raw) \in AiFlags BY DEF AiFlag, AiFlags
<1>4. aiFolder' \in [AiObjects -> AiFlags] BY <1>2, <1>3 DEF AiServed
<1>5. \A p \in AiObjects : aiInfo'[p] = aiInfo[p] \/ (p = o /\ aiInfo'[p] = raw) BY <1>1, <1>2 DEF AiTypes
<1>6. \A p \in AiObjects : aiInfo'[p] \in AiAnswers(p) BY <1>5 DEF AiServed
<1>7. \A u \in AiTasks : aiTask'[u].raw \in AiAnswers(aiTask'[u].obj) BY <1>1, <1>2, AiGoServes DEF AiServed
<1> QED BY <1>2, <1>4, <1>6, <1>7 DEF AiServed

\* A listing remembers what it says of the file.
LEMMA AiIterdirServes == ASSUME AiInv, AiServed, NEW t \in AiTasks, AiIterdir(t) PROVE AiServed'
<1>1. /\ AiGo(t, "idle")
      /\ \/ UNCHANGED <<aiFolder, aiInfo>>
         \/ /\ aiInfo' = [aiInfo EXCEPT !["child"] = "none"]
            /\ aiFolder' = [aiFolder EXCEPT !["child"] = "file"]
      /\ UNCHANGED <<aiItem, aiCalls, aiOthers>>
  BY DEF AiIterdir, AiCleared
<1>2. AiTypes BY DEF AiInv
<1>3. aiFolder' \in [AiObjects -> AiFlags] BY <1>1 DEF AiServed, AiFlags
<1>4. \A p \in AiObjects : aiInfo'[p] \in AiAnswers(p) BY <1>1, <1>2 DEF AiServed, AiTypes, AiAnswers
<1>5. \A u \in AiTasks : aiTask'[u].raw \in AiAnswers(aiTask'[u].obj) BY <1>1, <1>2, AiGoServes DEF AiServed
<1> QED BY <1>1, <1>3, <1>4, <1>5 DEF AiServed

\* The other steps of a task leave what its object remembers alone.
LEMMA AiOthersServe ==
    ASSUME AiInv, AiServed, NEW t \in AiTasks,
           AiKind(t) \/ AiAnswered(t) \/ AiChange(t) \/ AiCopy(t) \/ AiRemove(t)
    PROVE  AiServed'
<1>1. AiTypes BY DEF AiInv
<1>2. \E place : AiGo(t, place) BY DEF AiKind, AiAnswered, AiChange, AiCopy, AiRemove
<1>3. UNCHANGED <<aiFolder, aiInfo, aiCalls, aiOthers>> BY DEF AiKind, AiAnswered, AiChange, AiCopy, AiRemove
<1>4. aiItem' \in AiItems
  <2>1. aiItem' \in {aiItem, [aiItem EXCEPT !.file = "A"], [aiItem EXCEPT !.file = "B"], [aiItem EXCEPT !.file = "absent"],
                     [folder |-> "absent", file |-> "absent"]}
    BY DEF AiKind, AiAnswered, AiChange, AiCopy, AiRemove, AiSource
  <2> QED BY <2>1 DEF AiServed, AiItems
<1>5. \A u \in AiTasks : aiTask'[u].raw \in AiAnswers(aiTask'[u].obj) BY <1>1, <1>2, AiGoServes DEF AiServed
<1> QED BY <1>3, <1>4, <1>5 DEF AiServed

\* Whatever the calls and other clients do.
LEMMA AiServedKept == AiInv /\ AiServed /\ [AiNext]_aiVars => AiServed'
<1> SUFFICES ASSUME AiInv, AiServed, [AiNext]_aiVars PROVE AiServed'
  OBVIOUS
<1>1. CASE AiDone \/ UNCHANGED aiVars BY <1>1 DEF AiDone, aiVars, AiServed
<1>2. CASE AiOther
  <2>1. /\ aiOthers < AiMaxOthers /\ aiOthers' = aiOthers + 1 /\ UNCHANGED <<aiFolder, aiInfo, aiTask, aiCalls>>
        /\ \E value \in {"absent", "A", "B"} : aiItem' = [folder |-> "dir", file |-> value]
    BY <1>2 DEF AiOther, AiValues
  <2>2. aiItem' \in AiItems BY <2>1 DEF AiItems
  <2>3. aiOthers' \in 0..AiMaxOthers BY <2>1, AiAssumption DEF AiServed
  <2> QED BY <2>1, <2>2, <2>3 DEF AiServed
<1> QED BY <1>1, <1>2, AiCallServes, AiEnterServes, AiStoreServes, AiIterdirServes, AiOthersServe DEF AiNext

\* Nothing is remembered at first.
LEMMA AiServedBegins == AiInit => AiServed
<1> SUFFICES ASSUME AiInit PROVE AiServed
  OBVIOUS
<1>1. aiItem \in AiItems /\ aiFolder \in [AiObjects -> AiFlags] BY DEF AiInit, AiItems, AiFlags
<1>2. \A o : "none" \in AiAnswers(o) BY DEF AiAnswers
<1>3. AiIdle.raw = "none" BY DEF AiIdle
<1>4. \A t \in AiTasks : aiTask[t] = AiIdle BY DEF AiInit
<1> QED BY <1>1, <1>2, <1>3, <1>4, AiAssumption DEF AiInit, AiServed

\* So the variables have their types.
LEMMA AiTypeFollows == AiServed => AiTypeOK
<1> SUFFICES ASSUME AiServed PROVE AiTypeOK
  OBVIOUS
<1>1. aiItem["folder"] \in {"absent", "dir"} /\ aiItem["file"] \in {"absent", "A", "B"} BY DEF AiServed, AiItems
<1>2. /\ AiValues["folder"] = {"absent", "dir"} /\ AiValues["file"] = {"absent", "A", "B"}
      /\ DOMAIN AiValues = {"folder", "file"}
  BY DEF AiValues
<1>3. \A item \in DOMAIN AiValues : aiItem[item] \in AiValues[item] BY <1>1, <1>2
<1> QED BY <1>3 DEF AiServed, AiTypeOK, AiFlags, AiAnswers

-----------------------------------------------------------------------------
\* The classes a thread has seen among the items are still there, so that the
\* answer it finds is one.
PmAnswered ==
    /\ \A t \in PmThreads : /\ pmThread[t].answer \in PmAnswers
                            /\ \A p \in pmThread[t].seen : pmClass[p] # "none"
    /\ pmCalls \in [PmThreads -> 0..PmMaxCalls]

\* A class that is entered stays entered.
LEMMA PmEnteredStays == PmInv /\ [PmNext]_pmVars => \A p \in PmBuiltin : pmClass[p] # "none" => pmClass'[p] # "none"
<1> SUFFICES ASSUME PmInv, [PmNext]_pmVars, NEW p \in PmBuiltin, pmClass[p] # "none" PROVE pmClass'[p] # "none"
  OBVIOUS
<1>1. PmTypes BY DEF PmInv
<1>2. CASE pmClass' = pmClass BY <1>2
<1>3. ASSUME NEW t \in PmThreads, PmImported(t) PROVE pmClass'[p] # "none"
  BY <1>1, <1>3 DEF PmImported, PmSetDefault, PmTypes
<1>4. ASSUME NEW t \in PmThreads, PmAssign(t) PROVE pmClass'[p] # "none"
  BY <1>1, <1>4 DEF PmAssign, PmTypes
<1>5. pmClass' = pmClass \/ \E t \in PmThreads : PmImported(t) \/ PmAssign(t)
  BY DEF PmNext, pmVars, PmDone, PmLookup, PmMissed, PmImportFails, PmRegister, PmUrl, PmEnsure, PmItems, PmMatched
<1> QED BY <1>2, <1>3, <1>4, <1>5

\* Thread t goes on as `call`: the other threads' answers, and what they have
\* seen, stay.
PmGoes(t, call) ==
    /\ pmThread'[t] = call
    /\ \A u \in PmThreads \ {t} : /\ pmThread'[u].answer = pmThread[u].answer
                                  /\ pmThread'[u].seen = pmThread[u].seen

\* So it is when only its own call changes, and when it takes a protocol.
LEMMA PmStepGoes ==
    ASSUME PmTypes, NEW t \in PmThreads, NEW call,
           pmThread' = [pmThread EXCEPT ![t] = call] \/ \E p \in PmBuiltin : PmTakes(t, p, call)
    PROVE  PmGoes(t, call)
<1>1. CASE pmThread' = [pmThread EXCEPT ![t] = call] BY <1>1 DEF PmTypes, PmGoes
<1>2. ASSUME NEW p \in PmBuiltin, PmTakes(t, p, call) PROVE PmGoes(t, call)
  <2> DEFINE alone(u) == pmThread[u].alone /\ ~(pmThread[u].op = "missed" /\ pmThread[u].proto = p)
             other(u) == [pmThread[u] EXCEPT !.alone = @ /\ ~(pmThread[u].op = "missed" /\ pmThread[u].proto = p)]
  <2>1. pmThread' = [u \in PmThreads |-> IF u = t THEN call ELSE other(u)] BY <1>2 DEF PmTakes
  <2>2. ASSUME NEW u \in PmThreads PROVE other(u).answer = pmThread[u].answer /\ other(u).seen = pmThread[u].seen
    <3>1. pmThread[u] \in PmThreadRecords BY DEF PmTypes
    <3>2. other(u) = [pmThread[u] EXCEPT !.alone = alone(u)] BY <3>1 DEF PmThreadRecords
    <3> HIDE DEF alone, other
    <3> QED BY <3>1, <3>2 DEF PmThreadRecords
  <2> HIDE DEF other
  <2> QED BY <2>1, <2>2 DEF PmGoes
<1> QED BY <1>1, <1>2

\* What a step of a thread must keep of it.
LEMMA PmAnsweredStays ==
    ASSUME PmTypes, PmAnswered, NEW t \in PmThreads, NEW call, PmGoes(t, call),
           call.answer \in PmAnswers,
           call.seen = pmThread[t].seen \/ \A p \in call.seen : pmClass'[p] # "none",
           \A p \in PmBuiltin : pmClass[p] # "none" => pmClass'[p] # "none",
           pmCalls' = pmCalls \/ PmBegin(t)
    PROVE  PmAnswered'
<1>1. \A u \in PmThreads : pmThread[u].seen \subseteq PmBuiltin BY DEF PmTypes, PmThreadRecords
<1>2. ASSUME NEW u \in PmThreads
      PROVE  pmThread'[u].answer \in PmAnswers /\ \A p \in pmThread'[u].seen : pmClass'[p] # "none"
  <2>1. CASE u = t BY <1>1, <2>1 DEF PmAnswered, PmGoes
  <2>2. CASE u # t BY <1>1, <2>2 DEF PmAnswered, PmGoes
  <2> QED BY <2>1, <2>2
<1>3. pmCalls' \in [PmThreads -> 0..PmMaxCalls]
  <2>1. PmBegin(t) => pmCalls[t] + 1 \in 0..PmMaxCalls BY PmAssumption DEF PmBegin, PmAnswered
  <2> QED BY <2>1 DEF PmBegin, PmAnswered
<1> QED BY <1>2, <1>3 DEF PmAnswered

\* A call that begins has answered nothing, or what the map says.
LEMMA PmBeginAnswers ==
    ASSUME PmInv, PmAnswered, NEW t \in PmThreads,
           PmUrl(t) \/ \E p \in PmBuiltin : PmLookup(t, p) \/ PmRegister(t, p),
           \A p \in PmBuiltin : pmClass[p] # "none" => pmClass'[p] # "none"
    PROVE  PmAnswered'
<1>1. PmTypes /\ PmBegin(t) BY DEF PmInv, PmUrl, PmLookup, PmRegister
<1>2. PmIdle.seen = {} /\ PmIdle.answer = "" BY DEF PmIdle
<1>3. PICK call : PmGoes(t, call) /\ call.answer \in PmAnswers /\ call.seen = {}
  <2>1. CASE PmUrl(t)
    <3> DEFINE call == [PmIdle EXCEPT !.op = "ensure", !.url = TRUE, !.todo = pmPending]
    <3>1. pmThread' = [pmThread EXCEPT ![t] = call] BY <2>1 DEF PmUrl
    <3>2. call.answer = "" /\ call.seen = {} BY DEF PmIdle
    <3> HIDE DEF call
    <3> QED BY <1>1, <3>1, <3>2, PmStepGoes DEF PmAnswers
  <2>2. ASSUME NEW p \in PmBuiltin, PmLookup(t, p)
        PROVE  \E call : PmGoes(t, call) /\ call.answer \in PmAnswers /\ call.seen = {}
    <3> DEFINE alone == ~PmBusy(t, p)
               found == [PmIdle EXCEPT !.op = "done", !.proto = p, !.answer = pmClass[p]]
               miss == [PmIdle EXCEPT !.op = "missed", !.proto = p, !.alone = alone]
               call == IF pmClass[p] # "none" THEN found ELSE miss
    <3>1. pmThread' = [pmThread EXCEPT ![t] = call] BY <2>2 DEF PmLookup
    <3>2. pmClass[p] # "none" => pmClass[p] \in PmAnswers BY <1>1 DEF PmTypes, PmAnswers
    <3> HIDE DEF alone
    <3>3. found.answer = pmClass[p] /\ found.seen = {} /\ miss.answer = "" /\ miss.seen = {} BY DEF PmIdle
    <3> HIDE DEF found, miss
    <3>4. call.answer \in PmAnswers /\ call.seen = {} BY <3>2, <3>3 DEF PmAnswers
    <3> HIDE DEF call
    <3> QED BY <1>1, <3>1, <3>4, PmStepGoes
  <2>3. ASSUME NEW p \in PmBuiltin, PmRegister(t, p)
        PROVE  \E call : PmGoes(t, call) /\ call.answer \in PmAnswers /\ call.seen = {}
    <3> DEFINE call == [PmIdle EXCEPT !.op = "assign", !.proto = p]
    <3>1. PmTakes(t, p, call) BY <2>3 DEF PmRegister
    <3>2. call.answer = "" /\ call.seen = {} BY DEF PmIdle
    <3> HIDE DEF call
    <3> QED BY <1>1, <3>1, <3>2, PmStepGoes DEF PmAnswers
  <2> QED BY <2>1, <2>2, <2>3
<1> QED BY <1>1, <1>3, PmAnsweredStays

\* What a load leaves of a call: its answer, or a new one.
LEMMA PmLoadedAnswers ==
    ASSUME PmTypes, NEW t \in PmThreads, NEW answer
    PROVE  /\ PmLoaded(t, answer).answer \in {pmThread[t].answer, answer}
           /\ PmLoaded(t, answer).seen = pmThread[t].seen
<1> DEFINE old == pmThread[t]
           ensure == [old EXCEPT !.op = "ensure"]
           done == [old EXCEPT !.op = "done", !.answer = answer]
<1>1. old \in PmThreadRecords BY DEF PmTypes
<1>2. PmLoaded(t, answer) = IF old.url THEN ensure ELSE done BY DEF PmLoaded
<1> HIDE DEF old
<1>3. ensure.answer = old.answer /\ ensure.seen = old.seen /\ done.answer = answer /\ done.seen = old.seen
  BY <1>1 DEF PmThreadRecords
<1> HIDE DEF ensure, done
<1>4. /\ PmLoaded(t, answer).answer \in {old.answer, answer}
      /\ PmLoaded(t, answer).seen = old.seen
  BY <1>2, <1>3
<1> QED BY <1>4 DEF old

\* A call whose protocol is popped, or loaded, answers with a class or an error.
LEMMA PmLoadAnswers ==
    ASSUME PmInv, PmAnswered, NEW t \in PmThreads, PmMissed(t) \/ PmImported(t) \/ PmImportFails(t),
           \A p \in PmBuiltin : pmClass[p] # "none" => pmClass'[p] # "none"
    PROVE  PmAnswered'
<1> DEFINE old == pmThread[t]
<1>1. PmTypes /\ old \in PmThreadRecords /\ old.answer \in PmAnswers BY DEF PmInv, PmTypes, PmAnswered
<1>2. pmCalls' = pmCalls BY DEF PmMissed, PmImported, PmImportFails
<1>3. old.proto \in PmBuiltin BY <1>1 DEF PmThreadRecords
<1>4. ASSUME NEW answer \in PmAnswers, pmThread' = [pmThread EXCEPT ![t] = PmLoaded(t, answer)] PROVE PmAnswered'
  <2>1. PmGoes(t, PmLoaded(t, answer)) BY <1>1, <1>4, PmStepGoes
  <2>2. /\ PmLoaded(t, answer).answer \in PmAnswers
        /\ PmLoaded(t, answer).seen = pmThread[t].seen
    BY <1>1, PmLoadedAnswers
  <2> QED BY <1>1, <1>2, <2>1, <2>2, PmAnsweredStays
<1>5. ASSUME NEW call, pmThread' = [pmThread EXCEPT ![t] = call] \/ \E p \in PmBuiltin : PmTakes(t, p, call),
             call.answer \in PmAnswers, call.seen = pmThread[t].seen
      PROVE  PmAnswered'
  <2>1. PmGoes(t, call) BY <1>1, <1>5, PmStepGoes
  <2> QED BY <1>1, <1>2, <1>5, <2>1, PmAnsweredStays
<1>6. CASE PmMissed(t)
  <2> DEFINE call == [old EXCEPT !.op = "import"]
  <2>1. PmTakes(t, old.proto, call) \/ pmThread' = [pmThread EXCEPT ![t] = PmLoaded(t, "unsupported")]
    BY <1>6 DEF PmMissed
  <2> HIDE DEF old
  <2>2. call.answer = old.answer /\ call.seen = old.seen BY <1>1 DEF PmThreadRecords
  <2> HIDE DEF call
  <2>3. call.answer \in PmAnswers /\ call.seen = pmThread[t].seen BY <1>1, <2>2 DEF old
  <2>4. "unsupported" \in PmAnswers BY DEF PmAnswers
  <2> QED BY <1>3, <1>4, <1>5, <2>1, <2>3, <2>4
<1>7. CASE PmImported(t)
  <2> DEFINE answer == pmClass'[old.proto]
  <2>1. pmThread' = [pmThread EXCEPT ![t] = PmLoaded(t, answer)] BY <1>7 DEF PmImported
  <2>2. answer \in PmAnswers BY <1>1, <1>3, <1>7 DEF PmTypes, PmImported, PmSetDefault, PmAnswers
  <2> HIDE DEF answer
  <2> QED BY <1>4, <2>1, <2>2
<1>8. CASE PmImportFails(t)
  <2> DEFINE call == [old EXCEPT !.op = "done", !.answer = "raised"]
  <2>1. \/ pmThread' = [pmThread EXCEPT ![t] = PmLoaded(t, "unsupported")]
        \/ pmThread' = [pmThread EXCEPT ![t].op = "done", ![t].answer = "raised"]
    BY <1>8 DEF PmImportFails
  <2>2. pmThread' = [pmThread EXCEPT ![t].op = "done", ![t].answer = "raised"] => pmThread' = [pmThread EXCEPT ![t] = call]
    BY <1>1 DEF PmTypes, PmThreadRecords
  <2> HIDE DEF old
  <2>3. call.answer = "raised" /\ call.seen = old.seen BY <1>1 DEF PmThreadRecords
  <2> HIDE DEF call
  <2>4. call.answer \in PmAnswers /\ call.seen = pmThread[t].seen BY <2>3 DEF old, PmAnswers
  <2>5. "unsupported" \in PmAnswers BY DEF PmAnswers
  <2> QED BY <1>4, <1>5, <2>1, <2>2, <2>4, <2>5
<1> QED BY <1>6, <1>7, <1>8

\* A call that goes on otherwise answers with a class that is there.
LEMMA PmGoesAnswering ==
    ASSUME PmInv, PmAnswered, NEW t \in PmThreads, PmEnsure(t) \/ PmItems(t) \/ PmMatched(t) \/ PmAssign(t),
           \A p \in PmBuiltin : pmClass[p] # "none" => pmClass'[p] # "none"
    PROVE  PmAnswered'
<1> DEFINE old == pmThread[t]
<1>1. PmTypes /\ old \in PmThreadRecords /\ old.answer \in PmAnswers BY DEF PmInv, PmTypes, PmAnswered
<1>2. pmCalls' = pmCalls BY DEF PmEnsure, PmItems, PmMatched, PmAssign
<1> DEFINE Good(call) == /\ PmGoes(t, call) /\ call.answer \in PmAnswers
                         /\ call.seen = old.seen \/ \A p \in call.seen : pmClass'[p] # "none"
<1>3. CASE PmEnsure(t)
  <2>1. PICK p \in old.todo :
          PmTakes(t, p, [old EXCEPT !.todo = @ \ {p}, !.proto = p, !.op = IF p \in pmPending THEN "import" ELSE "ensure"])
    BY <1>3 DEF PmEnsure
  <2> DEFINE op == IF p \in pmPending THEN "import" ELSE "ensure"
             todo == old.todo \ {p}
             call == [old EXCEPT !.todo = todo, !.proto = p, !.op = op]
  <2>2. p \in PmBuiltin BY <1>1 DEF PmThreadRecords
  <2> HIDE DEF old
  <2>3. PmTakes(t, p, call)
    <3>1. call = [old EXCEPT !.todo = @ \ {p}, !.proto = p, !.op = IF p \in pmPending THEN "import" ELSE "ensure"]
      BY <1>1 DEF PmThreadRecords
    <3> HIDE DEF call
    <3> QED BY <2>1, <3>1 DEF old
  <2> HIDE DEF op, todo
  <2>4. call.answer = old.answer /\ call.seen = old.seen BY <1>1 DEF PmThreadRecords
  <2> HIDE DEF call
  <2>5. PmGoes(t, call) BY <1>1, <2>2, <2>3, PmStepGoes
  <2>6. Good(call) BY <1>1, <2>4, <2>5 DEF old
  <2> QED BY <1>1, <1>2, <2>6, PmAnsweredStays DEF old
<1>4. CASE PmItems(t)
  <2> DEFINE seen == PmKeys
             call == [old EXCEPT !.op = "items", !.seen = seen]
  <2>1. pmThread' = [pmThread EXCEPT ![t] = call] /\ pmClass' = pmClass
    BY <1>1, <1>4 DEF PmItems, PmTypes, PmThreadRecords
  <2>2. \A p \in seen : pmClass'[p] # "none" BY <2>1 DEF PmKeys
  <2> HIDE DEF seen, old
  <2>3. call.answer = old.answer /\ call.seen = seen BY <1>1 DEF PmThreadRecords
  <2> HIDE DEF call
  <2>4. PmGoes(t, call) BY <1>1, <2>1, PmStepGoes
  <2>5. Good(call) BY <1>1, <2>2, <2>3, <2>4 DEF old
  <2> QED BY <1>1, <1>2, <2>5, PmAnsweredStays DEF old
<1>5. CASE PmMatched(t)
  <2>1. PICK answer \in (IF PmMatch \in old.seen THEN {pmClass[PmMatch]} ELSE {"http"})
                          \cup (IF PmKeys # old.seen THEN {"raised"} ELSE {}) :
          pmThread' = [pmThread EXCEPT ![t].op = "done", ![t].answer = answer]
    BY <1>5 DEF PmMatched
  <2>2. PmMatch \in old.seen => pmClass[PmMatch] # "none" BY DEF PmAnswered
  <2>3. answer \in PmAnswers BY <1>1, <2>1, <2>2, PmAssumption DEF PmTypes, PmAnswers
  <2> DEFINE call == [old EXCEPT !.op = "done", !.answer = answer]
  <2>4. pmThread' = [pmThread EXCEPT ![t] = call] BY <1>1, <2>1 DEF PmTypes, PmThreadRecords
  <2> HIDE DEF old
  <2>5. call.answer = answer /\ call.seen = old.seen BY <1>1 DEF PmThreadRecords
  <2> HIDE DEF call
  <2>6. PmGoes(t, call) BY <1>1, <2>4, PmStepGoes
  <2>7. Good(call) BY <2>3, <2>5, <2>6
  <2> QED BY <1>1, <1>2, <2>7, PmAnsweredStays DEF old
<1>6. CASE PmAssign(t)
  <2> DEFINE call == [old EXCEPT !.op = "done"]
  <2>1. pmThread' = [pmThread EXCEPT ![t] = call] BY <1>1, <1>6 DEF PmAssign, PmTypes, PmThreadRecords
  <2> HIDE DEF old
  <2>2. call.answer = old.answer /\ call.seen = old.seen BY <1>1 DEF PmThreadRecords
  <2> HIDE DEF call
  <2>3. PmGoes(t, call) BY <1>1, <2>1, PmStepGoes
  <2>4. Good(call) BY <1>1, <2>2, <2>3
  <2> QED BY <1>1, <1>2, <2>4, PmAnsweredStays DEF old
<1> QED BY <1>3, <1>4, <1>5, <1>6

\* Whatever the threads do.
LEMMA PmAnsweredKept == PmInv /\ PmAnswered /\ [PmNext]_pmVars => PmAnswered'
<1> SUFFICES ASSUME PmInv, PmAnswered, [PmNext]_pmVars PROVE PmAnswered'
  OBVIOUS
<1>1. CASE PmDone \/ UNCHANGED pmVars BY <1>1 DEF PmDone, pmVars, PmAnswered
<1>2. \A p \in PmBuiltin : pmClass[p] # "none" => pmClass'[p] # "none" BY PmEnteredStays
<1> QED BY <1>1, <1>2, PmBeginAnswers, PmLoadAnswers, PmGoesAnswering DEF PmNext

\* No thread has begun.
LEMMA PmAnsweredBegins == PmInit => PmAnswered
<1> SUFFICES ASSUME PmInit PROVE PmAnswered
  OBVIOUS
<1>1. PmIdle.answer = "" /\ PmIdle.seen = {} BY DEF PmIdle
<1>2. \A t \in PmThreads : pmThread[t] = PmIdle BY DEF PmInit
<1> HIDE DEF PmIdle
<1>3. pmCalls \in [PmThreads -> 0..PmMaxCalls] BY PmAssumption DEF PmInit
<1>4. "" \in PmAnswers BY DEF PmAnswers
<1> QED BY <1>1, <1>2, <1>3, <1>4 DEF PmAnswered

\* So the variables have their types.
LEMMA PmTypeFollows == PmInv /\ PmAnswered => PmTypeOK
BY DEF PmInv, PmTypes, PmThreadRecords, PmOps, PmAnswered, PmTypeOK

-----------------------------------------------------------------------------
\* The threads that may still make a loop.
SrToMake == {t \in SrThreads : srPc[t] \in {"idle", "get", "locked", "start", "new loop"}}

\* Each thread makes one loop at most, the last one made is the runner's, and
\* a thread runs and submits to loops that were made.
SrCounted ==
    /\ srLock \subseteq SrThreads /\ srLoops \in Nat /\ srLoop = srLoops
    /\ srLoops + Cardinality(SrToMake) <= Cardinality(SrThreads)
    /\ srKind \in [SrThreads -> SrKinds] /\ srLeft \in [SrThreads -> 0..SrItems]
    /\ srAt \in [SrThreads -> Nat] /\ srThread \in Nat /\ srThread <= srLoops
    /\ srBegun \in BOOLEAN /\ (srBegun => srThread \in srRuns)
    /\ \A t \in SrThreads : /\ srAt[t] <= srLoops
                            /\ srPc[t] = "new thread" => srLoops # 0
                            /\ srPc[t] = "run thread" => srThread # 0
    /\ srRuns \subseteq 1..srLoops /\ srBlocked \subseteq srRuns

\* Going on does not let more threads make loops.
LEMMA SrToMakeShrinks ==
    ASSUME SrInv, NEW t \in SrThreads, NEW place, srPc' = [srPc EXCEPT ![t] = place],
           place \in {"idle", "get", "locked", "start", "new loop"} => t \in SrToMake
    PROVE  /\ Cardinality(SrToMake') <= Cardinality(SrToMake)
           /\ Cardinality(SrToMake') \in Nat /\ Cardinality(SrToMake) \in Nat /\ Cardinality(SrThreads) \in Nat
<1>1. SrToMake' \subseteq SrToMake BY DEF SrInv, SrToMake
<1>2. IsFiniteSet(SrToMake) BY SrAssumption, FS_Subset DEF SrToMake
<1> QED BY <1>1, <1>2, SrAssumption, FS_Subset, FS_CardinalityType

\* A step that makes no loop.
LEMMA SrCountedStays ==
    ASSUME SrInv, SrCounted, NEW t \in SrThreads, NEW place, srPc' = [srPc EXCEPT ![t] = place],
           place \in {"idle", "get", "locked", "start", "new loop"} => t \in SrToMake, place # "new thread",
           UNCHANGED <<srLoops, srLoop>>, srLock' \subseteq SrThreads,
           srKind' \in [SrThreads -> SrKinds], srLeft' \in [SrThreads -> 0..SrItems],
           srAt' \in {srAt, [srAt EXCEPT ![t] = srLoop]}, srThread' \in {srThread, srLoop},
           place = "run thread" => srThread' # 0, srBegun' \in BOOLEAN, srBegun' => srThread' \in srRuns',
           srRuns' \subseteq 1..srLoops, srBlocked' = srBlocked, srRuns \subseteq srRuns'
    PROVE  SrCounted'
<1>1. srLoops' + Cardinality(SrToMake') <= Cardinality(SrThreads)
  <2>1. srLoops' = srLoops /\ srLoops \in Nat /\ srLoops + Cardinality(SrToMake) <= Cardinality(SrThreads) BY DEF SrCounted
  <2>2. /\ Cardinality(SrToMake') <= Cardinality(SrToMake)
        /\ Cardinality(SrToMake') \in Nat /\ Cardinality(SrToMake) \in Nat /\ Cardinality(SrThreads) \in Nat
    BY SrToMakeShrinks
  <2> QED BY ONLY <2>1, <2>2
<1>2. srAt' \in [SrThreads -> Nat] BY DEF SrCounted
<1>3. srThread' \in Nat /\ srThread' <= srLoops' /\ (srThread # 0 => srThread' # 0)
  <2>1. srThread' \in {srThread, srLoops} /\ srThread \in Nat /\ srThread <= srLoops /\ srLoops' = srLoops /\ srLoops \in Nat
    BY DEF SrCounted
  <2> QED BY ONLY <2>1
<1>4. ASSUME NEW u \in SrThreads
      PROVE  /\ srAt'[u] <= srLoops'
             /\ srPc'[u] = "new thread" => srLoops' # 0
             /\ srPc'[u] = "run thread" => srThread' # 0
  <2>1. srAt'[u] \in {srAt[u], srLoops} BY DEF SrCounted
  <2>2. srAt[u] <= srLoops /\ srLoops' = srLoops /\ srLoops \in Nat BY DEF SrCounted
  <2>3. srAt'[u] <= srLoops' BY ONLY <2>1, <2>2
  <2>4. CASE u = t
    <3>1. srPc'[u] = place BY <2>4 DEF SrInv
    <3> QED BY <2>2, <2>3, <2>4, <3>1
  <2>5. CASE u # t
    <3>1. srPc'[u] = srPc[u] BY <2>5 DEF SrInv
    <3> QED BY <1>3, <2>2, <2>3, <3>1 DEF SrCounted
  <2> QED BY <2>4, <2>5
<1> QED BY <1>1, <1>2, <1>3, <1>4 DEF SrCounted

\* A thread calls the facade.
LEMMA SrGetattrCounts == ASSUME SrInv, SrCounted, NEW t \in SrThreads, SrGetattr(t) PROVE SrCounted'
<1>1. /\ srPc[t] = "idle" /\ UNCHANGED <<srLock, srLoops, srLoop, srRuns, srThread, srBegun, srAt, srBlocked>> BY DEF SrGetattr
<1>2. PICK kind \in SrKinds :
          /\ srKind' = [srKind EXCEPT ![t] = kind]
          /\ srLeft' = [srLeft EXCEPT ![t] = IF kind = "generator" THEN SrItems ELSE 0]
          /\ srPc' = [srPc EXCEPT ![t] = IF kind \notin SrBlocking THEN "done" ELSE IF srRunner THEN "start" ELSE "get"]
  BY DEF SrGetattr
<1> DEFINE place == IF kind \notin SrBlocking THEN "done" ELSE IF srRunner THEN "start" ELSE "get"
<1>3. place \in {"done", "start", "get"} OBVIOUS
<1> HIDE DEF place
<1>4. srPc' = [srPc EXCEPT ![t] = place] BY <1>2 DEF place
<1>5. t \in SrToMake BY <1>1 DEF SrToMake
<1>6. srKind' \in [SrThreads -> SrKinds] BY <1>2 DEF SrCounted
<1>7. srLeft' \in [SrThreads -> 0..SrItems]
  <2> DEFINE left == IF kind = "generator" THEN SrItems ELSE 0
  <2>1. left \in 0..SrItems BY SrAssumption
  <2> HIDE DEF left
  <2>2. srLeft' = [srLeft EXCEPT ![t] = left] BY <1>2 DEF left
  <2> QED BY <2>1, <2>2 DEF SrCounted
<1>8. /\ srLock' \subseteq SrThreads /\ srRuns' \subseteq 1..srLoops
      /\ srBegun' \in BOOLEAN /\ (srBegun' => srThread' \in srRuns')
  BY <1>1 DEF SrCounted
<1> QED BY <1>1, <1>3, <1>4, <1>5, <1>6, <1>7, <1>8, SrCountedStays

\* A thread makes its loop, and none after it.
LEMMA SrNewLoopCounts == ASSUME SrInv, SrCounted, NEW t \in SrThreads, SrNewLoop(t) PROVE SrCounted'
<1>1. /\ srPc[t] = "new loop" /\ srLoops' = srLoops + 1 /\ srLoop' = srLoops + 1
      /\ srPc' = [srPc EXCEPT ![t] = "new thread"]
      /\ UNCHANGED <<srLock, srRuns, srThread, srBegun, srKind, srAt, srLeft, srBlocked>>
  BY DEF SrNewLoop
<1>2. t \in SrToMake /\ SrToMake' = SrToMake \ {t} BY <1>1 DEF SrToMake, SrInv
<1>3. IsFiniteSet(SrToMake) BY SrAssumption, FS_Subset DEF SrToMake
<1>4. Cardinality(SrToMake') = Cardinality(SrToMake) - 1 /\ Cardinality(SrToMake) \in Nat /\ Cardinality(SrThreads) \in Nat
  BY <1>2, <1>3, SrAssumption, FS_RemoveElement, FS_CardinalityType
<1>5. srLoops \in Nat /\ srLoops + Cardinality(SrToMake) <= Cardinality(SrThreads) /\ srLoop' = srLoops' BY <1>1 DEF SrCounted
<1>11. srLoops' = srLoops + 1 BY <1>1
<1>9. srLoops' + Cardinality(SrToMake') <= Cardinality(SrThreads) /\ srLoops' \in Nat /\ srLoops' # 0
  BY ONLY <1>11, <1>4, <1>5
<1>6. ASSUME NEW u \in SrThreads PROVE srAt'[u] <= srLoops'
  <2>1. srAt[u] \in Nat /\ srAt[u] <= srLoops /\ srAt' = srAt BY <1>1 DEF SrCounted
  <2> QED BY ONLY <1>11, <1>5, <2>1
<1>12. srThread' \in Nat /\ srThread' <= srLoops'
  <2>1. srThread \in Nat /\ srThread <= srLoops /\ srThread' = srThread BY <1>1 DEF SrCounted
  <2> QED BY ONLY <1>11, <1>5, <2>1
<1>7. \A u \in SrThreads : srPc'[u] = "run thread" => srThread' # 0 BY <1>1 DEF SrCounted, SrInv
<1>8. srRuns' \subseteq 1..srLoops'
  <2>1. srRuns' = srRuns /\ srRuns \subseteq 1..srLoops BY <1>1 DEF SrCounted
  <2>2. 1..srLoops \subseteq 1..srLoops' BY ONLY <1>11, <1>5
  <2> QED BY ONLY <2>1, <2>2
<1>10. /\ srLock' \subseteq SrThreads /\ srKind' \in [SrThreads -> SrKinds] /\ srLeft' \in [SrThreads -> 0..SrItems]
       /\ srAt' \in [SrThreads -> Nat] /\ srBlocked' \subseteq srRuns'
       /\ srBegun' \in BOOLEAN /\ (srBegun' => srThread' \in srRuns')
  BY <1>1 DEF SrCounted
<1> QED BY <1>5, <1>6, <1>7, <1>8, <1>9, <1>10, <1>12 DEF SrCounted

\* A call is answered, or one item of a generator.
LEMMA SrAnswerCounts == ASSUME SrInv, SrCounted, NEW t \in SrThreads, SrAnswer(t) PROVE SrCounted'
<1>1. UNCHANGED <<srLock, srLoops, srLoop, srRuns, srThread, srBegun, srKind, srAt, srBlocked>> BY DEF SrAnswer
<1>2. PICK place \in {"submit", "done"} : srPc' = [srPc EXCEPT ![t] = place] BY DEF SrAnswer
<1>3. srLeft' \in [SrThreads -> 0..SrItems]
  <2> DEFINE left == IF srLeft[t] > 0 THEN srLeft[t] - 1 ELSE 0
  <2>1. srLeft' = [srLeft EXCEPT ![t] = left] BY DEF SrAnswer
  <2>2. srLeft[t] \in 0..SrItems BY DEF SrCounted
  <2>3. left \in 0..SrItems BY <2>2, SrAssumption
  <2> HIDE DEF left
  <2> QED BY <2>1, <2>3 DEF SrCounted
<1>4. /\ srLock' \subseteq SrThreads /\ srRuns' \subseteq 1..srLoops /\ srKind' \in [SrThreads -> SrKinds]
      /\ srBegun' \in BOOLEAN /\ (srBegun' => srThread' \in srRuns')
  BY <1>1 DEF SrCounted
<1> QED BY <1>1, <1>2, <1>3, <1>4, SrCountedStays

\* The other steps of a thread keep what it called and what is left of it.
LEMMA SrOthersCount ==
    ASSUME SrInv, SrCounted, NEW t \in SrThreads,
           SrAcquire(t) \/ SrMake(t) \/ SrStart(t) \/ SrNewThread(t) \/ SrRunThread(t) \/ SrSubmit(t)
    PROVE  SrCounted'
<1>1. UNCHANGED <<srLoops, srLoop, srKind, srLeft, srBlocked>>
  BY DEF SrAcquire, SrMake, SrStart, SrNewThread, SrRunThread, SrSubmit
<1>2. srKind' \in [SrThreads -> SrKinds] /\ srLeft' \in [SrThreads -> 0..SrItems] BY <1>1 DEF SrCounted
<1>3. srLock' \subseteq SrThreads BY DEF SrAcquire, SrMake, SrStart, SrNewThread, SrRunThread, SrSubmit, SrCounted
<1>4. CASE SrRunThread(t)
  <2>1. /\ srPc[t] = "run thread" /\ srRuns' = (IF srBegun THEN srRuns ELSE srRuns \cup {srThread})
        /\ srBegun' = TRUE /\ UNCHANGED <<srAt, srThread>>
    BY <1>4 DEF SrRunThread, SrStarted
  <2>2. PICK place \in {"submit", "done"} : srPc' = [srPc EXCEPT ![t] = place] BY <1>4 DEF SrRunThread
  <2>3. srThread \in Nat /\ srThread <= srLoops /\ srThread # 0 /\ srLoops \in Nat BY <2>1 DEF SrCounted
  <2>4. srThread \in 1..srLoops BY ONLY <2>3
  <2>5. srRuns \subseteq srRuns' /\ srRuns' \subseteq 1..srLoops /\ srThread' \in srRuns' /\ srBegun' \in BOOLEAN
    BY <2>1, <2>4 DEF SrCounted
  <2> QED BY <1>1, <1>2, <1>3, <2>1, <2>2, <2>5, SrCountedStays
<1>5. CASE ~SrRunThread(t)
  <2>1. srRuns' = srRuns BY <1>5 DEF SrAcquire, SrMake, SrStart, SrNewThread, SrSubmit
  <2>2. srRuns' \subseteq 1..srLoops BY <2>1 DEF SrCounted
  <2>3. CASE SrNewThread(t)
    <3>1. /\ srPc[t] = "new thread" /\ srThread' = srLoop /\ srBegun' = FALSE
          /\ srPc' = [srPc EXCEPT ![t] = "run thread"] /\ UNCHANGED srAt
      BY <2>3 DEF SrNewThread
    <3>2. srThread' # 0 BY <3>1 DEF SrCounted
    <3> QED BY <1>1, <1>2, <1>3, <2>1, <2>2, <3>1, <3>2, SrCountedStays
  <2>4. CASE ~SrNewThread(t)
    <3>1. UNCHANGED <<srThread, srBegun>> BY <1>5, <2>4 DEF SrAcquire, SrMake, SrStart, SrSubmit
    <3>2. srBegun' \in BOOLEAN /\ (srBegun' => srThread' \in srRuns') BY <2>1, <3>1 DEF SrCounted
    <3>3. CASE SrSubmit(t)
      <4>1. /\ srAt' = [srAt EXCEPT ![t] = srLoop]
            /\ srPc' = [srPc EXCEPT ![t] = "waiting"]
        BY <3>3 DEF SrSubmit
      <4> QED BY <1>1, <1>2, <1>3, <2>1, <2>2, <3>1, <3>2, <4>1, SrCountedStays
    <3>4. CASE SrAcquire(t) \/ SrMake(t) \/ SrStart(t)
      <4>1. UNCHANGED srAt /\ t \in SrToMake BY <3>4 DEF SrAcquire, SrMake, SrStart, SrToMake
      <4>2. PICK place \in {"locked", "start", "new loop", "submit"} : srPc' = [srPc EXCEPT ![t] = place]
        BY <3>4 DEF SrAcquire, SrMake, SrStart
      <4> QED BY <1>1, <1>2, <1>3, <2>1, <2>2, <3>1, <3>2, <4>1, <4>2, SrCountedStays
    <3> QED BY <1>5, <2>4, <3>3, <3>4
  <2> QED BY <2>3, <2>4
<1> QED BY <1>4, <1>5

\* Whatever the threads do.
LEMMA SrCountedKept == SrInv /\ SrCounted /\ [SrNext]_srVars => SrCounted'
<1> SUFFICES ASSUME SrInv, SrCounted, [SrNext]_srVars PROVE SrCounted'
  OBVIOUS
<1>1. CASE SrDone \/ UNCHANGED srVars
  <2>1. UNCHANGED <<srLock, srLoops, srLoop, srRuns, srThread, srBegun, srPc, srKind, srAt, srLeft, srBlocked>>
    BY <1>1 DEF SrDone, srVars
  <2>2. SrToMake' = SrToMake BY <2>1 DEF SrToMake
  <2> QED BY <2>1, <2>2 DEF SrCounted
<1>2. ASSUME NEW t \in SrThreads, SrCallback(t) PROVE SrCounted'
  <2>1. /\ srAt[t] \in srRuns /\ srBlocked' = srBlocked \cup {srAt[t]}
        /\ UNCHANGED <<srLock, srLoops, srLoop, srRuns, srThread, srBegun, srPc, srKind, srAt, srLeft>>
    BY <1>2 DEF SrCallback
  <2> QED BY <2>1 DEF SrCounted, SrToMake
<1> QED BY <1>1, <1>2, SrGetattrCounts, SrNewLoopCounts, SrAnswerCounts, SrOthersCount DEF SrNext, SrStep

\* No thread has called.
LEMMA SrCountedBegins == SrInit => SrCounted
<1> SUFFICES ASSUME SrInit PROVE SrCounted
  OBVIOUS
<1>1. SrToMake = SrThreads BY DEF SrInit, SrToMake
<1>2. Cardinality(SrThreads) \in Nat BY SrAssumption, FS_CardinalityType
<1>3. srLeft \in [SrThreads -> 0..SrItems] BY SrAssumption DEF SrInit
<1>4. srLoops = 0 /\ srThread = 0 /\ \A t \in SrThreads : srAt[t] = 0 BY DEF SrInit
<1>5. /\ srLoops \in Nat /\ srThread \in Nat /\ srThread <= srLoops /\ \A t \in SrThreads : srAt[t] <= srLoops
      /\ srLoops + Cardinality(SrThreads) <= Cardinality(SrThreads)
  BY ONLY <1>2, <1>4
<1>6. srAt \in [SrThreads -> Nat] /\ srKind \in [SrThreads -> SrKinds] BY DEF SrInit, SrKinds
<1>7. /\ srLock \subseteq SrThreads /\ srLoop = srLoops /\ srRuns \subseteq 1..srLoops /\ srBlocked \subseteq srRuns
      /\ srBegun \in BOOLEAN /\ ~srBegun /\ \A t \in SrThreads : srPc[t] = "idle"
  BY DEF SrInit
<1> QED BY <1>1, <1>3, <1>5, <1>6, <1>7 DEF SrCounted

\* So the variables have their types.
LEMMA SrTypeFollows == SrInv /\ SrCounted => SrTypeOK
<1> SUFFICES ASSUME SrInv, SrCounted PROVE SrTypeOK
  OBVIOUS
<1>1. IsFiniteSet(SrToMake) BY SrAssumption, FS_Subset DEF SrToMake
<1>2. Cardinality(SrToMake) \in Nat /\ Cardinality(SrThreads) \in Nat BY <1>1, SrAssumption, FS_CardinalityType
<1>3. srLoops \in Nat /\ srLoop = srLoops /\ srLoops + Cardinality(SrToMake) <= Cardinality(SrThreads) BY DEF SrCounted
<1>4. srLoops \in 0..Cardinality(SrThreads) /\ srLoop \in 0..srLoops BY ONLY <1>2, <1>3
<1>5. srAt \in [SrThreads -> 0..srLoops]
  <2>1. \A u \in SrThreads : srAt[u] \in Nat /\ srAt[u] <= srLoops BY DEF SrCounted
  <2>2. \A u \in SrThreads : srAt[u] \in 0..srLoops BY ONLY <1>3, <2>1
  <2>3. srAt \in [SrThreads -> Nat] BY DEF SrCounted
  <2> QED BY ONLY <2>2, <2>3
<1>8. srThread \in 0..srLoops
  <2>1. srThread \in Nat /\ srThread <= srLoops BY DEF SrCounted
  <2> QED BY ONLY <1>3, <2>1
<1>7. srMade \in {0, 1} BY DEF SrInv
<1>6. srMade \in Nat BY ONLY <1>7
<1> QED BY <1>4, <1>5, <1>6, <1>8 DEF SrTypeOK, SrInv, SrCounted

\* A call waits for a loop that runs, or that some thread is about to run; unless
\* two threads made a loop at the same time.  (A loop that waits for itself runs.)
SrServed ==
    srLoops <= 1 => \A t \in SrThreads : srPc[t] = "waiting" =>
        srAt[t] \in srRuns \/ \E o \in SrThreads : srPc[o] \in {"new thread", "run thread"}

\* The only loop runs or will be run, and nobody submits before there is one.
SrToBeRun == \E o \in SrThreads : srPc[o] \in {"new thread", "run thread"}
SrLoopRuns ==
    /\ srLoops = 1 => 1 \in srRuns \/ SrToBeRun
    /\ \A t \in SrThreads : /\ srPc[t] = "submit" => srLoops # 0
                            /\ srPc[t] = "waiting" => srAt[t] # 0

\* A step of a thread that neither makes a loop, nor runs one, nor submits.
LEMMA SrLoopRunsStays ==
    ASSUME SrInv, SrCounted, SrLoopRuns, NEW t \in SrThreads, NEW place, srPc' = [srPc EXCEPT ![t] = place],
           srPc[t] \notin {"new thread", "run thread"} \/ place \in {"new thread", "run thread"} \/ 1 \in srRuns',
           place # "waiting", place = "submit" => srLoops # 0,
           UNCHANGED <<srLoops, srAt>>, srRuns \subseteq srRuns'
    PROVE  SrLoopRuns'
<1>1. \A u \in SrThreads : srPc'[u] = IF u = t THEN place ELSE srPc[u] BY DEF SrInv
<1>2. srLoops' = 1 => 1 \in srRuns' \/ SrToBeRun'
  <2> SUFFICES ASSUME srLoops = 1, 1 \notin srRuns' PROVE SrToBeRun'
    OBVIOUS
  <2>1. PICK o \in SrThreads : srPc[o] \in {"new thread", "run thread"} BY DEF SrLoopRuns, SrToBeRun
  <2>2. srPc'[o] \in {"new thread", "run thread"} BY <1>1, <2>1
  <2> QED BY <2>2 DEF SrToBeRun
<1>3. ASSUME NEW u \in SrThreads
      PROVE  /\ srPc'[u] = "submit" => srLoops' # 0
             /\ srPc'[u] = "waiting" => srAt'[u] # 0
  BY <1>1 DEF SrLoopRuns
<1> QED BY <1>2, <1>3 DEF SrLoopRuns

\* Whatever the threads do.
LEMMA SrLoopRunsKept == SrInv /\ SrCounted /\ SrLoopRuns /\ [SrNext]_srVars => SrLoopRuns'
<1> SUFFICES ASSUME SrInv, SrCounted, SrLoopRuns, [SrNext]_srVars PROVE SrLoopRuns'
  OBVIOUS
<1>1. CASE SrDone \/ UNCHANGED srVars BY <1>1 DEF SrDone, srVars, SrLoopRuns, SrToBeRun
<1>2. ASSUME NEW t \in SrThreads, SrCallback(t) PROVE SrLoopRuns'
  BY <1>2 DEF SrCallback, SrLoopRuns, SrToBeRun
<1>3. ASSUME NEW t \in SrThreads, SrGetattr(t) \/ SrAcquire(t) \/ SrMake(t) \/ SrStart(t) \/ SrAnswer(t)
      PROVE  SrLoopRuns'
  <2>1. /\ UNCHANGED <<srLoops, srRuns, srAt>> /\ srPc[t] \notin {"new thread", "run thread"}
        /\ \E place \in {"done", "start", "get", "locked", "new loop", "submit"} :
             srPc' = [srPc EXCEPT ![t] = place] /\ (place = "submit" => srPc[t] = "waiting" \/ srLoop # 0)
    <3>1. CASE SrGetattr(t)
      <4>1. PICK kind \in SrKinds :
              srPc' = [srPc EXCEPT ![t] = IF kind \notin SrBlocking THEN "done" ELSE IF srRunner THEN "start" ELSE "get"]
        BY <3>1 DEF SrGetattr
      <4> DEFINE place == IF kind \notin SrBlocking THEN "done" ELSE IF srRunner THEN "start" ELSE "get"
      <4>2. place \in {"done", "start", "get"} OBVIOUS
      <4>3. srPc' = [srPc EXCEPT ![t] = place] BY <4>1
      <4>4. UNCHANGED <<srLoops, srRuns, srAt>> /\ srPc[t] = "idle" BY <3>1 DEF SrGetattr
      <4> HIDE DEF place
      <4> QED BY <4>2, <4>3, <4>4
    <3>2. CASE SrAcquire(t) \/ SrMake(t) \/ SrStart(t) BY <3>2 DEF SrAcquire, SrMake, SrStart
    <3>3. CASE SrAnswer(t) BY <3>3 DEF SrAnswer
    <3> QED BY <1>3, <3>1, <3>2, <3>3
  <2>2. PICK place \in {"done", "start", "get", "locked", "new loop", "submit"} :
             srPc' = [srPc EXCEPT ![t] = place] /\ (place = "submit" => srPc[t] = "waiting" \/ srLoop # 0)
    BY <2>1
  <2>3. place = "submit" => srLoops # 0
    <3>1. srAt[t] \in Nat /\ srAt[t] <= srLoops /\ srLoops \in Nat /\ srLoop = srLoops BY DEF SrCounted
    <3>2. srPc[t] = "waiting" => srAt[t] # 0 BY DEF SrLoopRuns
    <3> QED BY ONLY <2>2, <3>1, <3>2
  <2> QED BY <2>1, <2>2, <2>3, SrLoopRunsStays
<1>4. ASSUME NEW t \in SrThreads, SrNewLoop(t) PROVE SrLoopRuns'
  <2>1. /\ srLoops' = srLoops + 1 /\ srPc' = [srPc EXCEPT ![t] = "new thread"] /\ srAt' = srAt
    BY <1>4 DEF SrNewLoop
  <2>2. srLoops' = srLoops + 1 BY <2>1
  <2>3. srLoops \in Nat BY DEF SrCounted
  <2>4. srLoops' # 0 BY ONLY <2>2, <2>3
  <2>5. srPc'[t] = "new thread" BY <2>1 DEF SrInv
  <2> QED BY <2>1, <2>4, <2>5 DEF SrLoopRuns, SrToBeRun, SrInv
<1>5. ASSUME NEW t \in SrThreads, SrNewThread(t) PROVE SrLoopRuns'
  <2>1. srPc' = [srPc EXCEPT ![t] = "run thread"] /\ UNCHANGED <<srLoops, srAt, srRuns>> BY <1>5 DEF SrNewThread
  <2> QED BY <2>1, SrLoopRunsStays
<1>6. ASSUME NEW t \in SrThreads, SrRunThread(t) PROVE SrLoopRuns'
  <2>1. /\ srPc[t] = "run thread" /\ srRuns' = (IF srBegun THEN srRuns ELSE srRuns \cup {srThread})
        /\ UNCHANGED <<srLoops, srAt>>
    BY <1>6 DEF SrRunThread, SrStarted
  <2>2. PICK place \in {"submit", "done"} : srPc' = [srPc EXCEPT ![t] = place] BY <1>6 DEF SrRunThread
  <2>3. srThread \in Nat /\ srThread <= srLoops /\ srThread # 0 /\ srLoops \in Nat BY <2>1 DEF SrCounted
  <2>4. srLoops # 0 /\ (srLoops = 1 => srThread = 1) BY ONLY <2>3
  <2>5. srThread \in srRuns' /\ srRuns \subseteq srRuns' BY <2>1 DEF SrCounted
  <2>6. CASE srLoops = 1
    <3>1. 1 \in srRuns' BY <2>4, <2>5, <2>6
    <3> QED BY <2>1, <2>2, <2>4, <2>5, <3>1, SrLoopRunsStays
  <2>7. CASE srLoops # 1 BY <2>1, <2>2, <2>4, <2>7 DEF SrLoopRuns, SrInv
  <2> QED BY <2>6, <2>7
<1>7. ASSUME NEW t \in SrThreads, SrSubmit(t) PROVE SrLoopRuns'
  <2>1. /\ srPc[t] = "submit" /\ srAt' = [srAt EXCEPT ![t] = srLoop] /\ srPc' = [srPc EXCEPT ![t] = "waiting"]
        /\ UNCHANGED <<srLoops, srRuns>>
    BY <1>7 DEF SrSubmit
  <2>2. srLoop # 0 BY <2>1 DEF SrLoopRuns, SrCounted
  <2>3. \A u \in SrThreads : srPc'[u] \in {"submit", "waiting"} => srPc[u] \in {"submit", "waiting"}
    BY <2>1 DEF SrInv
  <2>4. \A u \in SrThreads : srPc'[u] = IF u = t THEN "waiting" ELSE srPc[u] BY <2>1 DEF SrInv
  <2>5. \A u \in SrThreads : srAt'[u] = IF u = t THEN srLoop ELSE srAt[u] BY <2>1 DEF SrCounted
  <2>6. SrToBeRun => SrToBeRun'
    <3>1. \A o \in SrThreads : srPc[o] \in {"new thread", "run thread"} => srPc'[o] = srPc[o] BY <2>1, <2>4
    <3> QED BY <3>1 DEF SrToBeRun
  <2> QED BY <2>1, <2>2, <2>4, <2>5, <2>6 DEF SrLoopRuns
<1> QED BY <1>1, <1>2, <1>3, <1>4, <1>5, <1>6, <1>7 DEF SrNext, SrStep

\* Whichever threads come first: as long as they made one loop, no call waits for
\* a loop that nothing runs or will run.
THEOREM CallsAreServed == SrSpec => []SrServed
<1>1. SrInit => SrLoopRuns BY DEF SrInit, SrLoopRuns
<1>2. SrInv /\ SrCounted /\ SrLoopRuns => SrServed
  <2> SUFFICES ASSUME SrCounted, SrLoopRuns, srLoops <= 1, NEW t \in SrThreads, srPc[t] = "waiting"
               PROVE  srAt[t] \in srRuns \/ SrToBeRun
    BY DEF SrServed, SrToBeRun
  <2>1. srAt[t] # 0 /\ srAt[t] \in Nat /\ srAt[t] <= srLoops /\ srLoops \in Nat BY DEF SrLoopRuns, SrCounted
  <2>2. srAt[t] = 1 /\ srLoops = 1 BY ONLY <2>1, srLoops <= 1
  <2> QED BY <2>2 DEF SrLoopRuns
<1> QED BY <1>1, <1>2, SrInitHolds, SrCountedBegins, SrStepKeeps, SrCountedKept, SrLoopRunsKept, PTL DEF SrSpec

-----------------------------------------------------------------------------
\* A path is as long as it may be, and its options were given for an authority.
PaBounded == Len(paPath) <= PaDepth /\ Len(paHome) = 1

\* Whatever is derived.
LEMMA PaBoundedKept == PaBounded /\ [PaNext]_paVars => PaBounded'
<1> SUFFICES ASSUME PaBounded, [PaNext]_paVars PROVE PaBounded'
  OBVIOUS
<1>1. ASSUME NEW text, NEW parts, PaDerive(text, parts) PROVE PaBounded' BY <1>1 DEF PaDerive, PaBounded
<1>2. CASE UNCHANGED paVars BY <1>2 DEF paVars, PaBounded
<1> QED BY <1>1, <1>2 DEF PaNext, PaJoin, PaParent, PaWithSegments

\* The first path has an authority.
LEMMA PaBoundedBegins == ASSUME PaRegularUsers PROVE PaInit => PaBounded
<1> SUFFICES ASSUME PaInit PROVE PaBounded
  OBVIOUS
<1>1. PaInv BY PaInitHolds
<1>2. paPath # <<>> BY <1>1 DEF PaInv, PaGood
<1>3. paHome = PaAuthority(paPath) BY DEF PaInit
<1>4. paHome = <<Head(paPath)>> BY <1>2, <1>3 DEF PaAuthority
<1>5. Len(paHome) = 1 BY ONLY <1>4
<1> QED BY <1>5 DEF PaInit, PaBounded

\* So the variables have their types.
LEMMA PaTypeFollows == PaInv /\ PaBounded => PaTypeOK
<1> SUFFICES ASSUME PaInv, PaBounded PROVE PaTypeOK
  OBVIOUS
<1>1. paPath \in Seq(PaWords) /\ paPath # <<>> BY DEF PaInv, PaGood, PaClean
<1>2. Len(paPath) \in Nat /\ Len(paPath) # 0 BY <1>1
<1>3. Len(paPath) \in 1..PaDepth BY <1>2, PaAssumption DEF PaBounded
<1> QED BY <1>1, <1>3 DEF PaInv, PaBounded, PaTypeOK

-----------------------------------------------------------------------------
\* What each component keeps while it runs, so that its variables have their types.
SuiteInv ==
    /\ suite \in {"batcher", "tree", "trust", "ftp", "walk", "items", "protocols", "paths", "facade"}
    /\ suite = "batcher" => MbTyped
    /\ suite = "tree" => StInv
    /\ suite = "trust" => HtCounted
    /\ suite = "ftp" => FpInv /\ FpNumbers
    /\ suite = "walk" => HwInv /\ HwNamed
    /\ suite = "items" => AiInv /\ AiServed
    /\ suite = "protocols" => PmInv /\ PmAnswered
    /\ suite = "paths" => PaInv /\ PaBounded
    /\ suite = "facade" => SrInv /\ SrCounted

\* Every component begins with it.
LEMMA SuiteBegins == ASSUME PaRegularUsers PROVE Init => SuiteInv
<1> SUFFICES ASSUME Init PROVE SuiteInv
  OBVIOUS
<1>1. /\ MbInit /\ StInit /\ HtInit /\ FpInit /\ HwInit /\ AiInit /\ PmInit /\ SrInit /\ PaInit
      /\ suite \in {"batcher", "tree", "trust", "ftp", "walk", "items", "protocols", "paths", "facade"}
  BY DEF Init
<1>2. MbTyped BY <1>1, MbInitHolds DEF MbTyped, MbInit
<1>3. StInv /\ HtCounted BY <1>1, StInitHolds, HtTypeFollows
<1>4. FpInv /\ FpNumbers BY <1>1, FpInitHolds, FpNumbersBegin
<1>5. HwInv /\ HwNamed BY <1>1, HwInitHolds, HwNamedBegins
<1>6. AiInv /\ AiServed BY <1>1, AiInitHolds, AiServedBegins
<1>7. PmInv /\ PmAnswered BY <1>1, PmInitHolds, PmAnsweredBegins
<1>8. PaInv /\ PaBounded BY <1>1, PaInitHolds, PaBoundedBegins
<1>9. SrInv /\ SrCounted BY <1>1, SrInitHolds, SrCountedBegins
<1> QED BY <1>1, <1>2, <1>3, <1>4, <1>5, <1>6, <1>7, <1>8, <1>9 DEF SuiteInv

\* Only the component that runs changes, by its own steps.
LEMMA SuiteKept == ASSUME PaRegularUsers PROVE SuiteInv /\ [Next]_allVars => SuiteInv'
<1> SUFFICES ASSUME SuiteInv, [Next]_allVars PROVE SuiteInv'
  OBVIOUS
<1>1. suite' = suite BY DEF Next, allVars
<1>2. CASE suite = "batcher"
  <2>1. MbInv /\ mbStore \subseteq MbItems /\ [MbNext]_mbVars
    BY <1>2 DEF SuiteInv, MbTyped, Next, allVars, requests
  <2> QED BY <1>1, <1>2, <2>1, MbStepKeeps, MbStoreShrinks DEF SuiteInv, MbTyped
<1>3. CASE suite = "tree"
  <2>1. StInv /\ [StNext]_stVars BY <1>3 DEF SuiteInv, Next, allVars, requests
  <2> QED BY <1>1, <1>3, <2>1, StStepKeeps DEF SuiteInv
<1>4. CASE suite = "trust"
  <2>1. HtCounted /\ [HtNext]_htVars BY <1>4 DEF SuiteInv, Next, allVars, sessions
  <2> QED BY <1>1, <1>4, <2>1, HtCountedKept DEF SuiteInv
<1>5. CASE suite = "ftp"
  <2>1. FpInv /\ FpNumbers /\ [FpNext]_fpVars BY <1>5 DEF SuiteInv, Next, allVars, sessions
  <2> QED BY <1>1, <1>5, <2>1, FpStepKeeps, FpNumbersKept DEF SuiteInv
<1>6. CASE suite = "walk"
  <2>1. HwInv /\ HwNamed /\ [HwNext]_hwVars BY <1>6 DEF SuiteInv, Next, allVars, services
  <2> QED BY <1>1, <1>6, <2>1, HwStepKeeps, HwNamedKept DEF SuiteInv
<1>7. CASE suite = "items"
  <2>1. AiInv /\ AiServed /\ [AiNext]_aiVars BY <1>7 DEF SuiteInv, Next, allVars, services
  <2> QED BY <1>1, <1>7, <2>1, AiInvKept, AiServedKept DEF SuiteInv
<1>8. CASE suite = "protocols"
  <2>1. PmInv /\ PmAnswered /\ [PmNext]_pmVars BY <1>8 DEF SuiteInv, Next, allVars, facade
  <2> QED BY <1>1, <1>8, <2>1, PmStepKeeps, PmAnsweredKept DEF SuiteInv
<1>9. CASE suite = "paths"
  <2>1. PaInv /\ PaBounded /\ [PaNext]_paVars BY <1>9 DEF SuiteInv, Next, allVars, facade
  <2> QED BY <1>1, <1>9, <2>1, PaStepKeeps, PaBoundedKept DEF SuiteInv
<1>10. CASE suite = "facade"
  <2>1. SrInv /\ SrCounted /\ [SrNext]_srVars BY <1>10 DEF SuiteInv, Next, allVars, facade
  <2> QED BY <1>1, <1>10, <2>1, SrStepKeeps, SrCountedKept DEF SuiteInv
<1> QED BY <1>2, <1>3, <1>4, <1>5, <1>6, <1>7, <1>8, <1>9, <1>10 DEF SuiteInv

\* Whatever runs, every variable of the connections, requests, listings, paths and
\* the facade keeps its type: no batch holds more callers than there are
\* (batcher.py, _Queue), the connections of a pool are those that were opened
\* (ftp.py), an Artifactory path remembers only answers for its own item
\* (artifactory.py, _bind_path_attrs), and there are no more loops than threads that
\* called the facade (sync.py).
THEOREM BackendsTyped == ASSUME PaRegularUsers PROVE Spec => []BackendsTypeOK
<1>1. Init => SuiteInv BY SuiteBegins
<1>2. SuiteInv /\ [Next]_allVars => SuiteInv' BY SuiteKept
<1>3. SuiteInv => BackendsTypeOK
  <2> SUFFICES ASSUME SuiteInv PROVE BackendsTypeOK
    OBVIOUS
  <2>1. /\ suite = "batcher" => MbTypeOK
        /\ suite = "tree" => StTypeOK
        /\ suite = "trust" => HtTypeOK
        /\ suite = "ftp" => FpTypeOK
        /\ suite = "walk" => HwTypeOK
        /\ suite = "items" => AiTypeOK
        /\ suite = "protocols" => PmTypeOK
        /\ suite = "paths" => PaTypeOK
        /\ suite = "facade" => SrTypeOK
    <3>1. StInv => StTypeOK BY DEF StInv, StTypes, StPlaces, StTypeOK
    <3> QED BY <3>1, MbTypeFollows, HtTypeFollows, FpTypeFollows, HwTypeFollows, AiTypeFollows, PmTypeFollows,
               PaTypeFollows, SrTypeFollows DEF SuiteInv
  <2>2. suite \in {"batcher", "tree", "trust", "ftp", "walk", "items", "protocols", "paths", "facade"} BY DEF SuiteInv
  <2> HIDE DEF MbTypeOK, StTypeOK, HtTypeOK, FpTypeOK, HwTypeOK, AiTypeOK, PmTypeOK, PaTypeOK, SrTypeOK
  <2> QED BY <2>1, <2>2 DEF BackendsTypeOK
<1> QED BY <1>1, <1>2, <1>3, PTL DEF Spec
=============================================================================
