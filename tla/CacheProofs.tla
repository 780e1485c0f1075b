---------------------------- MODULE CacheProofs ----------------------------
(***************************************************************************)
(* Proofs about the caches of content, for any number of tasks, threads    *)
(* and calls: the cached listings of a bucket (ListingCache) and the       *)
(* cached downloads (DownloadCache); at the end, the suite of both that    *)
(* TLC checks (MCCaches).                                                  *)
(***************************************************************************)
EXTENDS MCCaches, FiniteSetTheorems, WellFoundedInduction, TLAPS
-----------------------------------------------------------------------------
(* Cached listings.                                                        *)

LcServed == {"fetch", "fetched", "listed"}
LcCallRecords ==
    [op : LcOps, path : LcPaths \cup {LcIdle.path}, hit : BOOLEAN, env : LcIdentities,
     id : LcIdentities, as : LcIdentities, moved : BOOLEAN, rows : SUBSET LcKeys, gone : Nat]
LcEntries ==
    [path : LcPaths, id : LcIdentities, as : LcIdentities, at : Nat, rows : SUBSET LcKeys,
     gone : Nat, moved : BOOLEAN, late : BOOLEAN]
LcMemos == [live : LcIdentities \cup {"none"}, id : LcIdentities]

LcTypes ==
    /\ lcTask \in [LcTasks -> LcCallRecords] /\ lcCache \subseteq LcEntries /\ lcMemo \in [LcPrefixes -> LcMemos]
    /\ lcGone \in [LcPaths -> Nat] /\ lcNow \in Nat /\ lcEnv \in LcIdentities /\ lcStore \subseteq LcKeys

\* A call has the identity it was made with.  Until it has its credentials the
\* environment is still the one of that identity, unless it moved since; then its
\* rows are fetched with the credentials of that identity.
LcHonest(call, env) ==
    /\ call.op # "idle" => call.path \in LcPaths
    /\ call.op \in LcServed \cup {"call"} => call.id = call.env
    /\ call.op = "call" => call.moved \/ call.env = env
    /\ call.op \in LcServed => call.moved \/ call.as = call.env

LcCallsHonest == \A t \in LcTasks : LcHonest(lcTask[t], lcEnv)

\* The memo names the digest of the environment it was made in.
LcMemoHonest == \A p \in LcPrefixes : lcMemo[p].live # "none" => lcMemo[p].id = lcMemo[p].live

\* An entry is under the identity that fetched it.
LcEntriesHonest == \A e \in lcCache : e.moved \/ e.as = e.id

LcInv == LcTypes /\ LcCallsHonest /\ LcMemoHonest /\ LcEntriesHonest /\ LcTreeForgotten

\* The fingerprint is the one of the environment, whatever the memo holds.
LEMMA LcFingerprintIs == ASSUME LcMemoHonest, lcEnv \in LcIdentities, NEW p \in LcPrefixes PROVE LcFingerprint(p) = lcEnv
BY DEF LcMemoHonest, LcFingerprint, LcIdentities

\* A task that is in a call of that kind is as honest as before.
LEMMA LcStillHonest ==
    ASSUME LcInv, NEW t \in LcTasks, NEW call \in LcCallRecords, LcHonest(call, lcEnv),
           lcTask' = [lcTask EXCEPT ![t] = call], lcEnv' = lcEnv
    PROVE  lcTask' \in [LcTasks -> LcCallRecords] /\ LcCallsHonest'
<1>1. lcTask' \in [LcTasks -> LcCallRecords] BY DEF LcInv, LcTypes
<1>2. ASSUME NEW u \in LcTasks PROVE LcHonest(lcTask'[u], lcEnv)
  <2>1. CASE u = t
    <3>1. lcTask'[u] = call BY <2>1 DEF LcInv, LcTypes
    <3> QED BY <3>1
  <2>2. CASE u # t
    <3>1. lcTask'[u] = lcTask[u] BY <2>2 DEF LcInv, LcTypes
    <3> QED BY <3>1 DEF LcInv, LcCallsHonest
  <2> QED BY <2>1, <2>2
<1> QED BY <1>1, <1>2 DEF LcCallsHonest

\* A task that goes on to a call of that kind keeps the invariant.
LEMMA LcCallKeeps ==
    ASSUME LcInv, NEW t \in LcTasks, NEW call \in LcCallRecords, LcHonest(call, lcEnv),
           lcTask' = [lcTask EXCEPT ![t] = call], UNCHANGED <<lcEnv, lcCache, lcNow, lcGone>>,
           lcMemo' \in [LcPrefixes -> LcMemos], LcMemoHonest', lcStore' \subseteq LcKeys
    PROVE  LcInv'
<1>1. lcTask' \in [LcTasks -> LcCallRecords] /\ LcCallsHonest' BY LcStillHonest
<1>2. LcTypes' BY <1>1 DEF LcInv, LcTypes
<1>3. LcEntriesHonest' /\ LcTreeForgotten' BY DEF LcInv, LcEntriesHonest, LcTreeForgotten
<1> QED BY <1>1, <1>2, <1>3 DEF LcInv

\* The memo stays what it was.
LEMMA LcMemoStays == ASSUME LcInv, UNCHANGED lcMemo PROVE lcMemo' \in [LcPrefixes -> LcMemos] /\ LcMemoHonest'
BY DEF LcInv, LcTypes, LcMemoHonest

\* An idle task is one.
LEMMA LcIdleIsCall == LcIdle \in LcCallRecords /\ LcIdle.op = "idle" /\ \A env : LcHonest(LcIdle, env)
BY DEF LcIdle, LcCallRecords, LcOps, LcIdentities, LcHonest, LcServed

\* A listing begins: from the cache, or with a request.
LEMMA LcListKeeps == ASSUME LcInv, NEW t \in LcTasks, LcList(t) PROVE LcInv'
<1>1. PICK p \in LcPrefixes, fresh \in BOOLEAN :
        LET hits == IF fresh THEN {} ELSE LcHits(p)
            call == [LcIdle EXCEPT !.op = "call", !.path = p, !.id = LcFingerprint(p),
                                   !.env = lcEnv, !.as = lcEnv, !.gone = lcGone[p]]
        IN  /\ \/ hits = {} /\ LcBegin(t, call)
               \/ \E e \in hits :
                    LcBegin(t, [call EXCEPT !.op = "listed", !.hit = TRUE, !.as = e.as, !.moved = e.moved,
                                            !.rows = e.rows, !.gone = e.gone])
            /\ lcMemo' = [lcMemo EXCEPT ![p] = [live |-> lcEnv, id |-> LcFingerprint(p)]]
  BY DEF LcList
<1> DEFINE hits == IF fresh THEN {} ELSE LcHits(p)
           call == [LcIdle EXCEPT !.op = "call", !.path = p, !.id = LcFingerprint(p),
                                  !.env = lcEnv, !.as = lcEnv, !.gone = lcGone[p]]
           found(e) == [call EXCEPT !.op = "listed", !.hit = TRUE, !.as = e.as, !.moved = e.moved,
                                    !.rows = e.rows, !.gone = e.gone]
<1>2. LcTypes /\ LcMemoHonest BY DEF LcInv
<1>3. UNCHANGED <<lcEnv, lcCache, lcNow, lcGone>> /\ lcStore' \subseteq LcKeys BY <1>2 DEF LcList, LcTypes
<1>4. p \in LcPaths /\ lcGone[p] \in Nat /\ lcEnv \in LcIdentities BY <1>2 DEF LcPaths, LcTypes
<1>5. LcFingerprint(p) = lcEnv BY <1>2, <1>4, LcFingerprintIs
<1>6. lcMemo' = [lcMemo EXCEPT ![p] = [live |-> lcEnv, id |-> lcEnv]] BY <1>1, <1>5
<1>7. lcMemo' \in [LcPrefixes -> LcMemos]
  <2>1. [live |-> lcEnv, id |-> lcEnv] \in LcMemos BY <1>4 DEF LcMemos
  <2> QED BY <1>2, <1>6, <2>1 DEF LcTypes
<1>8. LcMemoHonest'
  <2> SUFFICES ASSUME NEW q \in LcPrefixes, lcMemo'[q].live # "none" PROVE lcMemo'[q].id = lcMemo'[q].live
    BY DEF LcMemoHonest
  <2>1. CASE q = p
    <3>1. lcMemo'[q] = [live |-> lcEnv, id |-> lcEnv] BY <1>2, <1>6, <2>1 DEF LcTypes
    <3> QED BY <3>1
  <2>2. CASE q # p
    <3>1. lcMemo'[q] = lcMemo[q] BY <1>2, <1>6, <2>2 DEF LcTypes
    <3> QED BY <1>2, <3>1 DEF LcMemoHonest
  <2> QED BY <2>1, <2>2
<1>9. /\ call \in LcCallRecords /\ call.path = p /\ call.id = lcEnv /\ call.env = lcEnv /\ call.as = lcEnv
      /\ call.op = "call"
  BY <1>4, <1>5, LcIdleIsCall DEF LcCallRecords, LcOps
<1> HIDE DEF call
<1>10. CASE lcTask' = [lcTask EXCEPT ![t] = call]
  <2>1. LcHonest(call, lcEnv) BY <1>4, <1>9 DEF LcHonest, LcServed
  <2> QED BY <1>3, <1>7, <1>8, <1>9, <1>10, <2>1, LcCallKeeps
<1>11. ASSUME NEW e \in hits, lcTask' = [lcTask EXCEPT ![t] = found(e)] PROVE LcInv'
  <2>1. e \in lcCache /\ e.id = lcEnv BY <1>5, <1>11 DEF LcHits
  <2>2. e.moved \/ e.as = lcEnv BY <2>1 DEF LcInv, LcEntriesHonest
  <2>3. e.rows \in SUBSET LcKeys /\ e.gone \in Nat /\ e.as \in LcIdentities /\ e.moved \in BOOLEAN
    BY <1>2, <2>1 DEF LcTypes, LcEntries
  <2>4. /\ found(e) \in LcCallRecords /\ found(e).path = p /\ found(e).id = lcEnv /\ found(e).env = lcEnv
        /\ found(e).as = e.as /\ found(e).moved = e.moved /\ found(e).op = "listed"
    BY <1>4, <1>9, <2>3 DEF LcCallRecords, LcOps
  <2> HIDE DEF found
  <2>5. LcHonest(found(e), lcEnv) BY <1>4, <2>2, <2>4 DEF LcHonest, LcServed
  <2> QED BY <1>3, <1>7, <1>8, <1>11, <2>4, <2>5, LcCallKeeps
<1> QED BY <1>1, <1>10, <1>11 DEF LcBegin, call

\* The credentials are those of the environment.
LEMMA LcCredentialsKeep == ASSUME LcInv, NEW t \in LcTasks, LcCredentials(t) PROVE LcInv'
<1> DEFINE call == [lcTask[t] EXCEPT !.op = "fetch", !.as = lcEnv]
<1>1. lcTask' = [lcTask EXCEPT ![t] = call] /\ lcTask[t].op = "call" BY DEF LcCredentials, LcInv, LcTypes
<1>2. UNCHANGED <<lcEnv, lcCache, lcNow, lcGone, lcMemo>> /\ lcStore' \subseteq LcKeys
  BY DEF LcCredentials, LcInv, LcTypes
<1>3. lcTask[t] \in LcCallRecords /\ lcEnv \in LcIdentities /\ LcHonest(lcTask[t], lcEnv)
  BY DEF LcInv, LcTypes, LcCallsHonest
<1>4. /\ call \in LcCallRecords /\ call.path = lcTask[t].path /\ call.id = lcTask[t].id
      /\ call.env = lcTask[t].env /\ call.as = lcEnv /\ call.moved = lcTask[t].moved /\ call.op = "fetch"
  BY <1>3 DEF LcCallRecords, LcOps
<1> HIDE DEF call
<1>5. LcHonest(call, lcEnv) BY <1>1, <1>3, <1>4 DEF LcHonest, LcServed
<1>6. lcMemo' \in [LcPrefixes -> LcMemos] /\ LcMemoHonest' BY <1>2, LcMemoStays
<1> QED BY <1>1, <1>2, <1>4, <1>5, <1>6, LcCallKeeps

\* A request for a listing is answered.
LEMMA LcServeKeeps == ASSUME LcInv, NEW t \in LcTasks, LcServe(t) PROVE LcInv'
<1> DEFINE call == [lcTask[t] EXCEPT !.op = "fetched", !.rows = LcRows(lcTask[t].path)]
<1>1. lcTask' = [lcTask EXCEPT ![t] = call] /\ lcTask[t].op = "fetch" BY DEF LcServe, LcInv, LcTypes
<1>2. UNCHANGED <<lcEnv, lcCache, lcNow, lcGone, lcMemo>> /\ lcStore' \subseteq LcKeys
  BY DEF LcServe, LcInv, LcTypes
<1>3. lcTask[t] \in LcCallRecords /\ LcHonest(lcTask[t], lcEnv) BY DEF LcInv, LcTypes, LcCallsHonest
<1>4. LcRows(lcTask[t].path) \in SUBSET LcKeys BY DEF LcRows, LcInv, LcTypes
<1>5. /\ call \in LcCallRecords /\ call.path = lcTask[t].path /\ call.id = lcTask[t].id
      /\ call.env = lcTask[t].env /\ call.as = lcTask[t].as /\ call.moved = lcTask[t].moved
      /\ call.op = "fetched"
  BY <1>3, <1>4 DEF LcCallRecords, LcOps
<1> HIDE DEF call
<1>6. LcHonest(call, lcEnv) BY <1>1, <1>3, <1>5 DEF LcHonest, LcServed
<1>7. lcMemo' \in [LcPrefixes -> LcMemos] /\ LcMemoHonest' BY <1>2, LcMemoStays
<1> QED BY <1>1, <1>2, <1>5, <1>6, <1>7, LcCallKeeps

\* Entries that are as they should be, with the calls as they were or over.
LEMMA LcCacheKeeps ==
    ASSUME LcInv, lcTask' \in [LcTasks -> LcCallRecords], LcCallsHonest',
           lcCache' \subseteq LcEntries, lcGone' \in [LcPaths -> Nat], UNCHANGED <<lcEnv, lcNow, lcStore, lcMemo>>,
           \A e \in lcCache' : (e.moved \/ e.as = e.id) /\ (e.gone = lcGone'[e.path] \/ e.late)
    PROVE  LcInv'
<1>1. lcMemo' \in [LcPrefixes -> LcMemos] /\ LcMemoHonest' BY LcMemoStays
<1> QED BY <1>1 DEF LcInv, LcTypes, LcEntriesHonest, LcTreeForgotten

\* The rows are stored under the identity of the call.
LEMMA LcStoreKeeps == ASSUME LcInv, NEW t \in LcTasks, LcStore(t) PROVE LcInv'
<1> DEFINE call == [lcTask[t] EXCEPT !.op = "listed"]
           new == [path |-> lcTask[t].path, id |-> lcTask[t].id, as |-> lcTask[t].as, at |-> lcNow,
                   rows |-> lcTask[t].rows, gone |-> lcTask[t].gone, moved |-> lcTask[t].moved,
                   late |-> lcTask[t].gone # lcGone[lcTask[t].path]]
<1>1. /\ lcTask' = [lcTask EXCEPT ![t] = call] /\ lcTask[t].op = "fetched"
      /\ UNCHANGED <<lcEnv, lcNow, lcGone, lcStore, lcMemo>>
  BY DEF LcStore, LcInv, LcTypes
<1>2. lcCache' \subseteq lcCache \cup {new} BY DEF LcStore, LcStored
<1>3. lcTask[t] \in LcCallRecords /\ LcHonest(lcTask[t], lcEnv) BY DEF LcInv, LcTypes, LcCallsHonest
<1>4. lcTask[t].path \in LcPaths /\ lcTask[t].id = lcTask[t].env /\ (lcTask[t].moved \/ lcTask[t].as = lcTask[t].env)
  BY <1>1, <1>3 DEF LcHonest, LcServed
<1>5. /\ call \in LcCallRecords /\ call.path = lcTask[t].path /\ call.id = lcTask[t].id
      /\ call.env = lcTask[t].env /\ call.as = lcTask[t].as /\ call.moved = lcTask[t].moved
      /\ call.op = "listed"
  BY <1>3 DEF LcCallRecords, LcOps
<1>6. new \in LcEntries
  <2>1. /\ lcTask[t].id \in LcIdentities /\ lcTask[t].as \in LcIdentities /\ lcTask[t].rows \in SUBSET LcKeys
        /\ lcTask[t].gone \in Nat /\ lcTask[t].moved \in BOOLEAN
    BY <1>3 DEF LcCallRecords
  <2>2. lcNow \in Nat BY DEF LcInv, LcTypes
  <2>3. (lcTask[t].gone # lcGone[lcTask[t].path]) \in BOOLEAN OBVIOUS
  <2> QED BY <1>4, <2>1, <2>2, <2>3 DEF LcEntries
<1>7. (new.moved \/ new.as = new.id) /\ (new.gone = lcGone[new.path] \/ new.late) BY <1>4
<1> HIDE DEF call, new
<1>8. LcHonest(call, lcEnv) BY <1>3, <1>4, <1>5 DEF LcHonest, LcServed
<1>9. lcTask' \in [LcTasks -> LcCallRecords] /\ LcCallsHonest' BY <1>1, <1>5, <1>8, LcStillHonest
<1>10. lcCache' \subseteq LcEntries BY <1>2, <1>6 DEF LcInv, LcTypes
<1>11. \A e \in lcCache' : (e.moved \/ e.as = e.id) /\ (e.gone = lcGone'[e.path] \/ e.late)
  BY <1>1, <1>2, <1>7 DEF LcInv, LcEntriesHonest, LcTreeForgotten
<1>12. lcGone' \in [LcPaths -> Nat] BY <1>1 DEF LcInv, LcTypes
<1> QED BY <1>1, <1>9, <1>10, <1>11, <1>12, LcCacheKeeps

\* A call ends, or one that changes the bucket begins.
LEMMA LcReturnKeeps == ASSUME LcInv, NEW t \in LcTasks, LcReturn(t) PROVE LcInv'
<1>1. lcTask' = [lcTask EXCEPT ![t] = LcIdle] /\ UNCHANGED <<lcStore, lcEnv, lcMemo, lcCache, lcNow, lcGone>>
  BY DEF LcReturn
<1>2. lcStore' \subseteq LcKeys BY <1>1 DEF LcInv, LcTypes
<1>3. lcMemo' \in [LcPrefixes -> LcMemos] /\ LcMemoHonest' BY <1>1, LcMemoStays
<1> QED BY <1>1, <1>2, <1>3, LcIdleIsCall, LcCallKeeps

\* A put begins.
LEMMA LcPutKeeps == ASSUME LcInv, NEW t \in LcTasks, LcPut(t) PROVE LcInv'
<1>1. PICK k \in LcKeys : lcTask' = [lcTask EXCEPT ![t] = [LcIdle EXCEPT !.op = "drop", !.path = k]]
  BY DEF LcPut, LcBegin
<1>2. UNCHANGED <<lcEnv, lcMemo, lcCache, lcNow, lcGone>> BY DEF LcPut
<1>3. lcStore' \subseteq LcKeys BY DEF LcPut, LcInv, LcTypes
<1> DEFINE call == [LcIdle EXCEPT !.op = "drop", !.path = k]
<1>4. call \in LcCallRecords /\ call.op = "drop" /\ call.path \in LcPaths
  BY LcIdleIsCall DEF LcCallRecords, LcOps, LcPaths
<1>5. lcTask' = [lcTask EXCEPT ![t] = call] BY <1>1
<1> HIDE DEF call
<1>6. LcHonest(call, lcEnv) BY <1>4 DEF LcHonest, LcServed
<1>7. lcMemo' \in [LcPrefixes -> LcMemos] /\ LcMemoHonest' BY <1>2, LcMemoStays
<1> QED BY <1>2, <1>3, <1>4, <1>5, <1>6, <1>7, LcCallKeeps

\* The removal of a tree begins.
LEMMA LcRmtreeKeeps == ASSUME LcInv, NEW t \in LcTasks, LcRmtree(t) PROVE LcInv'
<1>1. PICK p \in LcPrefixes : lcTask' = [lcTask EXCEPT ![t] = [LcIdle EXCEPT !.op = "dropTree", !.path = p]]
  BY DEF LcRmtree, LcBegin
<1>2. UNCHANGED <<lcEnv, lcMemo, lcCache, lcNow, lcGone>> BY DEF LcRmtree
<1>3. lcStore' \subseteq LcKeys BY DEF LcRmtree, LcInv, LcTypes
<1> DEFINE call == [LcIdle EXCEPT !.op = "dropTree", !.path = p]
<1>4. call \in LcCallRecords /\ call.op = "dropTree" /\ call.path \in LcPaths
  BY LcIdleIsCall DEF LcCallRecords, LcOps, LcPaths
<1>5. lcTask' = [lcTask EXCEPT ![t] = call] BY <1>1
<1> HIDE DEF call
<1>6. LcHonest(call, lcEnv) BY <1>4 DEF LcHonest, LcServed
<1>7. lcMemo' \in [LcPrefixes -> LcMemos] /\ LcMemoHonest' BY <1>2, LcMemoStays
<1> QED BY <1>2, <1>3, <1>4, <1>5, <1>6, <1>7, LcCallKeeps

\* The entries of one path are dropped.
LEMMA LcDropKeeps == ASSUME LcInv, NEW t \in LcTasks, LcDrop(t) PROVE LcInv'
<1>1. /\ lcTask' = [lcTask EXCEPT ![t] = LcIdle] /\ UNCHANGED <<lcEnv, lcNow, lcGone, lcStore, lcMemo>>
      /\ lcCache' \subseteq lcCache
  BY DEF LcDrop, LcDropped
<1>2. lcTask' \in [LcTasks -> LcCallRecords] /\ LcCallsHonest'
  BY <1>1, LcIdleIsCall, LcStillHonest
<1>3. \A e \in lcCache' : (e.moved \/ e.as = e.id) /\ (e.gone = lcGone'[e.path] \/ e.late)
  BY <1>1 DEF LcInv, LcEntriesHonest, LcTreeForgotten
<1>4. lcCache' \subseteq LcEntries /\ lcGone' \in [LcPaths -> Nat] BY <1>1 DEF LcInv, LcTypes
<1> QED BY <1>1, <1>2, <1>3, <1>4, LcCacheKeeps

\* The entries of a tree are dropped: those that are left are not of it.
LEMMA LcDropTreeKeeps == ASSUME LcInv, NEW t \in LcTasks, LcDropTree(t) PROVE LcInv'
<1> DEFINE call == [lcTask[t] EXCEPT !.op = "emptied"]
           top == lcTask[t].path
<1>1. /\ lcTask' = [lcTask EXCEPT ![t] = call] /\ lcTask[t].op = "dropTree"
      /\ UNCHANGED <<lcEnv, lcNow, lcStore, lcMemo>>
      /\ lcCache' = {e \in lcCache : e.path # top /\ <<top, e.path>> \notin LcBelow}
      /\ lcGone' = [p \in LcPaths |-> IF p = top \/ <<top, p>> \in LcBelow THEN lcGone[p] + 1 ELSE lcGone[p]]
  BY DEF LcDropTree, LcTreeDropped, LcInv, LcTypes
<1>2. lcTask[t] \in LcCallRecords /\ top \in LcPaths BY <1>1 DEF LcInv, LcTypes, LcCallsHonest, LcHonest
<1>3. call \in LcCallRecords /\ call.path = top /\ call.op = "emptied" BY <1>2 DEF LcCallRecords, LcOps
<1> HIDE DEF call
<1>4. LcHonest(call, lcEnv) BY <1>2, <1>3 DEF LcHonest, LcServed
<1>5. lcTask' \in [LcTasks -> LcCallRecords] /\ LcCallsHonest' BY <1>1, <1>3, <1>4, LcStillHonest
<1>6. lcGone' \in [LcPaths -> Nat] BY <1>1 DEF LcInv, LcTypes
<1>7. lcCache' \subseteq LcEntries BY <1>1 DEF LcInv, LcTypes
<1>8. ASSUME NEW e \in lcCache' PROVE (e.moved \/ e.as = e.id) /\ (e.gone = lcGone'[e.path] \/ e.late)
  <2>1. e \in lcCache /\ e.path # top /\ <<top, e.path>> \notin LcBelow BY <1>1
  <2>2. e.path \in LcPaths BY <1>7 DEF LcEntries
  <2>3. lcGone'[e.path] = lcGone[e.path] BY <1>1, <2>1, <2>2
  <2> QED BY <2>1, <2>3 DEF LcInv, LcEntriesHonest, LcTreeForgotten
<1> QED BY <1>1, <1>5, <1>6, <1>7, <1>8, LcCacheKeeps

\* The environment moves under the calls that have no credentials yet.
LEMMA LcEnvChangeKeeps == ASSUME LcInv, LcEnvChange PROVE LcInv'
<1> DEFINE moved(t) == [lcTask[t] EXCEPT !.moved = TRUE]
<1>1. /\ lcEnv' \in LcIdentities /\ UNCHANGED <<lcStore, lcMemo, lcCache, lcNow, lcGone>>
      /\ lcTask' = [t \in LcTasks |-> IF lcTask[t].op = "call" THEN moved(t) ELSE lcTask[t]]
  BY DEF LcEnvChange
<1>2. LcTypes /\ LcCallsHonest BY DEF LcInv
<1>3. ASSUME NEW t \in LcTasks PROVE lcTask'[t] \in LcCallRecords /\ LcHonest(lcTask'[t], lcEnv')
  <2>1. lcTask[t] \in LcCallRecords /\ LcHonest(lcTask[t], lcEnv) BY <1>2 DEF LcTypes, LcCallsHonest
  <2>2. CASE lcTask[t].op = "call"
    <3>1. lcTask'[t] = moved(t) BY <1>1, <2>2
    <3>2. /\ moved(t) \in LcCallRecords /\ moved(t).op = "call" /\ moved(t).moved = TRUE
          /\ moved(t).path = lcTask[t].path /\ moved(t).id = lcTask[t].id /\ moved(t).env = lcTask[t].env
      BY <2>1, <2>2 DEF LcCallRecords
    <3> HIDE DEF moved
    <3> QED BY <2>1, <2>2, <3>1, <3>2 DEF LcHonest, LcServed
  <2>3. CASE lcTask[t].op # "call"
    <3>1. lcTask'[t] = lcTask[t] BY <1>1, <2>3
    <3> QED BY <2>1, <2>3, <3>1 DEF LcHonest
  <2> QED BY <2>2, <2>3
<1> HIDE DEF moved
<1>4. lcTask' \in [LcTasks -> LcCallRecords] BY <1>1, <1>3
<1>5. LcCallsHonest' BY <1>3 DEF LcCallsHonest
<1>6. lcMemo' \in [LcPrefixes -> LcMemos] /\ LcMemoHonest' BY <1>1, LcMemoStays
<1> QED BY <1>1, <1>2, <1>4, <1>5, <1>6 DEF LcInv, LcTypes, LcEntriesHonest, LcTreeForgotten

\* What holds at the beginning.
LEMMA LcInitHolds == LcInit => LcInv
<1> SUFFICES ASSUME LcInit PROVE LcInv
  OBVIOUS
<1>1. lcMemo \in [LcPrefixes -> LcMemos] /\ LcMemoHonest BY DEF LcInit, LcMemos, LcIdentities, LcMemoHonest
<1>2. LcTypes BY <1>1, LcIdleIsCall DEF LcInit, LcTypes, LcIdentities
<1>3. LcCallsHonest BY LcIdleIsCall DEF LcInit, LcCallsHonest
<1> QED BY <1>1, <1>2, <1>3 DEF LcInit, LcInv, LcEntriesHonest, LcTreeForgotten

\* Every step keeps the invariant.
LEMMA LcStepKeeps == LcInv /\ [LcNext]_lcVars => LcInv'
<1> SUFFICES ASSUME LcInv, [LcNext]_lcVars PROVE LcInv'
  OBVIOUS
<1>1. CASE LcTick
  BY <1>1 DEF LcTick, LcInv, LcTypes, LcCallsHonest, LcMemoHonest, LcEntriesHonest, LcTreeForgotten
<1>2. CASE UNCHANGED lcVars
  BY <1>2 DEF lcVars, LcInv, LcTypes, LcCallsHonest, LcMemoHonest, LcEntriesHonest, LcTreeForgotten
<1> QED BY <1>1, <1>2, LcListKeeps, LcCredentialsKeep, LcServeKeeps, LcStoreKeeps, LcReturnKeeps,
           LcPutKeeps, LcDropKeeps, LcRmtreeKeeps, LcDropTreeKeeps, LcEnvChangeKeeps
        DEF LcNext, LcDone

\* However listings, writes and deletions of any number of tasks interleave and
\* the environment's credentials change (_list_entries, s3_get_credentials,
\* _identity_fingerprint, _invalidate_listing, _invalidate_tree), a listing is
\* served only to the identity whose credentials fetched it, unless they changed
\* under the fetch itself; and none asked for before a recursive rmdir outlives
\* it, but for a late answer.
THEOREM RightListing == LcSpec => []LcRightListing
<1>1. LcInv => LcRightListing
  BY DEF LcInv, LcCallsHonest, LcHonest, LcServed, LcRightListing, LcOwnIdentity
<1> QED BY <1>1, LcInitHolds, LcStepKeeps, PTL DEF LcSpec

-----------------------------------------------------------------------------
(* The download cache.                                                     *)

DcPast == {"look again", "fetch", "store"}
DcCompleted == {"hit", "fetched"}
DcPlaces == DcOver \cup {"idle", "lookup", "lock", "look again", "fetch", "store"}

DcIsRow(row) ==
    /\ row = [key |-> row.key, version |-> row.version, accessed |-> row.accessed, expires |-> row.expires]
    /\ row.key \in DcKeys /\ row.version \in DcVersions

DcTypes ==
    /\ \A row \in dcEntries : DcIsRow(row)
    /\ \A a, b \in dcEntries : a.key = b.key => a = b
    /\ dcOrigin \in [DcKeys -> DcVersions] /\ dcShared \in 0..DcMaxInstances /\ dcOpened \in 0..DcMaxInstances
    /\ dcLock \in [DcInstances -> [DcKeys -> DcReaders \cup {DcNoOne}]]
    /\ dcPc \in [DcReaders -> DcPlaces] /\ dcKey \in [DcReaders -> DcKeys]
    /\ dcInst \in [DcReaders -> 0..DcMaxInstances]
    /\ dcData \in [DcReaders -> 0..Len(DcSizeOf)] /\ dcNewest \in [DcReaders -> 0..Len(DcSizeOf)]
    /\ \A r \in DcReaders : dcPc[r] = "store" => dcData[r] \in DcVersions
    /\ \A th \in dcThreads : th.key \in DcKeys /\ th.version \in DcVersions \cup {0}
    /\ dcDisturbed \in BOOLEAN

\* Who is past the lock of its key in its instance holds it, and nobody else does.
DcLocks ==
    /\ \A r \in DcReaders : dcPc[r] # "idle" => dcInst[r] \in DcInstances
    /\ \A r \in DcReaders : dcPc[r] \in DcPast => dcLock[dcInst[r]][dcKey[r]] = r
    /\ \A i \in DcInstances, k \in DcKeys : dcLock[i][k] # DcNoOne =>
         dcPc[dcLock[i][k]] \in DcPast /\ dcInst[dcLock[i][k]] = i /\ dcKey[dcLock[i][k]] = k

\* Until an instance is closed there is one, and until a call is cancelled while
\* it stores, no thread stores for nobody.
DcOneInstance ==
    ~dcDisturbed =>
        /\ dcShared = dcOpened /\ dcOpened <= 1
        /\ \A r \in DcReaders : dcPc[r] # "idle" => dcInst[r] = 1
        /\ \A th \in dcThreads : th.version = 0

\* There is no row of a key while it is fetched and stored.
DcNothingLeft ==
    ~dcDisturbed =>
        \A r \in DcReaders : dcPc[r] \in {"fetch", "store"} => \A row \in dcEntries : row.key # dcKey[r]

\* What was returned is not newer than what is on its way, in a row or on the
\* server, and a call began with what was returned before.
DcOrder ==
    ~dcDisturbed =>
        /\ \A row \in dcEntries : row.version <= dcOrigin[row.key]
        /\ \A r \in DcReaders : dcPc[r] \in DcCompleted \cup {"store"} => dcData[r] <= dcOrigin[dcKey[r]]
        /\ \A q, r \in DcReaders : dcPc[q] \in DcCompleted /\ dcPc[r] = "store" /\ dcKey[q] = dcKey[r] =>
             dcData[q] <= dcData[r]
        /\ \A q \in DcReaders, row \in dcEntries : dcPc[q] \in DcCompleted /\ dcKey[q] = row.key =>
             dcData[q] <= row.version
        /\ \A r \in DcReaders : dcPc[r] # "idle" /\ dcNewest[r] # 0 =>
             \E q \in DcReaders : dcPc[q] \in DcCompleted /\ dcKey[q] = dcKey[r] /\ dcData[q] = dcNewest[r]
        /\ \A r \in DcReaders : dcPc[r] \in DcCompleted => dcNewest[r] <= dcData[r]

DcInv == DcTypes /\ DcLocks /\ DcOneInstance /\ DcNothingLeft /\ DcOrder

\* A nonempty set of naturals below a bound has a maximum.
LEMMA MaxOfSome ==
    ASSUME NEW n \in Nat, NEW S \in SUBSET (0..n), S # {}
    PROVE  Max(S) \in S /\ \A y \in S : y <= Max(S)
<1> DEFINE R == {pair \in Nat \X Nat : pair[1] < pair[2]}
           T == {y \in 0..n : n - y \in S}
<1>1. IsWellFoundedOn(R, Nat) BY NatLessThanWellFounded DEF OpToRel
<1>2. PICK z \in S : TRUE OBVIOUS
<1>3. n - z \in T BY <1>2
<1>4. T \subseteq Nat /\ T # {}
  <2>1. T \subseteq 0..n OBVIOUS
  <2>2. 0..n \subseteq Nat OBVIOUS
  <2>3. T # {} BY <1>3
  <2> HIDE DEF T
  <2> QED BY <2>1, <2>2, <2>3
<1>5. \A x, y \in T : y < x => <<y, x>> \in R BY <1>4
<1>6. \A y \in T : n - y \in S OBVIOUS
<1>7. \A y \in S : n - y \in T /\ y \in 0..n OBVIOUS
<1> HIDE DEF R, T
<1>8. PICK x \in T : \A y \in T : <<y, x>> \notin R BY <1>1, <1>4, WFMin
<1>9. n - x \in S BY <1>6
<1>10. ASSUME NEW y \in S PROVE y <= n - x
  <2>1. ~(n - y < x) BY <1>5, <1>7, <1>8
  <2> QED BY <1>4, <1>7, <2>1
<1>11. \E x1 \in S : \A y \in S : x1 >= y BY <1>4, <1>7, <1>9, <1>10
<1> QED BY <1>11 DEF Max

\* What a transaction leaves is what was there, but for the time of access.
DcFewer(rows) ==
    /\ \A row \in rows : DcIsRow(row)
    /\ \A a, b \in rows : a.key = b.key => a = b
    /\ \A row \in rows : \E old \in dcEntries :
         old.key = row.key /\ old.version = row.version /\ old.expires = row.expires

\* Deleting rows leaves fewer.
LEMMA DcPartIsFewer ==
    ASSUME DcTypes, NEW rows \in SUBSET dcEntries
    PROVE  DcFewer(rows)
BY DEF DcTypes, DcFewer

\* The new time of access changes nothing else of a row.
LEMMA DcAccess ==
    ASSUME NEW row, NEW time, DcIsRow(row)
    PROVE  LET new == [row EXCEPT !.accessed = time]
           IN  DcIsRow(new) /\ new.key = row.key /\ new.version = row.version /\ new.expires = row.expires
<1> DEFINE k == row.key
           v == row.version
           e == row.expires
           a == row.accessed
           new == [row EXCEPT !.accessed = time]
<1>1. row = [key |-> k, version |-> v, accessed |-> a, expires |-> e] /\ k \in DcKeys /\ v \in DcVersions
  BY DEF DcIsRow
<1> HIDE DEF k, v, e, a
<1>2. new = [key |-> k, version |-> v, accessed |-> time, expires |-> e] BY <1>1
<1> QED BY <1>1, <1>2 DEF DcIsRow, k, v, e

\* A lookup deletes a row or sets its time of access.
LEMMA DcGetIsFewer ==
    ASSUME DcTypes, NEW k \in DcKeys, NEW now
    PROVE  DcFewer(DcAfterGet(k, now)) /\ (DcLookup(k, now) = {} => \A row \in DcAfterGet(k, now) : row.key # k)
<1> DEFINE others == {row \in dcEntries : row.key # k}
           time == DcNow(dcEntries)
           got == {[row EXCEPT !.accessed = time] : row \in DcLookup(k, now)}
<1>1. DcAfterGet(k, now) = others \cup got BY DEF DcAfterGet
<1>2. \A row \in dcEntries : DcIsRow(row) BY DEF DcTypes
<1>3. \A row \in DcLookup(k, now) : row \in dcEntries /\ row.key = k BY DEF DcLookup
<1> HIDE DEF time
<1>4. \A new \in got : \E row \in DcLookup(k, now) : new = [row EXCEPT !.accessed = time] OBVIOUS
<1>5. ASSUME NEW new \in got
      PROVE  /\ DcIsRow(new) /\ new.key = k
             /\ \E old \in DcLookup(k, now) : /\ old.key = new.key /\ old.version = new.version /\ old.expires = new.expires
                                         /\ new = [old EXCEPT !.accessed = time]
  <2>1. PICK row \in DcLookup(k, now) : new = [row EXCEPT !.accessed = time] BY <1>4
  <2>2. DcIsRow(row) /\ row.key = k BY <1>2, <1>3
  <2> QED BY <2>1, <2>2, DcAccess
<1>6. \A a, b \in DcLookup(k, now) : a = b BY <1>3 DEF DcTypes
<1>7. \A a, b \in got : a = b BY <1>4, <1>6
<1>8. \A row \in others : row \in dcEntries /\ row.key # k OBVIOUS
<1>9. DcLookup(k, now) = {} => got = {} OBVIOUS
<1> HIDE DEF got, others
<1>10. \A row \in DcAfterGet(k, now) : DcIsRow(row) BY <1>1, <1>2, <1>5, <1>8
<1>11. \A a, b \in DcAfterGet(k, now) : a.key = b.key => a = b BY <1>1, <1>5, <1>7, <1>8 DEF DcTypes
<1>12. ASSUME NEW row \in DcAfterGet(k, now)
       PROVE  \E old \in dcEntries : old.key = row.key /\ old.version = row.version /\ old.expires = row.expires
  BY <1>1, <1>3, <1>5, <1>8
<1> QED BY <1>1, <1>8, <1>9, <1>10, <1>11, <1>12 DEF DcFewer

\* set leaves rows of other keys and, if it fits, the one it stores.
LEMMA DcSetLeaves ==
    ASSUME DcTypes, NEW k \in DcKeys, NEW v \in DcVersions, NEW now, NEW made
    PROVE  /\ \A row \in DcAfterSet(k, v, now, made) : DcIsRow(row)
           /\ \A a, b \in DcAfterSet(k, v, now, made) : a.key = b.key => a = b
           /\ \A row \in DcAfterSet(k, v, now, made) :
                \/ row \in dcEntries /\ row.key # k
                \/ /\ DcFitsIn(v, made) /\ row.key = k /\ row.version = v
                   /\ row.expires = (IF made.ttl = 0 THEN 0 ELSE now + made.ttl)
<1> DEFINE kept == DcKept(DcLive(k, now), DcRoom(v, made.limit))
           time == DcNow(kept)
           expires == IF made.ttl = 0 THEN 0 ELSE now + made.ttl
           new == [key |-> k, version |-> v, accessed |-> time, expires |-> expires]
           left == DcAfterSet(k, v, now, made)
<1>1. DcRow(k, v, now, made.ttl, time) = new BY DEF DcRow
<1>2. \A row \in DcLive(k, now) : row \in dcEntries /\ row.key # k BY DEF DcLive
<1>3. kept \subseteq DcLive(k, now) BY DEF DcKept
<1>4. left = IF DcFitsIn(v, made) THEN kept \cup {new} ELSE DcLive(k, now)
  BY <1>1 DEF DcAfterSet
<1> HIDE DEF kept, time, expires
<1>5. DcIsRow(new) /\ new.key = k /\ new.version = v /\ new.expires = expires BY DEF DcIsRow
<1> HIDE DEF new, left
<1>6. \A row \in left : (row \in dcEntries /\ row.key # k) \/ (row = new /\ DcFitsIn(v, made)) BY <1>2, <1>3, <1>4
<1>7. \A row \in left : DcIsRow(row) BY <1>5, <1>6 DEF DcTypes
<1>8. \A a, b \in left : a.key = b.key => a = b BY <1>5, <1>6 DEF DcTypes
<1> QED BY <1>5, <1>6, <1>7, <1>8 DEF expires, left

\* A call leaves the lock if it has it.
LEMMA DcReleasedIs ==
    ASSUME DcTypes, NEW r \in DcReaders, dcInst[r] \in DcInstances
    PROVE  /\ DcReleased(r) \in [DcInstances -> [DcKeys -> DcReaders \cup {DcNoOne}]]
           /\ \A i \in DcInstances, k \in DcKeys :
                DcReleased(r)[i][k] = IF i = dcInst[r] /\ k = dcKey[r] /\ dcLock[i][k] = r THEN DcNoOne ELSE dcLock[i][k]
<1> DEFINE i0 == dcInst[r]
           k0 == dcKey[r]
<1>1. k0 \in DcKeys /\ i0 \in DcInstances BY DEF DcTypes
<1>2. DcReleased(r) = [dcLock EXCEPT ![i0][k0] = IF @ = r THEN DcNoOne ELSE @] BY DEF DcReleased
<1>3. dcLock \in [DcInstances -> [DcKeys -> DcReaders \cup {DcNoOne}]] BY DEF DcTypes
<1> HIDE DEF i0, k0
<1>4. DcReleased(r) \in [DcInstances -> [DcKeys -> DcReaders \cup {DcNoOne}]] BY <1>1, <1>2, <1>3
<1>5. \A i \in DcInstances, k \in DcKeys :
        DcReleased(r)[i][k] = IF i = i0 /\ k = k0 /\ dcLock[i][k] = r THEN DcNoOne ELSE dcLock[i][k]
  BY <1>1, <1>2, <1>3
<1> QED BY <1>4, <1>5 DEF i0, k0

\* A step that changes no call keeps the invariant, if the rows it leaves were
\* there and no object becomes older.
LEMMA DcRowsOnly ==
    ASSUME DcInv, NEW rows, DcFewer(rows), dcEntries' = rows, dcOrigin' \in [DcKeys -> DcVersions],
           \A k \in DcKeys : dcOrigin[k] <= dcOrigin'[k],
           dcShared' \in 0..DcMaxInstances, dcDisturbed' \in BOOLEAN, dcDisturbed => dcDisturbed',
           ~dcDisturbed' => dcShared' = dcShared, \A th \in dcThreads' : th \in dcThreads,
           UNCHANGED <<dcOpened, dcLock, dcPc, dcKey, dcInst, dcData, dcNewest>>
    PROVE  DcInv'
<1>1. DcTypes' BY DEF DcInv, DcTypes, DcFewer
<1>2. DcLocks' BY DEF DcInv, DcLocks
<1>3. DcOneInstance' BY DEF DcInv, DcOneInstance
<1>4. DcNothingLeft' BY DEF DcInv, DcNothingLeft, DcFewer
<1>5. DcOrder'
  <2> SUFFICES ASSUME ~dcDisturbed' PROVE DcOrder'
    BY DEF DcOrder
  <2>1. DcTypes BY DEF DcInv
  <2>2. \A row \in rows : row.key \in DcKeys /\ row.version \in DcVersions BY DEF DcFewer, DcIsRow
  <2>3. \A k \in DcKeys : dcOrigin[k] \in Int /\ dcOrigin'[k] \in Int BY <2>1 DEF DcTypes, DcVersions
  <2>4. \A r \in DcReaders : dcData[r] \in Int /\ dcKey[r] \in DcKeys BY <2>1 DEF DcTypes
  <2>5. \A row \in rows : row.version \in Int BY <2>2 DEF DcVersions
  <2>6. DcOrder /\ ~dcDisturbed BY DEF DcInv
  <2>7. \A row \in dcEntries' : row.version <= dcOrigin'[row.key] BY <2>2, <2>3, <2>5, <2>6 DEF DcFewer, DcOrder
  <2>8. \A r \in DcReaders : dcPc[r] \in DcCompleted \cup {"store"} => dcData[r] <= dcOrigin'[dcKey[r]]
    BY <2>3, <2>4, <2>6 DEF DcOrder
  <2>9. \A q \in DcReaders, row \in dcEntries' : dcPc[q] \in DcCompleted /\ dcKey[q] = row.key =>
          dcData[q] <= row.version
    BY <2>6 DEF DcFewer, DcOrder
  <2> QED BY <2>6, <2>7, <2>8, <2>9 DEF DcOrder
<1> QED BY <1>1, <1>2, <1>3, <1>4, <1>5 DEF DcInv

\* The step of a call that goes on to a place where it has not yet returned and
\* does not store.
LEMMA DcCallGoes ==
    ASSUME DcInv, NEW r \in DcReaders, NEW place \in DcPlaces \ {"idle", "store", "hit", "fetched"},
           dcPc' = [dcPc EXCEPT ![r] = place], dcPc[r] \notin {"idle", "hit", "fetched"},
           NEW rows, DcFewer(rows), dcEntries' = rows,
           place = "fetch" => (dcPc[r] \in {"fetch", "store"} \/ \A row \in rows : row.key # dcKey[r]),
           dcLock' \in [DcInstances -> [DcKeys -> DcReaders \cup {DcNoOne}]],
           DcLocks', dcDisturbed' \in BOOLEAN, dcDisturbed => dcDisturbed',
           \A th \in dcThreads' : th.key \in DcKeys /\ th.version \in DcVersions \cup {0},
           \A th \in dcThreads' : th \in dcThreads \/ th.version = 0 \/ dcDisturbed',
           dcData' \in [DcReaders -> 0..Len(DcSizeOf)], \A q \in DcReaders \ {r} : dcData'[q] = dcData[q],
           UNCHANGED <<dcOrigin, dcShared, dcOpened, dcKey, dcInst, dcNewest>>
    PROVE  DcInv'
<1>0. DcTypes BY DEF DcInv
<1>1. dcPc' \in [DcReaders -> DcPlaces] /\ dcPc'[r] = place /\ \A q \in DcReaders \ {r} : dcPc'[q] = dcPc[q]
  BY <1>0 DEF DcTypes
<1>2. DcTypes'
  <2>1. \A q \in DcReaders : dcPc'[q] = "store" => dcData'[q] \in DcVersions BY <1>0, <1>1 DEF DcTypes
  <2> QED BY <1>0, <1>1, <2>1 DEF DcTypes, DcFewer
<1>3. DcOneInstance' BY <1>1 DEF DcInv, DcOneInstance
<1>4. DcNothingLeft'
  <2> SUFFICES ASSUME ~dcDisturbed', NEW q \in DcReaders, dcPc'[q] \in {"fetch", "store"}, NEW row \in rows
               PROVE  row.key # dcKey[q]
    BY DEF DcNothingLeft
  <2>1. CASE dcPc[q] \in {"fetch", "store"}
    BY <2>1 DEF DcInv, DcNothingLeft, DcFewer
  <2>2. CASE dcPc[q] \notin {"fetch", "store"} BY <1>1, <2>2
  <2> QED BY <2>1, <2>2
<1>5. DcOrder'
  <2> SUFFICES ASSUME ~dcDisturbed' PROVE DcOrder'
    BY DEF DcOrder
  <2>1. DcOrder /\ ~dcDisturbed BY DEF DcInv
  <2>2. \A q \in DcReaders : dcPc'[q] \in DcCompleted \cup {"store"} => dcPc[q] = dcPc'[q] /\ dcData'[q] = dcData[q]
    BY <1>1 DEF DcCompleted
  <2>3. \A q \in DcReaders : dcPc[q] \in DcCompleted => dcPc'[q] = dcPc[q] /\ dcData'[q] = dcData[q]
    BY <1>1 DEF DcCompleted
  <2>4. \A q \in DcReaders : dcPc'[q] # "idle" => dcPc[q] # "idle" BY <1>1
  <2>5. \A row \in rows : row.version <= dcOrigin[row.key] BY <2>1 DEF DcFewer, DcOrder
  <2>6. \A q \in DcReaders, row \in rows : dcPc'[q] \in DcCompleted /\ dcKey[q] = row.key => dcData'[q] <= row.version
    BY <2>1, <2>2 DEF DcFewer, DcOrder
  <2>7. \A q \in DcReaders : dcPc'[q] \in DcCompleted \cup {"store"} => dcData'[q] <= dcOrigin[dcKey[q]]
    BY <2>1, <2>2 DEF DcOrder
  <2>8. \A p, q \in DcReaders : dcPc'[p] \in DcCompleted /\ dcPc'[q] = "store" /\ dcKey[p] = dcKey[q] =>
          dcData'[p] <= dcData'[q]
    BY <2>1, <2>2 DEF DcOrder
  <2>9. ASSUME NEW p \in DcReaders, dcPc'[p] # "idle", dcNewest[p] # 0
        PROVE  \E q \in DcReaders : dcPc'[q] \in DcCompleted /\ dcKey[q] = dcKey[p] /\ dcData'[q] = dcNewest[p]
    <3>1. PICK q \in DcReaders : dcPc[q] \in DcCompleted /\ dcKey[q] = dcKey[p] /\ dcData[q] = dcNewest[p]
      BY <2>1, <2>4, <2>9 DEF DcOrder
    <3> QED BY <2>3, <3>1
  <2>10. \A p \in DcReaders : dcPc'[p] \in DcCompleted => dcNewest[p] <= dcData'[p] BY <2>1, <2>2 DEF DcOrder
  <2> QED BY <2>5, <2>6, <2>7, <2>8, <2>9, <2>10 DEF DcOrder
<1> QED BY <1>2, <1>3, <1>4, <1>5 DEF DcInv

\* Who ends leaves its lock to the next.
LEMMA DcLeaves ==
    ASSUME DcInv, NEW r \in DcReaders, NEW place \in DcOver, dcPc' = [dcPc EXCEPT ![r] = place], dcPc[r] # "idle",
           dcLock' = DcReleased(r), UNCHANGED <<dcKey, dcInst>>
    PROVE  DcLocks' /\ dcLock' \in [DcInstances -> [DcKeys -> DcReaders \cup {DcNoOne}]]
<1>0. DcTypes /\ DcLocks BY DEF DcInv
<1>1. dcPc'[r] = place /\ \A q \in DcReaders \ {r} : dcPc'[q] = dcPc[q] BY <1>0 DEF DcTypes
<1>2. dcInst[r] \in DcInstances BY <1>0 DEF DcLocks
<1>3. place \notin DcPast /\ place # "idle" BY DEF DcPast, DcOver
<1>4. /\ dcLock' \in [DcInstances -> [DcKeys -> DcReaders \cup {DcNoOne}]]
      /\ \A i \in DcInstances, k \in DcKeys :
           dcLock'[i][k] = IF i = dcInst[r] /\ k = dcKey[r] /\ dcLock[i][k] = r THEN DcNoOne ELSE dcLock[i][k]
  BY <1>0, <1>2, DcReleasedIs
<1>5. \A q \in DcReaders : dcPc'[q] # "idle" => dcInst[q] \in DcInstances BY <1>0, <1>1, <1>2 DEF DcLocks
<1>6. ASSUME NEW q \in DcReaders, dcPc'[q] \in DcPast PROVE dcLock'[dcInst[q]][dcKey[q]] = q
  <2>1. q # r /\ dcPc[q] \in DcPast /\ dcPc[q] # "idle" BY <1>1, <1>3, <1>6 DEF DcPast
  <2>2. dcLock[dcInst[q]][dcKey[q]] = q /\ dcInst[q] \in DcInstances /\ dcKey[q] \in DcKeys
    BY <1>0, <2>1 DEF DcLocks, DcTypes
  <2> QED BY <1>4, <2>1, <2>2
<1>7. ASSUME NEW i \in DcInstances, NEW k \in DcKeys, dcLock'[i][k] # DcNoOne
      PROVE  dcPc'[dcLock'[i][k]] \in DcPast /\ dcInst[dcLock'[i][k]] = i /\ dcKey[dcLock'[i][k]] = k
  <2>1. dcLock'[i][k] = dcLock[i][k] BY <1>4, <1>7
  <2>2. /\ dcPc[dcLock[i][k]] \in DcPast /\ dcInst[dcLock[i][k]] = i /\ dcKey[dcLock[i][k]] = k
        /\ dcLock[i][k] \in DcReaders
    BY <1>0, <1>7, <2>1 DEF DcLocks, DcTypes
  <2>3. dcLock[i][k] # r BY <1>4, <1>7, <2>2
  <2> QED BY <1>1, <2>1, <2>2, <2>3
<1> QED BY <1>4, <1>5, <1>6, <1>7 DEF DcLocks

\* Of two calls past the lock of one key in one instance one is the other.
LEMMA DcExclusive ==
    ASSUME DcLocks, NEW q \in DcReaders, NEW r \in DcReaders, dcPc[q] \in DcPast, dcPc[r] \in DcPast,
           dcInst[q] = dcInst[r], dcKey[q] = dcKey[r]
    PROVE  q = r
BY DEF DcLocks

\* A call begins: it is newer than what was returned.
LEMMA DcCallKeeps == ASSUME DcInv, NEW r \in DcReaders, DcCall(r) PROVE DcInv'
<1> DEFINE k0 == dcKey[r]
           before == {0} \cup {dcData[q] : q \in {q \in DcReaders : dcKey[q] = k0 /\ dcPc[q] \in {"hit", "fetched"}}}
           newest == Max(before)
<1>1. /\ dcPc[r] = "idle" /\ DcGetCache /\ dcInst' = [dcInst EXCEPT ![r] = dcShared'] /\ dcPc' = [dcPc EXCEPT ![r] = "lookup"]
      /\ dcNewest' = [dcNewest EXCEPT ![r] = newest]
      /\ UNCHANGED <<dcEntries, dcOrigin, dcKey, dcData, dcLock, dcThreads, dcDisturbed>>
  BY DEF DcCall, DcGoto, dcStore
<1>2. DcTypes /\ DcLocks /\ DcOneInstance BY DEF DcInv
<1>3. /\ dcShared' \in DcInstances /\ dcOpened' \in 0..DcMaxInstances
      /\ dcShared = dcOpened /\ dcOpened <= 1 => dcShared' = 1 /\ dcOpened' = 1
  <2>1. dcShared \in 0..DcMaxInstances /\ dcOpened \in 0..DcMaxInstances /\ DcMaxInstances \in Nat
    BY <1>2, DcCacheAssumption DEF DcTypes
  <2>2. CASE dcShared # 0 /\ UNCHANGED dcShare BY <2>1, <2>2 DEF DcInstances, dcShare
  <2>3. CASE dcShared = 0 /\ dcOpened < DcMaxInstances /\ dcOpened' = dcOpened + 1 /\ dcShared' = dcOpened + 1
    BY <2>1, <2>3 DEF DcInstances
  <2> QED BY <1>1, <2>2, <2>3 DEF DcGetCache
<1>4. before \subseteq 0..Len(DcSizeOf) /\ before # {} /\ Len(DcSizeOf) \in Nat
  BY <1>2, DcCacheAssumption DEF DcTypes
<1>5. newest \in before BY <1>4, MaxOfSome
<1>6. newest = 0 \/ \E q \in DcReaders : dcPc[q] \in DcCompleted /\ dcKey[q] = k0 /\ dcData[q] = newest
  BY <1>5 DEF DcCompleted
<1>7. newest \in 0..Len(DcSizeOf) BY <1>4, <1>5
<1> HIDE DEF before, newest, k0
<1>8. /\ dcPc' \in [DcReaders -> DcPlaces] /\ dcPc'[r] = "lookup" /\ \A q \in DcReaders \ {r} : dcPc'[q] = dcPc[q]
      /\ dcInst' \in [DcReaders -> 0..DcMaxInstances] /\ dcInst'[r] = dcShared'
      /\ \A q \in DcReaders \ {r} : dcInst'[q] = dcInst[q]
      /\ dcNewest' \in [DcReaders -> 0..Len(DcSizeOf)] /\ dcNewest'[r] = newest
      /\ \A q \in DcReaders \ {r} : dcNewest'[q] = dcNewest[q]
  <2>1. dcPc' \in [DcReaders -> DcPlaces] /\ dcPc'[r] = "lookup" /\ \A q \in DcReaders \ {r} : dcPc'[q] = dcPc[q]
    BY <1>1, <1>2 DEF DcTypes, DcPlaces
  <2>2. /\ dcInst' \in [DcReaders -> 0..DcMaxInstances] /\ dcInst'[r] = dcShared'
        /\ \A q \in DcReaders \ {r} : dcInst'[q] = dcInst[q]
    BY <1>1, <1>2, <1>3, DcCacheAssumption DEF DcTypes, DcInstances
  <2>3. /\ dcNewest' \in [DcReaders -> 0..Len(DcSizeOf)] /\ dcNewest'[r] = newest
        /\ \A q \in DcReaders \ {r} : dcNewest'[q] = dcNewest[q]
    BY <1>1, <1>2, <1>7 DEF DcTypes
  <2> QED BY <2>1, <2>2, <2>3
<1>9. DcTypes'
  <2>1. dcShared' \in 0..DcMaxInstances BY <1>3, DcCacheAssumption DEF DcInstances
  <2> QED BY <1>1, <1>2, <1>3, <1>8, <2>1 DEF DcTypes
<1>10. DcLocks'
  <2>1. \A q \in DcReaders : dcPc'[q] # "idle" => dcInst'[q] \in DcInstances BY <1>2, <1>3, <1>8 DEF DcLocks
  <2>2. \A q \in DcReaders : dcPc'[q] \in DcPast => q # r BY <1>8 DEF DcPast
  <2>3. \A q \in DcReaders : dcPc'[q] \in DcPast => dcLock'[dcInst'[q]][dcKey'[q]] = q BY <1>1, <1>2, <1>8, <2>2 DEF DcLocks
  <2>4. ASSUME NEW i \in DcInstances, NEW k \in DcKeys, dcLock[i][k] # DcNoOne
        PROVE  dcPc'[dcLock[i][k]] \in DcPast /\ dcInst'[dcLock[i][k]] = i /\ dcKey[dcLock[i][k]] = k
    <3>1. /\ dcPc[dcLock[i][k]] \in DcPast /\ dcInst[dcLock[i][k]] = i /\ dcKey[dcLock[i][k]] = k
          /\ dcLock[i][k] \in DcReaders
      BY <1>2, <2>4 DEF DcLocks, DcTypes
    <3>2. dcLock[i][k] # r BY <1>1, <3>1 DEF DcPast
    <3> QED BY <1>8, <3>1, <3>2
  <2> QED BY <1>1, <2>1, <2>3, <2>4 DEF DcLocks
<1>11. DcOneInstance' BY <1>1, <1>2, <1>3, <1>8 DEF DcOneInstance
<1>12. DcNothingLeft' BY <1>1, <1>8 DEF DcInv, DcNothingLeft
<1>13. DcOrder'
  <2> SUFFICES ASSUME ~dcDisturbed PROVE DcOrder'
    BY <1>1 DEF DcOrder
  <2>1. DcOrder BY DEF DcInv
  <2>2. \A q \in DcReaders : dcPc'[q] \in DcCompleted \cup {"store"} => dcPc[q] = dcPc'[q] /\ q # r
    BY <1>8 DEF DcCompleted
  <2>3. \A q \in DcReaders : dcPc[q] \in DcCompleted => dcPc'[q] = dcPc[q] BY <1>1, <1>8 DEF DcCompleted
  <2>4. ASSUME NEW p \in DcReaders, dcPc'[p] # "idle", dcNewest'[p] # 0
        PROVE  \E q \in DcReaders : dcPc'[q] \in DcCompleted /\ dcKey[q] = dcKey[p] /\ dcData[q] = dcNewest'[p]
    <3>1. \E q \in DcReaders : dcPc[q] \in DcCompleted /\ dcKey[q] = dcKey[p] /\ dcData[q] = dcNewest'[p]
      BY <1>6, <1>8, <2>1, <2>4 DEF DcOrder, k0
    <3> QED BY <2>3, <3>1
  <2> QED BY <1>1, <1>8, <2>1, <2>2, <2>4 DEF DcOrder
<1> QED BY <1>9, <1>10, <1>11, <1>12, <1>13 DEF DcInv

\* A lookup finds a row, and the call is over ...
LEMMA DcHitKeeps ==
    ASSUME DcInv, NEW r \in DcReaders, DcGet(r), DcLookup(dcKey[r], dcStamp[r]) # {}
    PROVE  DcInv'
<1> DEFINE k0 == dcKey[r]
           rows == DcAfterGet(k0, dcStamp[r])
<1>1. PICK found \in DcLookup(k0, dcStamp[r]) :
        /\ dcPc[r] \in {"lookup", "look again"} /\ dcEntries' = rows
        /\ dcData' = [dcData EXCEPT ![r] = found.version] /\ dcPc' = [dcPc EXCEPT ![r] = "hit"] /\ dcLock' = DcReleased(r)
        /\ UNCHANGED <<dcOrigin, dcShared, dcOpened, dcKey, dcInst, dcThreads, dcDisturbed, dcNewest>>
  BY DEF DcGet, DcGoto, dcShare, dcHistory
<1>2. DcTypes /\ DcLocks /\ DcOneInstance /\ DcNothingLeft BY DEF DcInv
<1>3. k0 \in DcKeys /\ DcFewer(rows) BY <1>2, DcGetIsFewer DEF DcTypes
<1>4. found \in dcEntries /\ found.key = k0 /\ found.version \in DcVersions BY <1>2 DEF DcLookup, DcTypes, DcIsRow
<1> HIDE DEF k0, rows
<1>5. DcLocks' /\ dcLock' \in [DcInstances -> [DcKeys -> DcReaders \cup {DcNoOne}]] BY <1>1, DcLeaves DEF DcOver
<1>6. /\ dcPc' \in [DcReaders -> DcPlaces] /\ dcPc'[r] = "hit" /\ \A q \in DcReaders \ {r} : dcPc'[q] = dcPc[q]
      /\ dcData' \in [DcReaders -> 0..Len(DcSizeOf)] /\ dcData'[r] = found.version
      /\ \A q \in DcReaders \ {r} : dcData'[q] = dcData[q]
  <2>1. dcPc' \in [DcReaders -> DcPlaces] /\ dcPc'[r] = "hit" /\ \A q \in DcReaders \ {r} : dcPc'[q] = dcPc[q]
    BY <1>1, <1>2 DEF DcTypes, DcPlaces, DcOver
  <2>2. DcVersions \subseteq 0..Len(DcSizeOf) BY DcCacheAssumption DEF DcVersions
  <2>3. /\ dcData' \in [DcReaders -> 0..Len(DcSizeOf)] /\ dcData'[r] = found.version
        /\ \A q \in DcReaders \ {r} : dcData'[q] = dcData[q]
    BY <1>1, <1>2, <1>4, <2>2 DEF DcTypes
  <2> QED BY <2>1, <2>3
<1>7. DcTypes' BY <1>1, <1>2, <1>3, <1>5, <1>6 DEF DcTypes, DcFewer
<1>8. DcOneInstance' BY <1>1, <1>2, <1>6 DEF DcOneInstance
<1>9. DcNothingLeft'
  <2> SUFFICES ASSUME ~dcDisturbed, NEW q \in DcReaders, dcPc'[q] \in {"fetch", "store"}, NEW row \in rows
               PROVE  row.key # dcKey[q]
    BY <1>1 DEF DcNothingLeft
  <2>1. dcPc[q] \in {"fetch", "store"} BY <1>6
  <2> QED BY <1>2, <1>3, <2>1 DEF DcNothingLeft, DcFewer
<1>10. DcOrder'
  <2> SUFFICES ASSUME ~dcDisturbed PROVE DcOrder'
    BY <1>1 DEF DcOrder
  <2>1. DcOrder BY DEF DcInv
  <2>2. \A q \in DcReaders : dcPc'[q] \in DcCompleted \cup {"store"} => q = r \/ (dcPc[q] = dcPc'[q] /\ dcData'[q] = dcData[q])
    BY <1>6
  <2>3. \A q \in DcReaders : dcPc[q] \in DcCompleted => dcPc'[q] = dcPc[q] /\ dcData'[q] = dcData[q]
    BY <1>1, <1>6 DEF DcCompleted
  <2>4. \A row \in rows : row.version <= dcOrigin[row.key] BY <1>3, <2>1 DEF DcOrder, DcFewer
  <2>5. \A row \in rows : row.key = k0 => row.version = found.version BY <1>2, <1>3, <1>4 DEF DcTypes, DcFewer
  <2>6. ASSUME NEW q \in DcReaders, NEW row \in rows, dcPc'[q] \in DcCompleted, dcKey[q] = row.key
        PROVE  dcData'[q] <= row.version
    <3>1. CASE q = r
      <4>1. dcData'[q] = found.version /\ row.version = found.version BY <1>6, <2>5, <2>6, <3>1 DEF k0
      <4> QED BY <1>4, <4>1 DEF DcVersions
    <3>2. CASE q # r
      <4>1. dcPc[q] \in DcCompleted /\ dcData'[q] = dcData[q] BY <2>2, <2>6, <3>2
      <4> QED BY <1>3, <2>1, <2>6, <4>1 DEF DcOrder, DcFewer
    <3> QED BY <3>1, <3>2
  <2>7. \A q \in DcReaders : dcPc'[q] \in DcCompleted \cup {"store"} => dcData'[q] <= dcOrigin[dcKey[q]]
    BY <1>4, <1>6, <2>1, <2>2 DEF DcOrder, k0
  <2>8. ASSUME NEW p \in DcReaders, NEW q \in DcReaders, dcPc'[p] \in DcCompleted, dcPc'[q] = "store", dcKey[p] = dcKey[q]
        PROVE  dcData'[p] <= dcData'[q]
    <3>1. dcPc[q] = "store" /\ q # r BY <1>6, <2>8
    <3>2. p # r BY <1>2, <1>4, <2>8, <3>1 DEF DcNothingLeft, k0
    <3> QED BY <2>1, <2>2, <2>8, <3>1, <3>2, <1>6 DEF DcOrder
  <2>9. ASSUME NEW p \in DcReaders, dcPc'[p] # "idle", dcNewest[p] # 0
        PROVE  \E q \in DcReaders : dcPc'[q] \in DcCompleted /\ dcKey[q] = dcKey[p] /\ dcData'[q] = dcNewest[p]
    <3>1. dcPc[p] # "idle" BY <1>1, <1>6, <2>9
    <3>2. PICK q \in DcReaders : dcPc[q] \in DcCompleted /\ dcKey[q] = dcKey[p] /\ dcData[q] = dcNewest[p]
      BY <2>1, <2>9, <3>1 DEF DcOrder
    <3> QED BY <2>3, <3>2
  <2>10. dcNewest[r] <= found.version
    <3>1. CASE dcNewest[r] = 0 BY <1>4, <3>1 DEF DcVersions
    <3>2. CASE dcNewest[r] # 0
      <4>1. PICK q \in DcReaders : dcPc[q] \in DcCompleted /\ dcKey[q] = k0 /\ dcData[q] = dcNewest[r]
        BY <1>1, <2>1, <3>2 DEF DcOrder, k0
      <4> QED BY <1>4, <2>1, <4>1 DEF DcOrder
    <3> QED BY <3>1, <3>2
  <2>11. \A p \in DcReaders : dcPc'[p] \in DcCompleted => dcNewest[p] <= dcData'[p]
    BY <1>6, <2>1, <2>2, <2>10 DEF DcOrder
  <2> QED BY <1>1, <2>4, <2>6, <2>7, <2>8, <2>9, <2>11 DEF DcOrder
<1> QED BY <1>5, <1>7, <1>8, <1>9, <1>10 DEF DcInv

\* ... or finds none, and goes on to the lock or to the server.
LEMMA DcMissKeeps ==
    ASSUME DcInv, NEW r \in DcReaders, DcGet(r), DcLookup(dcKey[r], dcStamp[r]) = {}
    PROVE  DcInv'
<1> DEFINE rows == DcAfterGet(dcKey[r], dcStamp[r])
           place == IF dcPc[r] = "lookup" THEN "lock" ELSE "fetch"
<1>1. /\ dcPc[r] \in {"lookup", "look again"} /\ dcEntries' = rows /\ dcPc' = [dcPc EXCEPT ![r] = place]
      /\ UNCHANGED <<dcOrigin, dcShared, dcOpened, dcKey, dcInst, dcData, dcLock, dcThreads, dcDisturbed, dcNewest>>
  BY DEF DcGet, DcGoto, dcShare, dcHistory
<1>2. DcTypes /\ DcLocks BY DEF DcInv
<1>3. DcFewer(rows) /\ \A row \in rows : row.key # dcKey[r] BY <1>2, DcGetIsFewer DEF DcTypes
<1>4. place \in {"lock", "fetch"} /\ (place = "fetch" => dcPc[r] = "look again") /\ (place = "lock" => dcPc[r] = "lookup")
  BY <1>1
<1> HIDE DEF rows, place
<1>5. dcPc'[r] = place /\ \A q \in DcReaders \ {r} : dcPc'[q] = dcPc[q] BY <1>1, <1>2 DEF DcTypes
<1>6. \A q \in DcReaders : /\ dcPc'[q] \in DcPast <=> dcPc[q] \in DcPast
                           /\ dcPc'[q] # "idle" => dcPc[q] # "idle"
  BY <1>1, <1>4, <1>5 DEF DcPast
<1>7. \A i \in DcInstances, k \in DcKeys : dcLock[i][k] \in DcReaders \cup {DcNoOne} BY <1>2 DEF DcTypes
<1>8. DcLocks'
  <2>1. \A q \in DcReaders : dcPc'[q] # "idle" => dcInst[q] \in DcInstances BY <1>2, <1>6 DEF DcLocks
  <2>2. \A q \in DcReaders : dcPc'[q] \in DcPast => dcLock[dcInst[q]][dcKey[q]] = q BY <1>2, <1>6 DEF DcLocks
  <2>3. \A i \in DcInstances, k \in DcKeys : dcLock[i][k] # DcNoOne =>
          dcPc'[dcLock[i][k]] \in DcPast /\ dcInst[dcLock[i][k]] = i /\ dcKey[dcLock[i][k]] = k
    BY <1>2, <1>6, <1>7 DEF DcLocks
  <2>4. UNCHANGED <<dcInst, dcKey, dcLock>> BY <1>1
  <2> QED BY <2>1, <2>2, <2>3, <2>4 DEF DcLocks
<1>9. place \in DcPlaces \ {"idle", "store", "hit", "fetched"} BY <1>4 DEF DcPlaces, DcOver
<1>10. dcLock' \in [DcInstances -> [DcKeys -> DcReaders \cup {DcNoOne}]] /\ dcDisturbed' \in BOOLEAN
       /\ dcData' \in [DcReaders -> 0..Len(DcSizeOf)] /\ \A q \in DcReaders \ {r} : dcData'[q] = dcData[q]
  BY <1>1, <1>2 DEF DcTypes
<1>11. \A th \in dcThreads' : th \in dcThreads /\ th.key \in DcKeys /\ th.version \in DcVersions \cup {0}
  BY <1>1, <1>2 DEF DcTypes
<1> QED BY <1>1, <1>3, <1>4, <1>8, <1>9, <1>10, <1>11, DcCallGoes

\* The lock is taken.
LEMMA DcAcquireKeeps == ASSUME DcInv, NEW r \in DcReaders, DcAcquire(r) PROVE DcInv'
<1> DEFINE i0 == dcInst[r]
           k0 == dcKey[r]
<1>1. /\ dcPc[r] = "lock" /\ dcLock[i0][k0] = DcNoOne /\ dcLock' = [dcLock EXCEPT ![i0][k0] = r]
      /\ dcPc' = [dcPc EXCEPT ![r] = "look again"]
      /\ UNCHANGED <<dcEntries, dcOrigin, dcShared, dcOpened, dcKey, dcInst, dcData, dcThreads, dcDisturbed, dcNewest>>
  BY DEF DcAcquire, DcGoto, DcLockFree, DcUnderLock, dcStore, dcShare, dcHistory
<1>2. DcTypes /\ DcLocks BY DEF DcInv
<1>3. i0 \in DcInstances /\ k0 \in DcKeys BY <1>1, <1>2 DEF DcLocks, DcTypes
<1>4. dcPc'[r] = "look again" /\ \A q \in DcReaders \ {r} : dcPc'[q] = dcPc[q] BY <1>1, <1>2 DEF DcTypes
<1>5. dcLock \in [DcInstances -> [DcKeys -> DcReaders \cup {DcNoOne}]] BY <1>2 DEF DcTypes
<1> HIDE DEF i0, k0
<1>6. /\ dcLock' \in [DcInstances -> [DcKeys -> DcReaders \cup {DcNoOne}]]
      /\ \A i \in DcInstances, k \in DcKeys : dcLock'[i][k] = IF i = i0 /\ k = k0 THEN r ELSE dcLock[i][k]
  BY <1>1, <1>3, <1>5
<1>7. DcLocks'
  <2>1. \A q \in DcReaders : dcPc'[q] # "idle" => dcInst[q] \in DcInstances BY <1>1, <1>2, <1>4 DEF DcLocks
  <2>2. ASSUME NEW q \in DcReaders, dcPc'[q] \in DcPast PROVE dcLock'[dcInst[q]][dcKey[q]] = q
    <3>1. CASE q = r BY <1>3, <1>6, <3>1 DEF i0, k0
    <3>2. CASE q # r
      <4>1. dcPc[q] \in DcPast /\ dcPc[q] # "idle" BY <1>4, <2>2, <3>2 DEF DcPast
      <4>2. dcLock[dcInst[q]][dcKey[q]] = q /\ dcInst[q] \in DcInstances /\ dcKey[q] \in DcKeys
        BY <1>2, <4>1 DEF DcLocks, DcTypes
      <4>3. ~(dcInst[q] = i0 /\ dcKey[q] = k0) BY <1>1, <4>2, DcCacheAssumption
      <4> QED BY <1>6, <4>2, <4>3
    <3> QED BY <3>1, <3>2
  <2>3. ASSUME NEW i \in DcInstances, NEW k \in DcKeys, dcLock'[i][k] # DcNoOne
        PROVE  dcPc'[dcLock'[i][k]] \in DcPast /\ dcInst[dcLock'[i][k]] = i /\ dcKey[dcLock'[i][k]] = k
    <3>1. CASE i = i0 /\ k = k0 BY <1>4, <1>6, <3>1 DEF i0, k0, DcPast
    <3>2. CASE ~(i = i0 /\ k = k0)
      <4>1. dcLock'[i][k] = dcLock[i][k] BY <1>6, <3>2
      <4>2. /\ dcPc[dcLock[i][k]] \in DcPast /\ dcInst[dcLock[i][k]] = i /\ dcKey[dcLock[i][k]] = k
            /\ dcLock[i][k] \in DcReaders
        BY <1>2, <2>3, <4>1 DEF DcLocks, DcTypes
      <4>3. dcLock[i][k] # r BY <1>1, <4>2 DEF DcPast
      <4> QED BY <1>4, <4>1, <4>2, <4>3
    <3> QED BY <3>1, <3>2
  <2>4. UNCHANGED <<dcInst, dcKey>> BY <1>1
  <2> QED BY <2>1, <2>2, <2>3, <2>4 DEF DcLocks
<1>8. DcFewer(dcEntries) BY <1>2, DcPartIsFewer
<1>9. "look again" \in DcPlaces \ {"idle", "store", "hit", "fetched"} BY DEF DcPlaces, DcOver
<1>10. /\ dcDisturbed' \in BOOLEAN /\ dcData' \in [DcReaders -> 0..Len(DcSizeOf)]
       /\ \A q \in DcReaders \ {r} : dcData'[q] = dcData[q]
  BY <1>1, <1>2 DEF DcTypes
<1>11. \A th \in dcThreads' : th \in dcThreads /\ th.key \in DcKeys /\ th.version \in DcVersions \cup {0}
  BY <1>1, <1>2 DEF DcTypes
<1> DEFINE rows == dcEntries
<1>12. DcFewer(rows) /\ dcEntries' = rows BY <1>1, <1>8
<1> HIDE DEF rows
<1> DEFINE place == "look again"
<1>13. /\ place \in DcPlaces \ {"idle", "store", "hit", "fetched"} /\ place # "fetch"
       /\ dcPc' = [dcPc EXCEPT ![r] = place] /\ dcPc[r] \notin {"idle", "hit", "fetched"}
       /\ UNCHANGED <<dcOrigin, dcShared, dcOpened, dcKey, dcInst, dcNewest>> /\ (dcDisturbed => dcDisturbed')
  BY <1>1, <1>9
<1> HIDE DEF place
<1> QED BY <1>6, <1>7, <1>10, <1>11, <1>12, <1>13, DcCallGoes

\* The server answers with what the object is now.
LEMMA DcFetchKeeps == ASSUME DcInv, NEW r \in DcReaders, DcFetch(r) PROVE DcInv'
<1> DEFINE v == dcOrigin[dcKey[r]]
<1>1. /\ dcPc[r] = "fetch" /\ dcData' = [dcData EXCEPT ![r] = v] /\ dcPc' = [dcPc EXCEPT ![r] = "store"]
      /\ UNCHANGED <<dcEntries, dcOrigin, dcShared, dcOpened, dcKey, dcInst, dcLock, dcThreads, dcDisturbed, dcNewest>>
  BY DEF DcFetch, DcGoto, dcStore, dcShare, dcHistory
<1>2. DcTypes /\ DcLocks /\ DcOneInstance /\ DcNothingLeft /\ DcOrder BY DEF DcInv
<1>3. v \in DcVersions /\ DcVersions \subseteq 0..Len(DcSizeOf) /\ v \in Int BY <1>2, DcCacheAssumption DEF DcTypes, DcVersions
<1> HIDE DEF v
<1>4. /\ dcPc' \in [DcReaders -> DcPlaces] /\ dcPc'[r] = "store" /\ \A q \in DcReaders \ {r} : dcPc'[q] = dcPc[q]
      /\ dcData' \in [DcReaders -> 0..Len(DcSizeOf)] /\ dcData'[r] = v /\ \A q \in DcReaders \ {r} : dcData'[q] = dcData[q]
  <2>1. dcPc' \in [DcReaders -> DcPlaces] /\ dcPc'[r] = "store" /\ \A q \in DcReaders \ {r} : dcPc'[q] = dcPc[q]
    BY <1>1, <1>2 DEF DcTypes, DcPlaces
  <2>2. dcData' \in [DcReaders -> 0..Len(DcSizeOf)] /\ dcData'[r] = v /\ \A q \in DcReaders \ {r} : dcData'[q] = dcData[q]
    BY <1>1, <1>2, <1>3 DEF DcTypes
  <2> QED BY <2>1, <2>2
<1>5. DcTypes'
  <2>1. \A q \in DcReaders : dcPc'[q] = "store" => dcData'[q] \in DcVersions BY <1>2, <1>3, <1>4 DEF DcTypes
  <2> QED BY <1>1, <1>2, <1>4, <2>1 DEF DcTypes
<1>6. \A q \in DcReaders : /\ dcPc'[q] \in DcPast <=> dcPc[q] \in DcPast
                           /\ dcPc'[q] # "idle" <=> dcPc[q] # "idle"
                           /\ dcPc'[q] \in {"fetch", "store"} <=> dcPc[q] \in {"fetch", "store"}
                           /\ dcPc'[q] \in DcCompleted <=> dcPc[q] \in DcCompleted
  BY <1>1, <1>4 DEF DcPast, DcCompleted
<1>7. DcLocks'
  <2>1. \A i \in DcInstances, k \in DcKeys : dcLock[i][k] \in DcReaders \cup {DcNoOne} BY <1>2 DEF DcTypes
  <2>2. \A i \in DcInstances, k \in DcKeys : dcLock[i][k] # DcNoOne =>
          dcPc'[dcLock[i][k]] \in DcPast /\ dcInst[dcLock[i][k]] = i /\ dcKey[dcLock[i][k]] = k
    BY <1>2, <1>6, <2>1 DEF DcLocks
  <2>3. \A q \in DcReaders : dcPc'[q] # "idle" => dcInst[q] \in DcInstances BY <1>2, <1>6 DEF DcLocks
  <2>4. \A q \in DcReaders : dcPc'[q] \in DcPast => dcLock[dcInst[q]][dcKey[q]] = q BY <1>2, <1>6 DEF DcLocks
  <2> QED BY <1>1, <2>2, <2>3, <2>4 DEF DcLocks
<1>8. DcOneInstance' BY <1>1, <1>2, <1>6 DEF DcOneInstance
<1>9. DcNothingLeft' BY <1>1, <1>2, <1>6 DEF DcNothingLeft
<1>10. DcOrder'
  <2> SUFFICES ASSUME ~dcDisturbed PROVE DcOrder'
    BY <1>1 DEF DcOrder
  <2>1. \A q \in DcReaders : dcPc[q] \in DcCompleted => q # r /\ dcData'[q] = dcData[q] /\ dcPc'[q] = dcPc[q]
    BY <1>1, <1>4 DEF DcCompleted
  <2>2. \A q \in DcReaders : dcPc'[q] \in DcCompleted \cup {"store"} => dcData'[q] <= dcOrigin[dcKey[q]]
    <3> SUFFICES ASSUME NEW q \in DcReaders, dcPc'[q] \in DcCompleted \cup {"store"} PROVE dcData'[q] <= dcOrigin[dcKey[q]]
      OBVIOUS
    <3>1. CASE q = r BY <1>3, <1>4, <3>1 DEF v
    <3>2. CASE q # r BY <1>2, <1>4, <3>2 DEF DcOrder
    <3> QED BY <3>1, <3>2
  <2>3. ASSUME NEW p \in DcReaders, NEW q \in DcReaders, dcPc'[p] \in DcCompleted, dcPc'[q] = "store", dcKey[p] = dcKey[q]
        PROVE  dcData'[p] <= dcData'[q]
    <3>1. dcPc[p] \in DcCompleted BY <1>6, <2>3
    <3>2. CASE q = r BY <1>2, <1>4, <2>1, <2>3, <3>1, <3>2 DEF DcOrder, v
    <3>3. CASE q # r BY <1>2, <1>4, <2>1, <2>3, <3>1, <3>3 DEF DcOrder
    <3> QED BY <3>2, <3>3
  <2>4. \A q \in DcReaders, row \in dcEntries : dcPc'[q] \in DcCompleted /\ dcKey[q] = row.key => dcData'[q] <= row.version
    BY <1>2, <1>6, <2>1 DEF DcOrder
  <2>5. ASSUME NEW p \in DcReaders, dcPc'[p] # "idle", dcNewest[p] # 0
        PROVE  \E q \in DcReaders : dcPc'[q] \in DcCompleted /\ dcKey[q] = dcKey[p] /\ dcData'[q] = dcNewest[p]
    <3>1. PICK q \in DcReaders : dcPc[q] \in DcCompleted /\ dcKey[q] = dcKey[p] /\ dcData[q] = dcNewest[p]
      BY <1>2, <1>6, <2>5 DEF DcOrder
    <3> QED BY <2>1, <3>1
  <2>6. \A p \in DcReaders : dcPc'[p] \in DcCompleted => dcNewest[p] <= dcData'[p] BY <1>2, <1>6, <2>1 DEF DcOrder
  <2>7. \A row \in dcEntries : row.version <= dcOrigin[row.key] BY <1>2 DEF DcOrder
  <2> QED BY <1>1, <2>2, <2>3, <2>4, <2>5, <2>6, <2>7 DEF DcOrder
<1> QED BY <1>5, <1>7, <1>8, <1>9, <1>10 DEF DcInv

\* What was fetched is stored and returned.
LEMMA DcSetKeeps == ASSUME DcInv, NEW r \in DcReaders, DcSet(r) PROVE DcInv'
<1> DEFINE k0 == dcKey[r]
           v == dcData[r]
           rows == DcAfterSet(k0, v, dcStamp[r], dcMade[dcInst[r]])
<1>1. /\ dcPc[r] = "store" /\ dcEntries' = rows /\ dcPc' = [dcPc EXCEPT ![r] = "fetched"] /\ dcLock' = DcReleased(r)
      /\ UNCHANGED <<dcOrigin, dcShared, dcOpened, dcKey, dcInst, dcData, dcThreads, dcDisturbed, dcNewest>>
  BY DEF DcSet, DcGoto, dcShare
<1>2. DcTypes /\ DcLocks /\ DcOneInstance /\ DcNothingLeft /\ DcOrder BY DEF DcInv
<1>3. dcPc' \in [DcReaders -> DcPlaces] /\ dcPc'[r] = "fetched" /\ \A q \in DcReaders \ {r} : dcPc'[q] = dcPc[q]
  BY <1>1, <1>2 DEF DcTypes, DcPlaces, DcOver
<1>4. DcLocks' /\ dcLock' \in [DcInstances -> [DcKeys -> DcReaders \cup {DcNoOne}]] BY <1>1, DcLeaves DEF DcOver
<1>5. k0 \in DcKeys /\ v \in DcVersions /\ v \in Int BY <1>1, <1>2 DEF DcTypes, DcVersions
<1>6. /\ \A row \in rows : DcIsRow(row)
      /\ \A a, b \in rows : a.key = b.key => a = b
      /\ \A row \in rows : (row \in dcEntries /\ row.key # k0) \/ (row.key = k0 /\ row.version = v)
  BY <1>2, <1>5, DcSetLeaves
<1> HIDE DEF rows, v, k0
<1>7. DcTypes' BY <1>1, <1>2, <1>3, <1>4, <1>6 DEF DcTypes
<1>8. DcOneInstance' BY <1>1, <1>2, <1>3 DEF DcOneInstance
<1>9. ~dcDisturbed => \A q \in DcReaders \ {r} : dcPc[q] \in DcPast => dcKey[q] # k0
  <2> SUFFICES ASSUME ~dcDisturbed, NEW q \in DcReaders \ {r}, dcPc[q] \in DcPast, dcKey[q] = k0 PROVE FALSE
    OBVIOUS
  <2>1. dcPc[r] \in DcPast /\ dcInst[q] = 1 /\ dcInst[r] = 1 BY <1>1, <1>2 DEF DcOneInstance, DcPast
  <2> QED BY <1>2, <2>1, DcExclusive DEF k0
<1>10. DcNothingLeft'
  <2> SUFFICES ASSUME ~dcDisturbed, NEW q \in DcReaders, dcPc'[q] \in {"fetch", "store"}, NEW row \in rows
               PROVE  row.key # dcKey[q]
    BY <1>1 DEF DcNothingLeft
  <2>1. q # r /\ dcPc[q] \in {"fetch", "store"} BY <1>3
  <2>2. dcKey[q] # k0 BY <1>9, <2>1 DEF DcPast
  <2> QED BY <1>2, <1>6, <2>1, <2>2 DEF DcNothingLeft
<1>11. DcOrder'
  <2> SUFFICES ASSUME ~dcDisturbed PROVE DcOrder'
    BY <1>1 DEF DcOrder
  <2>1. \A q \in DcReaders : dcPc'[q] \in DcCompleted => q = r \/ dcPc[q] \in DcCompleted BY <1>3
  <2>2. \A q \in DcReaders : dcPc[q] \in DcCompleted => dcPc'[q] \in DcCompleted BY <1>1, <1>3 DEF DcCompleted
  <2>3. \A q \in DcReaders : dcPc'[q] = "store" => dcPc[q] = "store" /\ q # r /\ dcKey[q] # k0 BY <1>3, <1>9 DEF DcPast
  <2>4. v <= dcOrigin[k0] BY <1>1, <1>2 DEF DcOrder, v, k0
  <2>5. \A q \in DcReaders : dcPc[q] \in DcCompleted /\ dcKey[q] = k0 => dcData[q] <= v BY <1>1, <1>2 DEF DcOrder, v, k0
  <2>6. \A row \in rows : row.version <= dcOrigin[row.key] BY <1>2, <1>6, <2>4 DEF DcOrder
  <2>7. \A q \in DcReaders : dcPc'[q] \in DcCompleted \cup {"store"} => dcData[q] <= dcOrigin[dcKey[q]]
    <3> SUFFICES ASSUME NEW q \in DcReaders, dcPc'[q] \in DcCompleted \cup {"store"} PROVE dcData[q] <= dcOrigin[dcKey[q]]
      OBVIOUS
    <3>1. CASE q = r BY <2>4, <3>1 DEF v, k0
    <3>2. CASE q # r BY <1>2, <1>3, <3>2 DEF DcOrder
    <3> QED BY <3>1, <3>2
  <2>8. \A p, q \in DcReaders : dcPc'[p] \in DcCompleted /\ dcPc'[q] = "store" /\ dcKey[p] = dcKey[q] =>
          dcData[p] <= dcData[q]
    BY <1>2, <2>1, <2>3 DEF DcOrder, k0
  <2>9. ASSUME NEW q \in DcReaders, NEW row \in rows, dcPc'[q] \in DcCompleted, dcKey[q] = row.key
        PROVE  dcData[q] <= row.version
    <3>1. CASE q = r BY <1>5, <1>6, <2>9, <3>1 DEF v, k0
    <3>2. CASE q # r /\ row.key = k0 BY <1>6, <2>1, <2>5, <2>9, <3>2
    <3>3. CASE q # r /\ row.key # k0 BY <1>2, <1>6, <2>1, <2>9, <3>3 DEF DcOrder
    <3> QED BY <3>1, <3>2, <3>3
  <2>10. ASSUME NEW p \in DcReaders, dcPc'[p] # "idle", dcNewest[p] # 0
         PROVE  \E q \in DcReaders : dcPc'[q] \in DcCompleted /\ dcKey[q] = dcKey[p] /\ dcData[q] = dcNewest[p]
    <3>1. dcPc[p] # "idle" BY <1>1, <1>3, <2>10
    <3>2. PICK q \in DcReaders : dcPc[q] \in DcCompleted /\ dcKey[q] = dcKey[p] /\ dcData[q] = dcNewest[p]
      BY <1>2, <2>10, <3>1 DEF DcOrder
    <3> QED BY <2>2, <3>2
  <2>11. dcNewest[r] <= v
    <3>1. CASE dcNewest[r] = 0 BY <1>5, <3>1 DEF DcVersions
    <3>2. CASE dcNewest[r] # 0
      <4>1. PICK q \in DcReaders : dcPc[q] \in DcCompleted /\ dcKey[q] = k0 /\ dcData[q] = dcNewest[r]
        BY <1>1, <1>2, <3>2 DEF DcOrder, k0
      <4> QED BY <2>5, <4>1
    <3> QED BY <3>1, <3>2
  <2>12. \A p \in DcReaders : dcPc'[p] \in DcCompleted => dcNewest[p] <= dcData[p] BY <1>2, <2>1, <2>11 DEF DcOrder, v
  <2> QED BY <1>1, <2>6, <2>7, <2>8, <2>9, <2>10, <2>12 DEF DcOrder
<1> QED BY <1>4, <1>7, <1>8, <1>10, <1>11 DEF DcInv

\* A call fails or is cancelled.
LEMMA DcEndsKeep == ASSUME DcInv, NEW r \in DcReaders, DcFail(r) \/ DcCancel(r) PROVE DcInv'
<1>1. /\ dcPc[r] \in {"lookup", "lock", "look again", "fetch", "store"} /\ dcPc' = [dcPc EXCEPT ![r] = "raised"]
      /\ dcLock' = DcReleased(r) /\ dcData' = [dcData EXCEPT ![r] = 0]
      /\ UNCHANGED <<dcEntries, dcOrigin, dcShared, dcOpened, dcKey, dcInst, dcNewest>>
  BY DEF DcFail, DcCancel, DcGoto, dcStore, dcShare, dcHistory
<1>2. DcTypes /\ DcLocks BY DEF DcInv
<1>3. dcKey[r] \in DcKeys /\ (dcPc[r] = "store" => dcData[r] \in DcVersions) BY <1>2 DEF DcTypes
<1> DEFINE th0 == [inst |-> dcInst[r], key |-> dcKey[r], stamp |-> dcStamp[r],
                   version |-> IF dcPc[r] = "store" THEN dcData[r] ELSE 0]
<1>4. /\ th0.key = dcKey[r] /\ th0.version = IF dcPc[r] = "store" THEN dcData[r] ELSE 0
  OBVIOUS
<1>5. /\ dcDisturbed' \in BOOLEAN /\ (dcDisturbed => dcDisturbed')
      /\ \A th \in dcThreads' : th \in dcThreads \/ (th = th0 /\ (dcPc[r] = "store" => dcDisturbed'))
  <2>1. CASE DcFail(r) BY <1>2, <2>1 DEF DcFail, DcTypes
  <2>2. CASE DcCancel(r)
    <3>1. /\ dcThreads' = (IF dcStamp[r] = 0 THEN dcThreads ELSE dcThreads \cup {th0})
          /\ dcDisturbed' = (dcDisturbed \/ (dcPc[r] = "store" /\ dcStamp[r] # 0))
      BY <2>2 DEF DcCancel
    <3> HIDE DEF th0
    <3>2. dcDisturbed \in BOOLEAN BY <1>2 DEF DcTypes
    <3> QED BY <3>1, <3>2
  <2> QED BY <2>1, <2>2
<1> HIDE DEF th0
<1>6. \A th \in dcThreads' : /\ th.key \in DcKeys /\ th.version \in DcVersions \cup {0}
                             /\ th \in dcThreads \/ th.version = 0 \/ dcDisturbed'
  BY <1>2, <1>3, <1>4, <1>5 DEF DcTypes
<1>7. DcLocks' /\ dcLock' \in [DcInstances -> [DcKeys -> DcReaders \cup {DcNoOne}]] BY <1>1, DcLeaves DEF DcOver
<1>8. dcData' \in [DcReaders -> 0..Len(DcSizeOf)] /\ \A q \in DcReaders \ {r} : dcData'[q] = dcData[q]
  <2>1. 0 \in 0..Len(DcSizeOf) BY DcCacheAssumption
  <2> QED BY <1>1, <1>2, <2>1 DEF DcTypes
<1> DEFINE rows == dcEntries
           place == "raised"
<1>9. DcFewer(rows) /\ dcEntries' = rows BY <1>1, <1>2, DcPartIsFewer
<1>10. /\ place \in DcPlaces \ {"idle", "store", "hit", "fetched"} /\ place # "fetch"
       /\ dcPc' = [dcPc EXCEPT ![r] = place]
  BY <1>1 DEF DcPlaces, DcOver
<1> HIDE DEF rows, place
<1> QED BY <1>1, <1>5, <1>6, <1>7, <1>8, <1>9, <1>10, DcCallGoes

\* A thread whose call was cancelled looks up, or stores.
LEMMA DcAbandonedKeeps == ASSUME DcInv, NEW th \in dcThreads, DcAbandoned(th) PROVE DcInv'
<1> DEFINE got == DcAfterGet(th.key, th.stamp)
           set == DcAfterSet(th.key, th.version, th.stamp, dcMade[th.inst])
<1>1. /\ dcThreads' = dcThreads \ {th}
      /\ dcEntries' = dcEntries \/ dcEntries' = got \/ (th.version # 0 /\ dcEntries' = set)
      /\ UNCHANGED <<dcOrigin, dcShared, dcOpened, dcPc, dcKey, dcInst, dcData, dcLock, dcDisturbed, dcNewest>>
  BY DEF DcAbandoned, dcShare
<1>2. DcTypes /\ DcLocks /\ DcOneInstance BY DEF DcInv
<1>3. th.key \in DcKeys /\ th.version \in DcVersions \cup {0} BY <1>2 DEF DcTypes
<1>4. dcEntries' \in {dcEntries, got} \/ (th.version # 0 /\ dcEntries' = set) BY <1>1
<1>5. CASE dcEntries' \in {dcEntries, got}
  <2>1. DcFewer(dcEntries') BY <1>2, <1>3, <1>5, DcPartIsFewer, DcGetIsFewer
  <2> DEFINE rows == dcEntries'
  <2>2. DcFewer(rows) /\ dcEntries' = rows BY <2>1
  <2>3. /\ dcOrigin' \in [DcKeys -> DcVersions] /\ \A k \in DcKeys : dcOrigin[k] <= dcOrigin'[k]
        /\ dcShared' \in 0..DcMaxInstances /\ dcDisturbed' \in BOOLEAN
    BY <1>1, <1>2 DEF DcTypes, DcVersions
  <2>4. \A other \in dcThreads' : other \in dcThreads BY <1>1
  <2> HIDE DEF rows
  <2> QED BY <1>1, <2>2, <2>3, <2>4, DcRowsOnly
<1>6. CASE th.version # 0 /\ dcEntries' = set
  <2>1. dcDisturbed BY <1>2, <1>6 DEF DcOneInstance
  <2>2. /\ \A row \in dcEntries' : DcIsRow(row)
        /\ \A a, b \in dcEntries' : a.key = b.key => a = b
    BY <1>2, <1>3, <1>6, DcSetLeaves
  <2>3. DcTypes' BY <1>1, <1>2, <2>2 DEF DcTypes
  <2>4. DcLocks' BY <1>1, <1>2 DEF DcLocks
  <2>5. DcOneInstance' /\ DcNothingLeft' /\ DcOrder' BY <1>1, <2>1 DEF DcOneInstance, DcNothingLeft, DcOrder
  <2> QED BY <2>3, <2>4, <2>5 DEF DcInv
<1> QED BY <1>4, <1>5, <1>6

\* The instance is closed, rows are deleted, an object is replaced, time passes.
LEMMA DcOthersKeep ==
    ASSUME DcInv, DcConfigure \/ DcDrop \/ DcTick \/ DcQuiet \/ (\E k \in DcKeys : DcOverwrite(k)) \/ UNCHANGED dcVars
    PROVE  DcInv'
<1>1. DcTypes BY DEF DcInv
<1>2. /\ dcEntries' \in SUBSET dcEntries
      /\ UNCHANGED <<dcOpened, dcLock, dcPc, dcKey, dcInst, dcData, dcNewest, dcThreads>>
      /\ UNCHANGED <<dcShared, dcDisturbed>> \/ (dcShared' = 0 /\ dcDisturbed' = TRUE)
  BY DEF DcConfigure, DcDrop, DcTick, DcQuiet, DcOverwrite, dcVars, dcStore, dcCalls, dcShare, dcHistory
<1>3. dcOrigin' \in [DcKeys -> DcVersions] /\ \A k \in DcKeys : dcOrigin[k] <= dcOrigin'[k]
  <2>1. CASE UNCHANGED dcOrigin BY <1>1, <2>1 DEF DcTypes, DcVersions
  <2>2. ASSUME NEW k \in DcKeys, DcOverwrite(k)
        PROVE  dcOrigin' \in [DcKeys -> DcVersions] /\ \A p \in DcKeys : dcOrigin[p] <= dcOrigin'[p]
    <3>1. dcOrigin[k] < Len(DcSizeOf) /\ dcOrigin' = [dcOrigin EXCEPT ![k] = dcOrigin[k] + 1] BY <2>2 DEF DcOverwrite
    <3>2. \A p \in DcKeys : dcOrigin[p] \in 1..Len(DcSizeOf) BY <1>1 DEF DcTypes, DcVersions
    <3>3. Len(DcSizeOf) \in Nat BY DcCacheAssumption
    <3>4. dcOrigin[k] + 1 \in 1..Len(DcSizeOf) BY <3>1, <3>2, <3>3
    <3>5. dcOrigin' \in [DcKeys -> DcVersions] BY <1>1, <3>1, <3>4 DEF DcTypes, DcVersions
    <3>6. \A p \in DcKeys : dcOrigin'[p] = IF p = k THEN dcOrigin[k] + 1 ELSE dcOrigin[p] BY <1>1, <3>1 DEF DcTypes
    <3> QED BY <3>2, <3>5, <3>6
  <2>3. UNCHANGED dcOrigin \/ \E k \in DcKeys : DcOverwrite(k)
    BY DEF DcConfigure, DcDrop, DcTick, DcQuiet, dcVars
  <2> QED BY <2>1, <2>2, <2>3
<1> DEFINE rows == dcEntries'
<1>4. DcFewer(rows) /\ dcEntries' = rows BY <1>1, <1>2, DcPartIsFewer
<1>5. /\ dcShared' \in 0..DcMaxInstances /\ dcDisturbed' \in BOOLEAN /\ (dcDisturbed => dcDisturbed')
      /\ ~dcDisturbed' => dcShared' = dcShared
  <2>1. 0 \in 0..DcMaxInstances BY DcCacheAssumption
  <2>2. dcShared \in 0..DcMaxInstances /\ dcDisturbed \in BOOLEAN BY <1>1 DEF DcTypes
  <2>3. CASE UNCHANGED <<dcShared, dcDisturbed>> BY <2>2, <2>3
  <2>4. CASE dcShared' = 0 /\ dcDisturbed' = TRUE BY <2>1, <2>4
  <2> QED BY <1>2, <2>3, <2>4
<1> HIDE DEF rows
<1>6. \A th \in dcThreads' : th \in dcThreads BY <1>2
<1> QED BY <1>2, <1>3, <1>4, <1>5, <1>6, DcRowsOnly

\* A thread reads the clock.
LEMMA DcStartKeeps == ASSUME DcInv, NEW r \in DcReaders, DcStart(r) PROVE DcInv'
<1>1. UNCHANGED <<dcEntries, dcOrigin, dcShared, dcOpened, dcPc, dcKey, dcInst, dcData, dcLock, dcThreads,
                  dcDisturbed, dcNewest>>
  BY DEF DcStart, dcStore, dcShare, dcHistory
<1> QED BY <1>1 DEF DcInv, DcTypes, DcLocks, DcOneInstance, DcNothingLeft, DcOrder

\* Every step keeps the invariant.
LEMMA DcStepKeeps == DcInv /\ [DcNext]_dcVars => DcInv'
<1> SUFFICES ASSUME DcInv, [DcNext]_dcVars PROVE DcInv'
  OBVIOUS
<1>1. ASSUME NEW r \in DcReaders, DcGet(r) PROVE DcInv'
  <2>1. CASE DcLookup(dcKey[r], dcStamp[r]) = {} BY <1>1, <2>1, DcMissKeeps
  <2>2. CASE DcLookup(dcKey[r], dcStamp[r]) # {} BY <1>1, <2>2, DcHitKeeps
  <2> QED BY <2>1, <2>2
<1>2. ASSUME NEW r \in DcReaders, DcCall(r) \/ DcStep(r) \/ DcCancel(r) PROVE DcInv'
  BY <1>1, <1>2, DcStartKeeps, DcCallKeeps, DcAcquireKeeps, DcFetchKeeps, DcSetKeeps, DcEndsKeep DEF DcStep
<1>3. ASSUME NEW th \in dcThreads, DcAbandoned(th) PROVE DcInv' BY <1>3, DcAbandonedKeeps
<1>4. CASE DcConfigure \/ DcDrop \/ DcTick \/ DcQuiet \/ (\E k \in DcKeys : DcOverwrite(k)) \/ UNCHANGED dcVars
  BY <1>4, DcOthersKeep
<1> QED BY <1>2, <1>3, <1>4 DEF DcNext

\* The store is empty and no call has begun.
LEMMA DcInitHolds == DcInit => DcInv
<1> SUFFICES ASSUME DcInit PROVE DcInv
  OBVIOUS
<1>1. 1 \in DcVersions BY DcCacheAssumption DEF DcVersions
<1>2. DcTypes
  <2>1. /\ dcEntries = {} /\ dcThreads = {} /\ dcDisturbed \in BOOLEAN
        /\ dcShared \in 0..DcMaxInstances /\ dcOpened \in 0..DcMaxInstances
    <3>1. 0 \in 0..DcMaxInstances BY DcCacheAssumption
    <3>2. dcEntries = {} /\ dcThreads = {} /\ dcDisturbed = FALSE /\ dcShared = 0 /\ dcOpened = 0 BY DEF DcInit
    <3>3. dcDisturbed \in BOOLEAN BY <3>2
    <3> QED BY <3>1, <3>2, <3>3
  <2>2. dcOrigin \in [DcKeys -> DcVersions] BY <1>1 DEF DcInit
  <2>3. dcLock \in [DcInstances -> [DcKeys -> DcReaders \cup {DcNoOne}]] BY DEF DcInit
  <2>4. /\ dcPc \in [DcReaders -> DcPlaces] /\ dcKey \in [DcReaders -> DcKeys]
        /\ dcInst \in [DcReaders -> 0..DcMaxInstances] /\ \A r \in DcReaders : dcPc[r] # "store"
    BY DcCacheAssumption DEF DcInit, DcPlaces
  <2>5. dcData \in [DcReaders -> 0..Len(DcSizeOf)] /\ dcNewest \in [DcReaders -> 0..Len(DcSizeOf)]
    BY DcCacheAssumption DEF DcInit
  <2> QED BY <2>1, <2>2, <2>3, <2>4, <2>5 DEF DcTypes
<1>3. \A r \in DcReaders : dcPc[r] = "idle" BY DEF DcInit
<1>4. DcLocks BY <1>3 DEF DcInit, DcLocks, DcPast
<1>5. DcOneInstance /\ DcNothingLeft BY <1>3 DEF DcInit, DcOneInstance, DcNothingLeft
<1>6. DcOrder BY <1>3 DEF DcInit, DcOrder, DcCompleted
<1> QED BY <1>2, <1>4, <1>5, <1>6 DEF DcInv

\* Concurrent reads of one key through one instance make one fetch, whoever
\* fails or is cancelled; no ended call keeps a lock.
THEOREM SingleFetch == DcSpec => []DcSingleFetch
<1>1. DcInv => DcSingleFetch
  <2> SUFFICES ASSUME DcInv PROVE DcSingleFetch
    OBVIOUS
  <2>1. DcLocks /\ DcNothingLeft BY DEF DcInv
  <2>2. \A q, r \in DcReaders : {dcPc[q], dcPc[r]} \subseteq {"look again", "fetch", "store"}
          /\ dcInst[q] = dcInst[r] /\ dcKey[q] = dcKey[r] => q = r
    BY <2>1, DcExclusive DEF DcPast
  <2>3. \A i \in DcInstances, k \in DcKeys :
          dcLock[i][k] # DcNoOne => dcPc[dcLock[i][k]] \in {"look again", "fetch", "store"}
    BY <2>1 DEF DcLocks, DcPast
  <2>4. \A r \in DcReaders : dcPc[r] \in {"fetch", "store"} /\ ~dcDisturbed => \A row \in dcEntries : row.key # dcKey[r]
    BY <2>1 DEF DcNothingLeft
  <2> QED BY <2>2, <2>3, <2>4 DEF DcSingleFetch
<1> QED BY <1>1, DcInitHolds, DcStepKeeps, PTL DEF DcSpec

\* A call never returns an older version than one returned before it began,
\* unless an instance was closed or a call cancelled while it stored.
THEOREM MonotonicReads == DcSpec => []DcMonotonicReads
<1>1. DcInv => DcMonotonicReads
  <2> SUFFICES ASSUME DcInv, NEW r \in DcReaders, dcPc[r] \in {"hit", "fetched"}, ~dcDisturbed
               PROVE  dcData[r] >= dcNewest[r]
    BY DEF DcMonotonicReads
  <2>1. dcNewest[r] <= dcData[r] BY DEF DcInv, DcOrder, DcCompleted
  <2> QED BY <2>1
<1> QED BY <1>1, DcInitHolds, DcStepKeeps, PTL DEF DcSpec

\* What instances were made with, and the times that were read.
DcSettled ==
    /\ dcClock \in Nat /\ dcMade \in [DcInstances -> DcSettings] /\ dcStamp \in [DcReaders -> Nat]
    /\ \A th \in dcThreads : th.inst \in DcInstances /\ th.stamp \in Nat

\* Settings are numbers.
LEMMA DcMadeIs == ASSUME NEW made \in DcSettings PROVE made.limit \in Nat /\ made.ttl \in Nat
<1>1. made \in [limit : Nat \ {0}, ttl : Nat] BY DcCacheAssumption
<1>2. made.limit \in Nat \ {0} /\ made.ttl \in Nat BY ONLY <1>1
<1> QED BY <1>2

\* Every step keeps them.
LEMMA DcSettledKept == DcInv /\ DcSettled /\ [DcNext]_dcVars => DcSettled'
<1> SUFFICES ASSUME DcInv, DcSettled, [DcNext]_dcVars PROVE DcSettled'
  OBVIOUS
<1>1. DcTypes /\ DcLocks BY DEF DcInv
<1>2. ASSUME NEW r \in DcReaders, DcCall(r) PROVE DcSettled'
  <2>1. UNCHANGED <<dcClock, dcStamp, dcThreads>> /\ DcGetCache BY <1>2 DEF DcCall, dcStore
  <2>2. dcMade' \in [DcInstances -> DcSettings]
    <3>1. CASE UNCHANGED dcMade BY <3>1 DEF DcSettled
    <3>2. CASE \E made \in DcSettings : dcMade' = [dcMade EXCEPT ![dcOpened + 1] = made] BY <3>2 DEF DcSettled
    <3> QED BY <2>1, <3>1, <3>2 DEF DcGetCache, dcShare
  <2> QED BY <2>1, <2>2 DEF DcSettled
<1>3. ASSUME NEW r \in DcReaders, DcStart(r) PROVE DcSettled'
  <2>1. UNCHANGED <<dcClock, dcMade, dcThreads>> /\ dcStamp' = [dcStamp EXCEPT ![r] = dcClock]
    BY <1>3 DEF DcStart, dcStore, dcShare
  <2> QED BY <2>1 DEF DcSettled
<1>4. ASSUME NEW r \in DcReaders, DcGet(r) \/ DcSet(r) \/ DcFail(r) PROVE DcSettled'
  <2>1. UNCHANGED <<dcClock, dcMade, dcThreads>> /\ dcStamp' = [dcStamp EXCEPT ![r] = 0]
    BY <1>4 DEF DcGet, DcSet, DcFail, dcStore, dcShare
  <2> QED BY <2>1 DEF DcSettled
<1>5. ASSUME NEW r \in DcReaders, DcCancel(r) PROVE DcSettled'
  <2> DEFINE version == IF dcPc[r] = "store" THEN dcData[r] ELSE 0
             th0 == [inst |-> dcInst[r], key |-> dcKey[r], stamp |-> dcStamp[r], version |-> version]
  <2>1. /\ UNCHANGED <<dcClock, dcMade>> /\ dcStamp' = [dcStamp EXCEPT ![r] = 0]
        /\ dcPc[r] # "idle" /\ dcThreads' = (IF dcStamp[r] = 0 THEN dcThreads ELSE dcThreads \cup {th0})
    BY <1>5 DEF DcCancel, dcStore, dcShare
  <2> HIDE DEF version
  <2>2. th0.inst \in DcInstances /\ th0.stamp \in Nat BY <1>1, <2>1 DEF DcLocks, DcSettled
  <2> HIDE DEF th0
  <2> QED BY <2>1, <2>2 DEF DcSettled
<1>6. ASSUME NEW th \in dcThreads, DcAbandoned(th) PROVE DcSettled'
  <2>1. UNCHANGED <<dcClock, dcMade, dcStamp>> /\ dcThreads' = dcThreads \ {th} BY <1>6 DEF DcAbandoned, dcShare
  <2> QED BY <2>1 DEF DcSettled
<1>7. CASE DcTick
  <2>1. dcClock' = dcClock + 1 /\ UNCHANGED <<dcMade, dcStamp, dcThreads>> BY <1>7 DEF DcTick, dcShare, dcCalls
  <2> QED BY <2>1 DEF DcSettled
<1>8. ASSUME NEW r \in DcReaders, DcAcquire(r) \/ DcFetch(r) PROVE UNCHANGED <<dcClock, dcMade, dcStamp, dcThreads>>
  BY <1>8 DEF DcAcquire, DcFetch, dcStore, dcShare
<1>9. ASSUME DcConfigure \/ DcDrop \/ DcQuiet \/ (\E k \in DcKeys : DcOverwrite(k)) \/ UNCHANGED dcVars
      PROVE  UNCHANGED <<dcClock, dcMade, dcStamp, dcThreads>>
  BY <1>9 DEF DcConfigure, DcDrop, DcQuiet, DcOverwrite, dcVars, dcStore, dcShare, dcCalls
<1>10. CASE UNCHANGED <<dcClock, dcMade, dcStamp, dcThreads>> BY <1>10 DEF DcSettled
<1> QED BY <1>2, <1>3, <1>4, <1>5, <1>6, <1>7, <1>8, <1>9, <1>10 DEF DcNext, DcStep

\* What a step does to the rows: it drops some, or is a lookup, or a set.
LEMMA DcStoreSteps ==
    ASSUME DcInv, DcSettled, [DcNext]_dcVars
    PROVE  \/ dcEntries' \in SUBSET dcEntries /\ UNCHANGED <<dcLastSet, dcBudget>>
           \/ \E k \in DcKeys, now \in Nat :
                dcEntries' = DcAfterGet(k, now) /\ UNCHANGED <<dcLastSet, dcBudget>>
           \/ \E k \in DcKeys, v \in DcVersions, now \in Nat, made \in DcSettings :
                dcEntries' = DcAfterSet(k, v, now, made) /\ DcSetNoted(k, v, now, made)
<1> DEFINE Drops == dcEntries' \in SUBSET dcEntries /\ UNCHANGED <<dcLastSet, dcBudget>>
           Gets(k, now) == dcEntries' = DcAfterGet(k, now) /\ UNCHANGED <<dcLastSet, dcBudget>>
           Sets(k, v, now, made) == dcEntries' = DcAfterSet(k, v, now, made) /\ DcSetNoted(k, v, now, made)
           AGet == \E k \in DcKeys, now \in Nat : Gets(k, now)
           ASet == \E k \in DcKeys, v \in DcVersions, now \in Nat, made \in DcSettings : Sets(k, v, now, made)
<1>1. DcTypes /\ DcLocks BY DEF DcInv
<1>2. ASSUME NEW r \in DcReaders, DcGet(r) PROVE AGet
  <2>1. Gets(dcKey[r], dcStamp[r]) BY <1>2 DEF DcGet, dcHistory
  <2>2. dcKey[r] \in DcKeys /\ dcStamp[r] \in Nat BY <1>1 DEF DcTypes, DcSettled
  <2> HIDE DEF Gets
  <2> QED BY <2>1, <2>2
<1>3. ASSUME NEW r \in DcReaders, DcSet(r) PROVE ASet
  <2>1. Sets(dcKey[r], dcData[r], dcStamp[r], dcMade[dcInst[r]]) /\ dcPc[r] = "store" BY <1>3 DEF DcSet
  <2>2. dcKey[r] \in DcKeys /\ dcStamp[r] \in Nat /\ dcData[r] \in DcVersions /\ dcInst[r] \in DcInstances
    BY <1>1, <2>1 DEF DcTypes, DcSettled, DcLocks
  <2>3. dcMade[dcInst[r]] \in DcSettings BY <2>2 DEF DcSettled
  <2> HIDE DEF Sets
  <2> QED BY <2>1, <2>2, <2>3
<1>4. ASSUME NEW th \in dcThreads, DcAbandoned(th) PROVE Drops \/ AGet \/ ASet
  <2>1. \/ Drops
        \/ Gets(th.key, th.stamp)
        \/ th.version # 0 /\ Sets(th.key, th.version, th.stamp, dcMade[th.inst])
    BY <1>4 DEF DcAbandoned
  <2>2. /\ th.key \in DcKeys /\ th.version \in DcVersions \cup {0}
        /\ th.stamp \in Nat /\ dcMade[th.inst] \in DcSettings
    BY <1>1 DEF DcTypes, DcSettled
  <2> HIDE DEF Drops, Gets, Sets
  <2> QED BY <2>1, <2>2
<1>5. ASSUME DcDrop PROVE Drops
  <2>1. dcEntries' \in {{row \in dcEntries : row.key # k} : k \in DcKeys} \cup {{}} BY <1>5 DEF DcDrop
  <2>2. dcEntries' \in SUBSET dcEntries BY <2>1
  <2>3. UNCHANGED <<dcLastSet, dcBudget>> BY <1>5 DEF DcDrop, dcHistory
  <2> QED BY <2>2, <2>3
<1>6. ASSUME NEW r \in DcReaders, DcCall(r) \/ DcStart(r) \/ DcAcquire(r) \/ DcFetch(r) \/ DcFail(r) \/ DcCancel(r)
      PROVE  Drops
  BY <1>6 DEF DcCall, DcStart, DcAcquire, DcFetch, DcFail, DcCancel, dcStore, dcHistory
<1>7. ASSUME DcConfigure \/ DcTick \/ DcQuiet \/ (\E k \in DcKeys : DcOverwrite(k)) \/ UNCHANGED dcVars
      PROVE  Drops
  BY <1>7 DEF DcConfigure, DcTick, DcQuiet, DcOverwrite, dcVars, dcStore, dcHistory
<1>8. Drops \/ AGet \/ ASet
  <2> HIDE DEF Drops, AGet, ASet
  <2> QED BY <1>2, <1>3, <1>4, <1>5, <1>6, <1>7 DEF DcNext, DcStep
<1> QED BY <1>8

\* A row expires a ttl, that of the instance that stored it, after its key was
\* last stored, however often it was read.
DcStamped ==
    /\ dcLastSet \in [DcKeys -> [at : Nat, ttl : Nat]]
    /\ \A row \in dcEntries :
         LET set == dcLastSet[row.key]
         IN  row.expires = IF set.ttl = 0 THEN 0 ELSE set.at + set.ttl

\* Every step keeps the stamps.
LEMMA DcStampsKept == DcInv /\ DcSettled /\ DcStamped /\ [DcNext]_dcVars => DcStamped'
<1> SUFFICES ASSUME DcInv, DcSettled, DcStamped, [DcNext]_dcVars PROVE DcStamped'
  OBVIOUS
<1>1. DcTypes BY DEF DcInv
<1>2. ASSUME DcFewer(dcEntries'), UNCHANGED dcLastSet PROVE DcStamped' BY <1>2 DEF DcStamped, DcFewer
<1>3. ASSUME NEW k \in DcKeys, NEW v \in DcVersions, NEW now \in Nat, NEW made \in DcSettings,
             dcEntries' = DcAfterSet(k, v, now, made), DcSetNoted(k, v, now, made)
      PROVE  DcStamped'
  <2>1. \A row \in dcEntries' :
          \/ row \in dcEntries /\ row.key # k
          \/ /\ DcFitsIn(v, made) /\ row.key = k
             /\ row.expires = (IF made.ttl = 0 THEN 0 ELSE now + made.ttl)
    BY <1>1, <1>3, DcSetLeaves
  <2>2. \A row \in dcEntries : row.key \in DcKeys BY <1>1 DEF DcTypes, DcIsRow
  <2>3. CASE ~DcFitsIn(v, made)
    <3>1. dcLastSet' = dcLastSet BY <1>3, <2>3 DEF DcSetNoted
    <3> QED BY <2>1, <2>3, <3>1 DEF DcStamped
  <2>4. CASE DcFitsIn(v, made)
    <3> DEFINE set == [at |-> now, ttl |-> made.ttl]
    <3>1. dcLastSet' = [dcLastSet EXCEPT ![k] = set] BY <1>3, <2>4 DEF DcSetNoted
    <3>2. set \in [at : Nat, ttl : Nat] /\ set.at = now /\ set.ttl = made.ttl BY DcMadeIs
    <3> HIDE DEF set
    <3>3. dcLastSet' \in [DcKeys -> [at : Nat, ttl : Nat]] BY <3>1, <3>2 DEF DcStamped
    <3>4. dcLastSet'[k] = set /\ \A q \in DcKeys \ {k} : dcLastSet'[q] = dcLastSet[q] BY <3>1 DEF DcStamped
    <3>5. ASSUME NEW row \in dcEntries'
          PROVE  row.expires = IF dcLastSet'[row.key].ttl = 0 THEN 0
                               ELSE dcLastSet'[row.key].at + dcLastSet'[row.key].ttl
      <4>1. CASE row.key = k BY <2>1, <3>2, <3>4, <4>1
      <4>2. CASE row.key # k BY <2>1, <2>2, <3>4, <4>2 DEF DcStamped
      <4> QED BY <4>1, <4>2
    <3> QED BY <3>3, <3>5 DEF DcStamped
  <2> QED BY <2>3, <2>4
<1>4. CASE dcEntries' \in SUBSET dcEntries /\ UNCHANGED dcLastSet BY <1>1, <1>2, <1>4, DcPartIsFewer
<1>5. ASSUME NEW k \in DcKeys, NEW now \in Nat, dcEntries' = DcAfterGet(k, now), UNCHANGED dcLastSet
      PROVE  DcStamped'
  <2>1. DcFewer(DcAfterGet(k, now)) BY <1>1, DcGetIsFewer
  <2> QED BY <1>2, <1>5, <2>1
<1> QED BY <1>3, <1>4, <1>5, DcStoreSteps

\* At first there are no rows, and no thread has read the clock.
LEMMA DcSettledInit == DcInit => DcSettled /\ DcStamped
<1> SUFFICES ASSUME DcInit PROVE DcSettled /\ DcStamped
  OBVIOUS
<1>1. DcSettings # {} BY DcCacheAssumption
<1>2. (CHOOSE made \in DcSettings : TRUE) \in DcSettings BY <1>1
<1>3. dcMade \in [DcInstances -> DcSettings] BY <1>2 DEF DcInit
<1>4. dcClock \in Nat /\ dcStamp \in [DcReaders -> Nat] /\ dcThreads = {} BY DEF DcInit
<1>5. dcLastSet \in [DcKeys -> [at : Nat, ttl : Nat]] /\ dcEntries = {} BY DEF DcInit
<1> QED BY <1>3, <1>4, <1>5 DEF DcSettled, DcStamped

\* A lookup is served only by a row that had been stored, when the lookup read the
\* clock, less than the ttl of the instance that stored it ago.
THEOREM ServedWithinTtl == DcSpec => DcServedWithinTtl
<1>1. DcInit => DcInv /\ DcSettled /\ DcStamped BY DcInitHolds, DcSettledInit
<1>2. DcInv /\ DcSettled /\ DcStamped /\ [DcNext]_dcVars => DcInv' /\ DcSettled' /\ DcStamped'
  BY DcStepKeeps, DcSettledKept, DcStampsKept
<1>3. DcInv /\ DcSettled /\ DcStamped /\ [DcNext]_dcVars =>
        [\A r \in DcReaders : LET set == dcLastSet[dcKey[r]]
                              IN  dcPc[r] # "hit" /\ dcPc'[r] = "hit" /\ set.ttl # 0 =>
                                    dcStamp[r] < set.at + set.ttl]_dcVars
  <2> SUFFICES ASSUME DcInv, DcSettled, DcStamped, [DcNext]_dcVars, NEW r \in DcReaders,
                      dcLastSet[dcKey[r]].ttl # 0, dcPc[r] # "hit", dcPc'[r] = "hit"
               PROVE  dcStamp[r] < dcLastSet[dcKey[r]].at + dcLastSet[dcKey[r]].ttl
    OBVIOUS
  <2>1. DcTypes BY DEF DcInv
  <2>2. ASSUME NEW q \in DcReaders, NEW place, place # "hit", dcPc' = [dcPc EXCEPT ![q] = place] PROVE FALSE
    BY <2>1, <2>2 DEF DcTypes
  <2>3. ASSUME UNCHANGED dcPc PROVE FALSE BY <2>3
  <2>4. ASSUME NEW q \in DcReaders,
               DcCall(q) \/ DcStart(q) \/ DcAcquire(q) \/ DcFetch(q) \/ DcSet(q) \/ DcFail(q) \/ DcCancel(q)
        PROVE  FALSE
    <3>1. UNCHANGED dcPc \/ \E place : place # "hit" /\ dcPc' = [dcPc EXCEPT ![q] = place]
      BY <2>4 DEF DcCall, DcStart, DcAcquire, DcFetch, DcSet, DcFail, DcCancel, DcGoto, DcUnderLock
    <3> QED BY <2>2, <2>3, <3>1
  <2>5. PICK q \in DcReaders : DcGet(q)
    <3>1. DcConfigure \/ DcDrop \/ DcTick \/ DcQuiet \/ (\E k \in DcKeys : DcOverwrite(k))
            \/ (\E th \in dcThreads : DcAbandoned(th)) \/ UNCHANGED dcVars => UNCHANGED dcPc
      BY DEF DcConfigure, DcDrop, DcTick, DcQuiet, DcOverwrite, DcAbandoned, dcVars, dcCalls
    <3> QED BY <2>3, <2>4, <3>1 DEF DcNext, DcStep
  <2>6. CASE DcLookup(dcKey[q], dcStamp[q]) = {}
    <3>1. \E place : place # "hit" /\ dcPc' = [dcPc EXCEPT ![q] = place] BY <2>5, <2>6 DEF DcGet, DcGoto
    <3> QED BY <2>2, <3>1
  <2>7. CASE DcLookup(dcKey[q], dcStamp[q]) # {}
    <3>1. dcPc' = [dcPc EXCEPT ![q] = "hit"] BY <2>5, <2>7 DEF DcGet, DcGoto
    <3>2. q = r BY <2>1, <3>1 DEF DcTypes
    <3>3. PICK row \in dcEntries : row.key = dcKey[r] /\ ~DcExpired(row, dcStamp[r]) BY <2>7, <3>2 DEF DcLookup
    <3>4. dcKey[r] \in DcKeys BY <2>1 DEF DcTypes
    <3> DEFINE set == dcLastSet[dcKey[r]]
    <3>5. row.expires = set.at + set.ttl BY <3>3 DEF DcStamped
    <3>6. set \in [at : Nat, ttl : Nat] BY <3>4 DEF DcStamped
    <3> HIDE DEF set
    <3>7. set.at \in Nat /\ set.ttl \in Nat BY <3>6
    <3>8. set.ttl # 0 BY DEF set
    <3>9. dcStamp[r] \in Nat BY DEF DcSettled
    <3>10. row.expires # 0 BY <3>5, <3>7, <3>8
    <3>11. ~(row.expires <= dcStamp[r]) BY <3>3, <3>10 DEF DcExpired
    <3>12. dcStamp[r] < set.at + set.ttl BY <3>5, <3>7, <3>9, <3>11
    <3> QED BY <3>12 DEF set
  <2> QED BY <2>6, <2>7
<1> QED BY <1>1, <1>2, <1>3, PTL DEF DcSpec, DcServedWithinTtl
-----------------------------------------------------------------------------
(* The bytes that rows use.                                                *)

DcFirst(rows) == CHOOSE row \in rows : TRUE
DcSize(row) == DcSizeOf[row.version]

\* g adds up the sizes of the subsets of rows one by one.
DcTally(rows, g) ==
    g = [s \in SUBSET rows |-> IF s = {} THEN 0 ELSE DcSize(DcFirst(s)) + g[s \ {DcFirst(s)}]]

\* DcUsed is such a sum.
LEMMA DcUsedIs == ASSUME NEW rows PROVE DcUsed(rows) = (CHOOSE tally : DcTally(rows, tally))[rows]
BY DEF DcUsed, MapThenSumSet, MapThenFoldSet, DcTally, DcFirst, DcSize

\* Of some subsets of a finite set one is smallest.
LEMMA SmallestOf ==
    ASSUME NEW W, IsFiniteSet(W), NEW Some \in SUBSET (SUBSET W), Some # {}
    PROVE  \E U \in Some : \A V \in Some : ~(Cardinality(V) < Cardinality(U))
<1> DEFINE R == {pair \in Nat \X Nat : pair[1] < pair[2]}
           T == {Cardinality(U) : U \in Some}
<1>1. IsWellFoundedOn(R, Nat) BY NatLessThanWellFounded DEF OpToRel
<1>2. \A U \in Some : Cardinality(U) \in Nat
  <2> SUFFICES ASSUME NEW U \in Some PROVE Cardinality(U) \in Nat
    OBVIOUS
  <2>1. U \in SUBSET W OBVIOUS
  <2> QED BY <2>1, FS_Subset, FS_CardinalityType
<1>3. T \subseteq Nat /\ T # {} BY <1>2
<1>4. \A x, y \in T : y < x => <<y, x>> \in R BY <1>3
<1>5. \A U \in Some : Cardinality(U) \in T OBVIOUS
<1>6. \A x \in T : \E U \in Some : x = Cardinality(U) OBVIOUS
<1> HIDE DEF R, T
<1>7. PICK x \in T : \A y \in T : <<y, x>> \notin R BY <1>1, <1>3, WFMin
<1>8. PICK U \in Some : x = Cardinality(U) BY <1>6
<1> QED BY <1>4, <1>5, <1>7, <1>8

\* A subset without one of its elements is a smaller one.
LEMMA OneLess ==
    ASSUME NEW W, IsFiniteSet(W), NEW U \in SUBSET W, NEW x \in U
    PROVE  Cardinality(U \ {x}) < Cardinality(U)
<1>1. IsFiniteSet(U) BY FS_Subset
<1>2. Cardinality(U \ {x}) = Cardinality(U) - 1 /\ Cardinality(U) \in Nat BY <1>1, FS_RemoveElement, FS_CardinalityType
<1> QED BY <1>2

\* What a tally says.
LEMMA DcTallySays ==
    ASSUME NEW U, NEW g, DcTally(U, g), NEW s \in SUBSET U
    PROVE  /\ s = {} => g[s] = 0
           /\ s # {} => g[s] = DcSize(DcFirst(s)) + g[s \ {DcFirst(s)}]
BY DEF DcTally

\* Two tallies agree.
LEMMA DcTalliesAgree ==
    ASSUME NEW U, IsFiniteSet(U), NEW V, NEW g, NEW h, DcTally(U, g), DcTally(V, h), NEW s \in SUBSET U, s \subseteq V
    PROVE  g[s] = h[s]
<1> DEFINE Some == {r \in SUBSET U : r \subseteq V /\ g[r] # h[r]}
<1>1. Some \in SUBSET (SUBSET U) OBVIOUS
<1>2. \A r \in SUBSET U : r \subseteq V /\ g[r] # h[r] <=> r \in Some OBVIOUS
<1> HIDE DEF Some
<1>3. ASSUME Some # {} PROVE FALSE
  <2>1. PICK r \in Some : \A q \in Some : ~(Cardinality(q) < Cardinality(r)) BY <1>1, <1>3, SmallestOf
  <2>2. r \in SUBSET U /\ r \in SUBSET V /\ g[r] # h[r] BY <1>1, <1>2, <2>1
  <2>3. r # {} BY <2>2, DcTallySays
  <2> DEFINE x == DcFirst(r)
             rest == r \ {x}
  <2>4. x \in r BY <2>3 DEF DcFirst
  <2>5. g[r] = DcSize(x) + g[rest] /\ h[r] = DcSize(x) + h[rest] BY <2>2, <2>3, DcTallySays
  <2> HIDE DEF x
  <2>6. Cardinality(rest) < Cardinality(r) BY <2>2, <2>4, OneLess
  <2>7. rest \in SUBSET U /\ rest \subseteq V BY <2>2
  <2>8. rest \notin Some BY <2>1, <2>6
  <2> HIDE DEF rest
  <2>9. g[rest] = h[rest] BY <1>2, <2>7, <2>8
  <2> QED BY <2>2, <2>5, <2>9
<1> QED BY <1>2, <1>3

\* A finite set of rows has a tally.
LEMMA DcTallyExists == ASSUME NEW W, IsFiniteSet(W) PROVE \A U \in SUBSET W : \E tally : DcTally(U, tally)
<1> DEFINE Some == {U \in SUBSET W : ~\E tally : DcTally(U, tally)}
<1>1. Some \in SUBSET (SUBSET W) OBVIOUS
<1>2. \A U \in SUBSET W : U \in Some <=> ~\E tally : DcTally(U, tally) OBVIOUS
<1> HIDE DEF Some
<1>3. ASSUME Some # {} PROVE FALSE
  <2>1. PICK U \in Some : \A V \in Some : ~(Cardinality(V) < Cardinality(U)) BY <1>1, <1>3, SmallestOf
  <2>2. U \in SUBSET W BY <1>1, <2>1
  <2> DEFINE of(s) == (CHOOSE tally : DcTally(s, tally))[s]
             g == [s \in SUBSET U |-> IF s # U THEN of(s) ELSE IF U = {} THEN 0
                                      ELSE DcSize(DcFirst(U)) + of(U \ {DcFirst(U)})]
  <2>3. ASSUME NEW s \in SUBSET U, s # U PROVE DcTally(s, CHOOSE tally : DcTally(s, tally))
    <3>1. PICK x \in U : x \notin s BY <2>3
    <3>2. s \in SUBSET (U \ {x}) BY <3>1
    <3>3. IsFiniteSet(U) BY <2>2, FS_Subset
    <3>4. IsFiniteSet(U \ {x}) BY <3>3, FS_RemoveElement
    <3>5. Cardinality(s) <= Cardinality(U \ {x}) BY <3>2, <3>4, FS_Subset
    <3>6. Cardinality(U \ {x}) < Cardinality(U) BY <2>2, OneLess
    <3>7. Cardinality(s) \in Nat /\ Cardinality(U \ {x}) \in Nat /\ Cardinality(U) \in Nat
      BY <3>2, <3>3, <3>4, FS_Subset, FS_CardinalityType
    <3>8. Cardinality(s) < Cardinality(U) BY <3>5, <3>6, <3>7
    <3>9. s \notin Some BY <2>1, <3>8
    <3>10. s \in SUBSET W BY <2>2
    <3>11. \E tally : DcTally(s, tally) BY <1>2, <3>9, <3>10
    <3> QED BY <3>11
  <2>4. ASSUME NEW s \in SUBSET U, s # U, s # {} PROVE of(s) = DcSize(DcFirst(s)) + of(s \ {DcFirst(s)})
    <3> DEFINE h == CHOOSE tally : DcTally(s, tally)
               x == DcFirst(s)
               r == s \ {x}
               k == CHOOSE tally : DcTally(r, tally)
    <3>1. DcTally(s, h) BY <2>3, <2>4
    <3>2. x \in s BY <2>4 DEF DcFirst
    <3>3. r \in SUBSET U /\ r # U BY <2>4, <3>2
    <3>4. DcTally(r, k) BY <2>3, <3>3
    <3>5. IsFiniteSet(s)
      <4>1. s \in SUBSET W BY <2>2
      <4> QED BY <4>1, FS_Subset
    <3>6. r \in SUBSET s OBVIOUS
    <3> HIDE DEF h, k
    <3>7. h[s] = DcSize(x) + h[r] BY <2>4, <3>1, DcTallySays
    <3> HIDE DEF r, x
    <3>8. h[r] = k[r] BY <3>1, <3>4, <3>5, <3>6, DcTalliesAgree
    <3>9. of(s) = h[s] /\ of(r) = k[r] BY DEF h, k
    <3>10. of(s) = DcSize(x) + of(r) BY <3>7, <3>8, <3>9
    <3> QED BY <3>10 DEF r, x
  <2>5. of({}) = 0 \/ U = {}
    <3>1. CASE U # {}
      <4>1. {} \in SUBSET U /\ {} # U BY <3>1
      <4>2. DcTally({}, CHOOSE tally : DcTally({}, tally)) BY <2>3, <4>1
      <4> QED BY <4>2, DcTallySays
    <3> QED BY <3>1
  <2> HIDE DEF of
  <2>6. ASSUME NEW s \in SUBSET U
        PROVE  g[s] = IF s = {} THEN 0 ELSE DcSize(DcFirst(s)) + g[s \ {DcFirst(s)}]
    <3>1. CASE s = {} BY <2>5, <3>1
    <3>2. CASE s # {}
      <4> DEFINE r == s \ {DcFirst(s)}
      <4>1. DcFirst(s) \in s BY <3>2 DEF DcFirst
      <4>2. r \in SUBSET U /\ r # U BY <4>1
      <4>3. g[r] = of(r) BY <4>2
      <4>4. g[s] = DcSize(DcFirst(s)) + of(r)
        <5>1. CASE s = U BY <3>2, <5>1
        <5>2. CASE s # U
          <6>1. g[s] = of(s) BY <5>2
          <6> QED BY <2>4, <3>2, <5>2, <6>1
        <5> QED BY <5>1, <5>2
      <4> HIDE DEF g
      <4> QED BY <3>2, <4>3, <4>4
    <3> QED BY <3>1, <3>2
  <2>7. g = [s \in SUBSET U |-> g[s]] OBVIOUS
  <2> HIDE DEF g
  <2>8. g = [s \in SUBSET U |-> IF s = {} THEN 0 ELSE DcSize(DcFirst(s)) + g[s \ {DcFirst(s)}]] BY <2>6, <2>7
  <2>9. DcTally(U, g) BY <2>8 DEF DcTally
  <2> QED BY <1>2, <2>1, <2>2, <2>9
<1> QED BY <1>2, <1>3

\* So it can be taken apart.
LEMMA DcUsedSteps ==
    ASSUME NEW W, IsFiniteSet(W)
    PROVE  /\ W = {} => DcUsed(W) = 0
           /\ W # {} => DcUsed(W) = DcSize(DcFirst(W)) + DcUsed(W \ {DcFirst(W)})
<1> DEFINE g == CHOOSE tally : DcTally(W, tally)
           x == DcFirst(W)
           r == W \ {x}
           h == CHOOSE tally : DcTally(r, tally)
<1>1. \A U \in SUBSET W : \E tally : DcTally(U, tally) BY DcTallyExists
<1>2. W \in SUBSET W /\ r \in SUBSET W OBVIOUS
<1>3. DcTally(W, g)
  <2>1. \E tally : DcTally(W, tally) BY <1>1, <1>2
  <2> QED BY <2>1
<1>4. DcTally(r, h)
  <2> HIDE DEF r
  <2>1. \E tally : DcTally(r, tally) BY <1>1, <1>2
  <2> QED BY <2>1
<1>5. DcUsed(W) = g[W] /\ DcUsed(r) = h[r] BY DcUsedIs
<1>6. (W = {} => g[W] = 0) /\ (W # {} => g[W] = DcSize(x) + g[r])
  <2> HIDE DEF g
  <2> QED BY <1>2, <1>3, DcTallySays
<1> HIDE DEF g, h, r
<1>7. g[r] = h[r]
  <2>1. r \in SUBSET W /\ r \subseteq r BY <1>2
  <2> QED BY <1>3, <1>4, <2>1, DcTalliesAgree
<1> HIDE DEF x
<1>8. W # {} => DcUsed(W) = DcSize(x) + DcUsed(r) BY <1>5, <1>6, <1>7
<1> QED BY <1>5, <1>6, <1>8 DEF r, x

\* Rows have sizes.
DcSized(rows) == \A row \in rows : DcSize(row) \in Nat \ {0}

\* The sum is a number.
LEMMA DcUsedIsNumber == ASSUME NEW W, IsFiniteSet(W), DcSized(W) PROVE \A U \in SUBSET W : DcUsed(U) \in Nat
<1> DEFINE Some == {U \in SUBSET W : DcUsed(U) \notin Nat}
<1>1. Some \in SUBSET (SUBSET W) OBVIOUS
<1>2. \A U \in SUBSET W : U \in Some <=> DcUsed(U) \notin Nat OBVIOUS
<1> HIDE DEF Some
<1>3. ASSUME Some # {} PROVE FALSE
  <2>1. PICK U \in Some : \A V \in Some : ~(Cardinality(V) < Cardinality(U)) BY <1>1, <1>3, SmallestOf
  <2>2. U \in SUBSET W /\ DcUsed(U) \notin Nat BY <1>1, <1>2, <2>1
  <2>3. IsFiniteSet(U) BY <2>2, FS_Subset
  <2>4. U # {} BY <2>2, <2>3, DcUsedSteps
  <2> DEFINE x == DcFirst(U)
             r == U \ {x}
  <2>5. x \in U BY <2>4 DEF DcFirst
  <2>6. DcUsed(U) = DcSize(x) + DcUsed(r) BY <2>3, <2>4, DcUsedSteps
  <2> HIDE DEF x
  <2>7. Cardinality(r) < Cardinality(U) BY <2>2, <2>5, OneLess
  <2>8. r \in SUBSET W BY <2>2
  <2> HIDE DEF r
  <2>9. r \notin Some BY <2>1, <2>7
  <2>10. DcUsed(r) \in Nat BY <1>2, <2>8, <2>9
  <2>11. DcSize(x) \in Nat BY <2>2, <2>5 DEF DcSized
  <2> QED BY <2>2, <2>6, <2>10, <2>11
<1> QED BY <1>2, <1>3

\* Any row may be counted first.
LEMMA DcUsedAny ==
    ASSUME NEW W, IsFiniteSet(W), DcSized(W)
    PROVE  \A U \in SUBSET W : \A x \in U : DcUsed(U) = DcSize(x) + DcUsed(U \ {x})
<1> DEFINE Some == {U \in SUBSET W : \E x \in U : DcUsed(U) # DcSize(x) + DcUsed(U \ {x})}
<1>1. Some \in SUBSET (SUBSET W) OBVIOUS
<1>2. \A U \in SUBSET W : U \in Some <=> \E x \in U : DcUsed(U) # DcSize(x) + DcUsed(U \ {x}) OBVIOUS
<1> HIDE DEF Some
<1>3. ASSUME Some # {} PROVE FALSE
  <2>1. PICK U \in Some : \A V \in Some : ~(Cardinality(V) < Cardinality(U)) BY <1>1, <1>3, SmallestOf
  <2>2. U \in SUBSET W BY <1>1, <2>1
  <2>3. PICK x \in U : DcUsed(U) # DcSize(x) + DcUsed(U \ {x}) BY <1>2, <2>1, <2>2
  <2>4. IsFiniteSet(U) BY <2>2, FS_Subset
  <2> DEFINE y == DcFirst(U)
             Ux == U \ {x}
             Uy == U \ {y}
             Uxy == U \ {x, y}
  <2>5. y \in U BY <2>3 DEF DcFirst
  <2>6. DcUsed(U) = DcSize(y) + DcUsed(Uy) BY <2>3, <2>4, DcUsedSteps
  <2> HIDE DEF y
  <2>7. x # y BY <2>3, <2>6
  <2>8. Cardinality(Ux) < Cardinality(U) /\ Cardinality(Uy) < Cardinality(U) BY <2>2, <2>3, <2>5, OneLess
  <2>9. Ux \in SUBSET W /\ Uy \in SUBSET W /\ Uxy \in SUBSET W BY <2>2
  <2>10. x \in Uy /\ Uy \ {x} = Uxy /\ y \in Ux /\ Ux \ {y} = Uxy BY <2>3, <2>5, <2>7
  <2>11. DcUsed(Uxy) \in Nat /\ DcSize(x) \in Nat /\ DcSize(y) \in Nat
    <3>1. DcSize(x) \in Nat /\ DcSize(y) \in Nat BY <2>2, <2>3, <2>5 DEF DcSized
    <3> HIDE DEF Uxy
    <3> QED BY <2>9, <3>1, DcUsedIsNumber
  <2> HIDE DEF Ux, Uy, Uxy
  <2>12. Ux \notin Some /\ Uy \notin Some BY <2>1, <2>8
  <2>13. DcUsed(Uy) = DcSize(x) + DcUsed(Uy \ {x}) BY <1>2, <2>9, <2>10, <2>12
  <2>14. DcUsed(Ux) = DcSize(y) + DcUsed(Ux \ {y}) BY <1>2, <2>9, <2>10, <2>12
  <2>15. DcUsed(U) # DcSize(x) + DcUsed(Ux) BY <2>3 DEF Ux
  <2>16. DcUsed(Uy) = DcSize(x) + DcUsed(Uxy) /\ DcUsed(Ux) = DcSize(y) + DcUsed(Uxy) BY <2>10, <2>13, <2>14
  <2> QED BY <2>6, <2>11, <2>15, <2>16
<1> QED BY <1>2, <1>3

\* Fewer rows use less.
LEMMA DcUsedLess ==
    ASSUME NEW W, IsFiniteSet(W), DcSized(W), NEW U \in SUBSET W
    PROVE  \A V \in SUBSET W : U \subseteq V => DcUsed(U) <= DcUsed(V)
<1> DEFINE Some == {V \in SUBSET W : U \subseteq V /\ ~(DcUsed(U) <= DcUsed(V))}
<1>1. Some \in SUBSET (SUBSET W) OBVIOUS
<1>2. \A V \in SUBSET W : V \in Some <=> U \subseteq V /\ ~(DcUsed(U) <= DcUsed(V)) OBVIOUS
<1> HIDE DEF Some
<1>3. \A V \in SUBSET W : DcUsed(V) \in Nat BY DcUsedIsNumber
<1>4. ASSUME Some # {} PROVE FALSE
  <2>1. PICK V \in Some : \A S \in Some : ~(Cardinality(S) < Cardinality(V)) BY <1>1, <1>4, SmallestOf
  <2>2. V \in SUBSET W BY <1>1, <2>1
  <2>3. U \subseteq V /\ ~(DcUsed(U) <= DcUsed(V)) BY <1>2, <2>1, <2>2
  <2>4. U # V BY <1>3, <2>3
  <2>5. PICK x \in V : x \notin U BY <2>3, <2>4
  <2> DEFINE r == V \ {x}
  <2>6. DcUsed(V) = DcSize(x) + DcUsed(r) BY <2>2, DcUsedAny
  <2>7. Cardinality(r) < Cardinality(V) BY <2>2, OneLess
  <2>8. r \in SUBSET W /\ U \subseteq r BY <2>2, <2>3, <2>5
  <2> HIDE DEF r
  <2>9. DcUsed(U) <= DcUsed(r) BY <1>2, <2>1, <2>7, <2>8
  <2>10. DcSize(x) \in Nat BY <2>2 DEF DcSized
  <2>11. DcUsed(r) \in Nat /\ DcUsed(U) \in Nat BY <1>3, <2>8
  <2> QED BY <2>3, <2>6, <2>9, <2>10, <2>11
<1> QED BY <1>2, <1>4

\* Rows that were accessed one after the other, of a size each.
DcTimes(rows) ==
    /\ IsFiniteSet(rows) /\ DcSized(rows)
    /\ \A row \in rows : row.accessed \in Nat
    /\ \A a, b \in rows : a.accessed = b.accessed => a = b

\* Some of them are such rows too.
LEMMA DcSomeTimes == ASSUME NEW rows, DcTimes(rows), NEW some \in SUBSET rows PROVE DcTimes(some)
<1>1. IsFiniteSet(some) BY FS_Subset DEF DcTimes
<1> QED BY <1>1 DEF DcTimes, DcSized

\* One of them was accessed last, and one first.
LEMMA DcExtremes ==
    ASSUME NEW rows, DcTimes(rows), rows # {}
    PROVE  /\ \E last \in rows : \A row \in rows : row.accessed <= last.accessed
           /\ \E first \in rows : \A row \in rows : first.accessed <= row.accessed
<1> DEFINE later(a) == {row \in rows : row.accessed >= a.accessed}
           earlier(a) == {row \in rows : row.accessed <= a.accessed}
<1>1. IsFiniteSet(rows) /\ \A row \in rows : row.accessed \in Nat BY DEF DcTimes
<1>2. ASSUME NEW S, NEW T, S \in SUBSET rows, T \in SUBSET S, NEW x \in S, x \notin T PROVE Cardinality(T) < Cardinality(S)
  <2>1. IsFiniteSet(S) /\ T \in SUBSET (S \ {x}) BY <1>1, <1>2, FS_Subset
  <2>2. IsFiniteSet(S \ {x}) /\ Cardinality(S \ {x}) < Cardinality(S) BY <1>1, <1>2, <2>1, OneLess, FS_RemoveElement
  <2>3. IsFiniteSet(T) BY <2>1, <2>2, FS_Subset
  <2>4. Cardinality(T) <= Cardinality(S \ {x}) BY <2>1, <2>2, FS_Subset
  <2>5. Cardinality(T) \in Nat /\ Cardinality(S \ {x}) \in Nat /\ Cardinality(S) \in Nat
    BY <2>1, <2>2, <2>3, FS_CardinalityType
  <2> QED BY <2>2, <2>4, <2>5
<1>3. \E last \in rows : \A row \in rows : row.accessed <= last.accessed
  <2> DEFINE Some == {later(a) : a \in rows}
  <2>1. Some \in SUBSET (SUBSET rows) /\ Some # {} OBVIOUS
  <2>2. \A U \in Some : \E a \in rows : U = later(a) OBVIOUS
  <2>3. \A a \in rows : later(a) \in Some OBVIOUS
  <2> HIDE DEF Some
  <2>4. PICK U \in Some : \A V \in Some : ~(Cardinality(V) < Cardinality(U)) BY <1>1, <2>1, SmallestOf
  <2>5. PICK last \in rows : U = later(last) BY <2>2
  <2>6. ASSUME NEW row \in rows, ~(row.accessed <= last.accessed) PROVE FALSE
    <3>1. later(row) \in SUBSET later(last) /\ last \in later(last) /\ last \notin later(row) BY <1>1, <2>6
    <3>2. later(last) \in SUBSET rows OBVIOUS
    <3>3. later(row) \in Some BY <2>3
    <3> HIDE DEF later
    <3>4. Cardinality(later(row)) < Cardinality(later(last)) BY <1>2, <3>1, <3>2
    <3> QED BY <2>4, <2>5, <3>3, <3>4
  <2> QED BY <2>6
<1>4. \E first \in rows : \A row \in rows : first.accessed <= row.accessed
  <2> DEFINE Some == {earlier(a) : a \in rows}
  <2>1. Some \in SUBSET (SUBSET rows) /\ Some # {} OBVIOUS
  <2>2. \A U \in Some : \E a \in rows : U = earlier(a) OBVIOUS
  <2>3. \A a \in rows : earlier(a) \in Some OBVIOUS
  <2> HIDE DEF Some
  <2>4. PICK U \in Some : \A V \in Some : ~(Cardinality(V) < Cardinality(U)) BY <1>1, <2>1, SmallestOf
  <2>5. PICK first \in rows : U = earlier(first) BY <2>2
  <2>6. ASSUME NEW row \in rows, ~(first.accessed <= row.accessed) PROVE FALSE
    <3>1. earlier(row) \in SUBSET earlier(first) /\ first \in earlier(first) /\ first \notin earlier(row) BY <1>1, <2>6
    <3>2. earlier(first) \in SUBSET rows OBVIOUS
    <3>3. earlier(row) \in Some BY <2>3
    <3> HIDE DEF earlier
    <3>4. Cardinality(earlier(row)) < Cardinality(earlier(first)) BY <1>2, <3>1, <3>2
    <3> QED BY <2>4, <2>5, <3>3, <3>4
  <2> QED BY <2>6
<1> QED BY <1>3, <1>4

\* The next access is later than all.
LEMMA DcNowIsLater ==
    ASSUME NEW rows, DcTimes(rows)
    PROVE  DcNow(rows) \in Nat /\ \A row \in rows : row.accessed < DcNow(rows)
<1> DEFINE S == {0} \cup {row.accessed : row \in rows}
<1>1. \A row \in rows : row.accessed \in Nat BY DEF DcTimes
<1>2. PICK n \in Nat : \A row \in rows : row.accessed <= n
  <2>1. CASE rows = {} BY <2>1
  <2>2. CASE rows # {} BY <1>1, <2>2, DcExtremes
  <2> QED BY <2>1, <2>2
<1>3. S \in SUBSET (0..n) /\ S # {} BY <1>1, <1>2
<1>4. \A row \in rows : row.accessed \in S OBVIOUS
<1>5. DcNow(rows) = 1 + Max(S) BY DEF DcNow
<1> HIDE DEF S
<1>6. Max(S) \in S /\ \A y \in S : y <= Max(S) BY <1>3, MaxOfSome
<1>7. Max(S) \in Nat
  <2>1. Max(S) \in 0..n BY <1>3, <1>6
  <2> HIDE DEF S
  <2> QED BY <2>1
<1> QED BY <1>1, <1>4, <1>5, <1>6, <1>7

\* What is kept fits into the room, is what was accessed last, and would not
\* fit with one row more.
LEMMA DcKeptFits ==
    ASSUME NEW rows, DcTimes(rows), NEW room \in Nat
    PROVE  /\ DcKept(rows, room) \subseteq rows /\ DcUsed(DcKept(rows, room)) <= room
           /\ \A a, b \in rows : a \notin DcKept(rows, room) /\ b.accessed <= a.accessed => b \notin DcKept(rows, room)
           /\ rows \ DcKept(rows, room) # {} =>
                \E latest \in rows \ DcKept(rows, room) :
                  /\ \A row \in rows \ DcKept(rows, room) : row.accessed <= latest.accessed
                  /\ \A row \in rows : row.accessed <= latest.accessed => row \notin DcKept(rows, room)
                  /\ DcUsed(DcKept(rows, room)) + DcSize(latest) > room
<1> DEFINE kept == DcKept(rows, room)
           later(a) == {recent \in rows : recent.accessed >= a.accessed}
<1>1. IsFiniteSet(rows) /\ DcSized(rows) /\ \A row \in rows : row.accessed \in Nat BY DEF DcTimes
<1>2. \A row \in rows : row \in kept <=> DcUsed(later(row)) <= room BY DEF DcKept
<1>3. kept \subseteq rows BY DEF DcKept
<1>4. \A U \in SUBSET rows : DcUsed(U) \in Nat BY <1>1, DcUsedIsNumber
<1>5. \A U, V \in SUBSET rows : U \subseteq V => DcUsed(U) <= DcUsed(V) BY <1>1, DcUsedLess
<1>6. \A row \in rows : later(row) \in SUBSET rows OBVIOUS
<1>7. \A a, b \in rows : b.accessed <= a.accessed => later(a) \subseteq later(b) BY <1>1
<1>8. \A a, b \in rows : b \in later(a) <=> b.accessed >= a.accessed OBVIOUS
<1> HIDE DEF kept, later
<1>9. DcUsed(kept) <= room
  <2>1. CASE kept = {}
    <3>1. DcUsed({}) = 0 BY FS_EmptySet, DcUsedSteps
    <3> QED BY <2>1, <3>1
  <2>2. CASE kept # {}
    <3>1. DcTimes(kept) BY <1>3, DcSomeTimes
    <3>2. PICK first \in kept : \A row \in kept : first.accessed <= row.accessed BY <2>2, <3>1, DcExtremes
    <3>3. kept \subseteq later(first) BY <1>1, <1>3, <1>8, <3>2
    <3>4. DcUsed(kept) <= DcUsed(later(first)) BY <1>3, <1>5, <1>6, <3>3
    <3>5. DcUsed(later(first)) <= room BY <1>2, <1>3
    <3>6. DcUsed(kept) \in Nat /\ DcUsed(later(first)) \in Nat BY <1>3, <1>4, <1>6
    <3> QED BY <3>4, <3>5, <3>6
  <2> QED BY <2>1, <2>2
<1>10. ASSUME NEW a \in rows, NEW b \in rows, a \notin kept, b.accessed <= a.accessed PROVE b \notin kept
  <2>1. DcUsed(later(a)) <= DcUsed(later(b)) BY <1>5, <1>6, <1>7, <1>10
  <2>2. DcUsed(later(a)) \in Nat /\ DcUsed(later(b)) \in Nat BY <1>4, <1>6
  <2> QED BY <1>2, <1>10, <2>1, <2>2
<1>11. ASSUME rows \ kept # {}
       PROVE  \E latest \in rows \ kept :
                /\ \A row \in rows \ kept : row.accessed <= latest.accessed
                /\ \A row \in rows : row.accessed <= latest.accessed => row \notin kept
                /\ DcUsed(kept) + DcSize(latest) > room
  <2> DEFINE gone == rows \ kept
  <2>1. gone \in SUBSET rows /\ gone # {} BY <1>11
  <2> HIDE DEF gone
  <2>2. DcTimes(gone) BY <2>1, DcSomeTimes
  <2>3. PICK latest \in gone : \A row \in gone : row.accessed <= latest.accessed BY <2>1, <2>2, DcExtremes
  <2>4. latest \in rows /\ latest \notin kept BY <2>3 DEF gone
  <2>5. \A row \in rows : row.accessed <= latest.accessed => row \notin kept BY <1>10, <2>4
  <2>6. \A row \in rows : row \in later(latest) <=> row \in kept \/ row = latest
    <3> SUFFICES ASSUME NEW row \in rows PROVE row \in later(latest) <=> row \in kept \/ row = latest
      OBVIOUS
    <3>1. row.accessed \in Nat /\ latest.accessed \in Nat BY <1>1, <2>4
    <3>2. row = latest => row \in later(latest) BY <1>8, <2>4, <3>1
    <3>3. row \in kept => row \in later(latest) BY <1>8, <2>4, <2>5, <3>1
    <3>4. row \in later(latest) /\ row \notin kept => row = latest
      <4> SUFFICES ASSUME row \in later(latest), row \notin kept PROVE row = latest
        OBVIOUS
      <4>1. row \in gone BY DEF gone
      <4>2. row.accessed = latest.accessed BY <1>8, <2>3, <2>4, <3>1, <4>1
      <4> QED BY <2>4, <4>2 DEF DcTimes
    <3> QED BY <3>2, <3>3, <3>4
  <2>7. later(latest) \ {latest} = kept
    <3>1. later(latest) \in SUBSET rows BY <1>6, <2>4
    <3> QED BY <1>3, <2>4, <2>6, <3>1
  <2>8. latest \in later(latest) /\ later(latest) \in SUBSET rows BY <1>6, <2>4, <2>6
  <2>9. DcUsed(later(latest)) = DcSize(latest) + DcUsed(kept)
    <3>1. DcUsed(later(latest)) = DcSize(latest) + DcUsed(later(latest) \ {latest}) BY <1>1, <2>8, DcUsedAny
    <3> QED BY <2>7, <3>1
  <2>10. ~(DcUsed(later(latest)) <= room) BY <1>2, <2>4
  <2>11. DcUsed(kept) \in Nat /\ DcSize(latest) \in Nat /\ DcUsed(later(latest)) \in Nat
    BY <1>1, <1>3, <1>4, <2>4, <2>8 DEF DcSized
  <2>12. DcUsed(kept) + DcSize(latest) > room BY <2>9, <2>10, <2>11
  <2> QED BY <2>3, <2>5, <2>12 DEF gone
<1> QED BY <1>3, <1>9, <1>10, <1>11 DEF kept

\* Rows within the budget.
DcFit(rows, budget) == DcTimes(rows) /\ budget \in Nat /\ DcUsed(rows) <= budget

\* Some of them are within it too.
LEMMA DcSomeFit ==
    ASSUME NEW rows, NEW budget, DcFit(rows, budget), NEW some \in SUBSET rows
    PROVE  DcFit(some, budget)
<1>1. DcTimes(some) BY DcSomeTimes DEF DcFit
<1>2. IsFiniteSet(rows) /\ DcSized(rows) BY DEF DcFit, DcTimes
<1>3. rows \in SUBSET rows OBVIOUS
<1>4. DcUsed(some) \in Nat /\ DcUsed(rows) \in Nat BY <1>2, <1>3, DcUsedIsNumber
<1>5. DcUsed(some) <= DcUsed(rows) BY <1>2, <1>3, DcUsedLess
<1> QED BY <1>1, <1>4, <1>5 DEF DcFit

\* A row that is accessed after them is one more.
LEMMA DcOneMore ==
    ASSUME NEW rows, DcTimes(rows), NEW new, DcSize(new) \in Nat \ {0}, new.accessed \in Nat,
           \A row \in rows : row.accessed < new.accessed
    PROVE  DcTimes(rows \cup {new}) /\ DcUsed(rows \cup {new}) = DcSize(new) + DcUsed(rows)
<1> DEFINE all == rows \cup {new}
<1>1. \A row \in rows : row.accessed \in Nat BY DEF DcTimes
<1>2. new \notin rows BY <1>1
<1>3. IsFiniteSet(all) BY FS_AddElement DEF DcTimes
<1>4. DcSized(all) BY DEF DcTimes, DcSized
<1>5. \A a, b \in all : a.accessed = b.accessed => a = b
  <2> SUFFICES ASSUME NEW a \in all, NEW b \in all, a.accessed = b.accessed PROVE a = b
    OBVIOUS
  <2>1. CASE a \in rows /\ b \in rows BY <2>1 DEF DcTimes
  <2>2. CASE a = new /\ b \in rows BY <1>1, <2>2
  <2>3. CASE b = new /\ a \in rows BY <1>1, <2>3
  <2> QED BY <2>1, <2>2, <2>3
<1>6. \A row \in all : row.accessed \in Nat BY <1>1
<1>7. all \in SUBSET all /\ new \in all /\ all \ {new} = rows BY <1>2
<1>8. DcTimes(all) BY <1>3, <1>4, <1>5, <1>6 DEF DcTimes
<1> HIDE DEF all
<1>9. DcUsed(all) = DcSize(new) + DcUsed(all \ {new}) BY <1>3, <1>4, <1>7, DcUsedAny
<1> QED BY <1>7, <1>8, <1>9 DEF all

\* A lookup keeps the rows within the budget.
LEMMA DcGetFits ==
    ASSUME DcTypes, NEW budget, DcFit(dcEntries, budget), NEW k \in DcKeys, NEW now
    PROVE  DcFit(DcAfterGet(k, now), budget)
<1> DEFINE others == {row \in dcEntries : row.key # k}
           time == DcNow(dcEntries)
           got == {[row EXCEPT !.accessed = time] : row \in DcLookup(k, now)}
<1>1. DcAfterGet(k, now) = others \cup got BY DEF DcAfterGet
<1>2. others \in SUBSET dcEntries /\ \A row \in others : row.key # k OBVIOUS
<1>3. \A row \in DcLookup(k, now) : row \in dcEntries /\ row.key = k BY DEF DcLookup
<1>4. CASE DcLookup(k, now) = {}
  <2>1. got = {} BY <1>4
  <2> HIDE DEF got, others
  <2>2. DcAfterGet(k, now) = others BY <1>1, <2>1
  <2> QED BY <1>2, <2>2, DcSomeFit
<1>5. CASE DcLookup(k, now) # {}
  <2>1. PICK old \in DcLookup(k, now) : TRUE BY <1>5
  <2>2. old \in dcEntries /\ old.key = k /\ DcIsRow(old) BY <1>3, <2>1 DEF DcTypes
  <2>3. DcLookup(k, now) = {old} BY <1>3, <2>1 DEF DcTypes
  <2> DEFINE new == [old EXCEPT !.accessed = time]
  <2>4. got = {new} BY <2>3
  <2>5. time \in Nat /\ \A row \in dcEntries : row.accessed < time BY DcNowIsLater DEF DcFit
  <2> HIDE DEF time
  <2>6. new.version = old.version BY <2>2, DcAccess
  <2>7. new.accessed = time
    <3> DEFINE a == old.key
               b == old.version
               c == old.accessed
               d == old.expires
    <3>1. old = [key |-> a, version |-> b, accessed |-> c, expires |-> d] BY <2>2 DEF DcIsRow
    <3> HIDE DEF a, b, c, d
    <3> QED BY <3>1
  <2> HIDE DEF new
  <2>8. DcSize(old) \in Nat \ {0} BY <2>2 DEF DcFit, DcTimes, DcSized
  <2>9. DcSize(new) = DcSize(old) BY <2>6 DEF DcSize
  <2>10. DcTimes(others) BY <1>2, DcSomeTimes DEF DcFit
  <2> DEFINE before == others \cup {old}
  <2>11. before \in SUBSET dcEntries /\ old \in before /\ before \ {old} = others BY <1>2, <2>2
  <2> HIDE DEF before, got, others
  <2>12. DcFit(before, budget) BY <2>11, DcSomeFit
  <2>13. DcUsed(before) = DcSize(old) + DcUsed(others)
    <3>1. IsFiniteSet(before) /\ DcSized(before) /\ before \in SUBSET before BY <2>12 DEF DcFit, DcTimes
    <3>2. DcUsed(before) = DcSize(old) + DcUsed(before \ {old}) BY <2>11, <3>1, DcUsedAny
    <3> QED BY <2>11, <3>2
  <2>14. \A row \in others : row.accessed < new.accessed BY <1>2, <2>5, <2>7
  <2>15. DcSize(new) \in Nat \ {0} /\ new.accessed \in Nat BY <2>5, <2>7, <2>8, <2>9
  <2>16. DcTimes(others \cup {new}) /\ DcUsed(others \cup {new}) = DcSize(new) + DcUsed(others)
    BY <2>10, <2>14, <2>15, DcOneMore
  <2>17. DcAfterGet(k, now) = others \cup {new} BY <1>1, <2>4
  <2> QED BY <2>9, <2>12, <2>13, <2>16, <2>17 DEF DcFit
<1> QED BY <1>4, <1>5

\* set keeps the rows within the budget, and says which ones it drops.
LEMMA DcSetFits ==
    ASSUME DcTypes, NEW budget, DcFit(dcEntries, budget), NEW k \in DcKeys, NEW v \in DcVersions,
           NEW now, NEW made \in DcSettings
    PROVE  /\ ~DcFitsIn(v, made) => /\ DcAfterSet(k, v, now, made) = DcLive(k, now)
                                    /\ DcFit(DcAfterSet(k, v, now, made), budget)
           /\ DcFitsIn(v, made) =>
                /\ DcFit(DcAfterSet(k, v, now, made), made.limit)
                /\ \E new : /\ new.key = k
                            /\ DcAfterSet(k, v, now, made) = DcKept(DcLive(k, now), DcRoom(v, made.limit)) \cup {new}
                /\ DcUsed(DcAfterSet(k, v, now, made)) =
                     DcSizeOf[v] + DcUsed(DcKept(DcLive(k, now), DcRoom(v, made.limit)))
                /\ DcRoom(v, made.limit) \in Nat
<1> DEFINE live == DcLive(k, now)
           limit == made.limit
           room == DcRoom(v, limit)
           kept == DcKept(live, room)
           time == DcNow(kept)
           new == DcRow(k, v, now, made.ttl, time)
           size == DcSizeOf[v]
           left == DcAfterSet(k, v, now, made)
<1>1. live \in SUBSET dcEntries BY DEF DcLive
<1>2. left = IF size <= limit THEN kept \cup {new} ELSE live BY DEF DcAfterSet, DcFitsIn
<1>3. size \in Nat \ {0} /\ limit \in Nat BY DcMadeIs, DcCacheAssumption DEF DcVersions
<1> HIDE DEF left, limit
<1>4. room = limit - size BY DEF DcRoom
<1>5. DcFit(live, budget)
  <2> HIDE DEF live
  <2> QED BY <1>1, DcSomeFit
<1>6. ASSUME ~(size <= limit) PROVE left = live /\ DcFit(left, budget) BY <1>2, <1>5, <1>6
<1>7. ASSUME size <= limit
      PROVE  /\ DcFit(left, limit) /\ room \in Nat /\ DcUsed(left) = size + DcUsed(kept)
             /\ \E n : n.key = k /\ left = kept \cup {n}
  <2>1. room \in Nat BY <1>3, <1>4, <1>7
  <2> HIDE DEF live, room
  <2>2. kept \subseteq live /\ DcUsed(kept) <= room BY <1>5, <2>1, DcKeptFits DEF DcFit
  <2> HIDE DEF kept
  <2>3. DcFit(kept, budget) BY <1>5, <2>2, DcSomeFit
  <2>4. time \in Nat /\ \A row \in kept : row.accessed < time BY <2>3, DcNowIsLater DEF DcFit
  <2> HIDE DEF time
  <2>5. new.key = k /\ new.version = v /\ new.accessed = time BY DEF DcRow
  <2> HIDE DEF new
  <2>6. DcSize(new) = size BY <2>5 DEF DcSize
  <2> HIDE DEF size
  <2>7. DcTimes(kept \cup {new}) /\ DcUsed(kept \cup {new}) = DcSize(new) + DcUsed(kept)
    BY <1>3, <2>3, <2>4, <2>5, <2>6, DcOneMore DEF DcFit
  <2>8. left = kept \cup {new} BY <1>2, <1>3, <1>7
  <2>9. DcUsed(kept) \in Nat
    <3>1. IsFiniteSet(kept) /\ DcSized(kept) /\ kept \in SUBSET kept BY <2>3 DEF DcFit, DcTimes
    <3> QED BY <3>1, DcUsedIsNumber
  <2>10. DcUsed(kept) + size <= limit BY <1>3, <1>4, <2>2, <2>9
  <2>11. DcFit(left, limit) BY <1>3, <2>6, <2>7, <2>8, <2>9, <2>10 DEF DcFit
  <2>12. DcUsed(left) = size + DcUsed(kept) BY <2>6, <2>7, <2>8
  <2>13. \E n : n.key = k /\ left = kept \cup {n} BY <2>5, <2>8
  <2> QED BY <2>1, <2>11, <2>12, <2>13
<1>8. DcFitsIn(v, made) <=> size <= limit BY DEF DcFitsIn, limit
<1> QED BY <1>6, <1>7, <1>8 DEF live, room, kept, size, left, limit

\* Every step keeps the rows within the budget.
LEMMA DcFitKept ==
    DcInv /\ DcSettled /\ DcFit(dcEntries, dcBudget) /\ [DcNext]_dcVars => DcFit(dcEntries, dcBudget)'
<1> SUFFICES ASSUME DcInv, DcSettled, DcFit(dcEntries, dcBudget), [DcNext]_dcVars PROVE DcFit(dcEntries', dcBudget')
  BY DEF DcFit, DcTimes, DcSized, DcSize
<1>1. DcTypes BY DEF DcInv
<1>2. CASE dcEntries' \in SUBSET dcEntries /\ UNCHANGED dcBudget BY <1>2, DcSomeFit
<1>3. ASSUME NEW k \in DcKeys, NEW now \in Nat, dcEntries' = DcAfterGet(k, now), UNCHANGED dcBudget
      PROVE  DcFit(dcEntries', dcBudget')
  BY <1>1, <1>3, DcGetFits
<1>4. ASSUME NEW k \in DcKeys, NEW v \in DcVersions, NEW now \in Nat, NEW made \in DcSettings,
             dcEntries' = DcAfterSet(k, v, now, made), DcSetNoted(k, v, now, made)
      PROVE  DcFit(dcEntries', dcBudget')
  <2>1. CASE DcFitsIn(v, made)
    <3>1. dcBudget' = made.limit BY <1>4, <2>1 DEF DcSetNoted
    <3>2. DcFit(DcAfterSet(k, v, now, made), made.limit) BY <1>1, <2>1, DcSetFits
    <3> QED BY <1>4, <3>1, <3>2
  <2>2. CASE ~DcFitsIn(v, made)
    <3>1. dcBudget' = dcBudget BY <1>4, <2>2 DEF DcSetNoted
    <3>2. DcFit(DcAfterSet(k, v, now, made), dcBudget) BY <1>1, <2>2, DcSetFits
    <3> QED BY <1>4, <3>1, <3>2
  <2> QED BY <2>1, <2>2
<1> QED BY <1>2, <1>3, <1>4, DcStoreSteps

\* The call that returns what it fetched is the one that stores.
LEMMA DcWhoStores ==
    ASSUME DcInv, [DcNext]_dcVars, NEW r \in DcReaders, dcPc[r] = "store", dcPc'[r] = "fetched"
    PROVE  DcSet(r)
<1>1. DcTypes BY DEF DcInv
<1>2. ASSUME NEW q \in DcReaders, NEW place, place # "fetched", dcPc' = [dcPc EXCEPT ![q] = place] PROVE FALSE
  BY <1>1, <1>2 DEF DcTypes
<1>3. ASSUME NEW q \in DcReaders,
             DcCall(q) \/ DcStart(q) \/ DcGet(q) \/ DcAcquire(q) \/ DcFetch(q) \/ DcFail(q) \/ DcCancel(q)
      PROVE  FALSE
  <2>1. UNCHANGED dcPc \/ \E place : place # "fetched" /\ dcPc' = [dcPc EXCEPT ![q] = place]
    BY <1>3 DEF DcCall, DcStart, DcGet, DcAcquire, DcFetch, DcFail, DcCancel, DcGoto, DcUnderLock
  <2> QED BY <1>2, <2>1
<1>4. PICK q \in DcReaders : DcSet(q)
  <2>1. DcConfigure \/ DcDrop \/ DcTick \/ DcQuiet \/ (\E k \in DcKeys : DcOverwrite(k))
          \/ (\E th \in dcThreads : DcAbandoned(th)) \/ UNCHANGED dcVars => UNCHANGED dcPc
    BY DEF DcConfigure, DcDrop, DcTick, DcQuiet, DcOverwrite, DcAbandoned, dcVars, dcCalls
  <2> QED BY <1>3, <2>1 DEF DcNext, DcStep
<1>5. dcPc' = [dcPc EXCEPT ![q] = "fetched"] BY <1>4 DEF DcSet, DcGoto
<1>6. q = r BY <1>1, <1>5 DEF DcTypes
<1> QED BY <1>4, <1>6

\* At first there are no rows.
LEMMA DcFitInit == DcInit => DcFit(dcEntries, dcBudget)
<1> SUFFICES ASSUME DcInit PROVE DcFit(dcEntries, dcBudget)
  OBVIOUS
<1>1. dcEntries = {} /\ dcBudget = 0 BY DEF DcInit
<1>2. IsFiniteSet({}) BY FS_EmptySet
<1>3. DcUsed({}) = 0 BY <1>2, DcUsedSteps
<1> QED BY <1>1, <1>2, <1>3 DEF DcFit, DcTimes, DcSized

\* The rows never exceed the budget; a store drops the least recently used ones,
\* and only when the budget requires it; a lookup is served within the ttl.
THEOREM LimitsKept == DcSpec => DcKeepsLimits
<1>1. DcInit => DcInv /\ DcSettled /\ DcFit(dcEntries, dcBudget) 
  BY DcInitHolds, DcSettledInit, DcFitInit
<1>2. DcInv /\ DcSettled /\ DcFit(dcEntries, dcBudget) /\ [DcNext]_dcVars =>
        DcInv' /\ DcSettled' /\ DcFit(dcEntries, dcBudget)'
  BY DcStepKeeps, DcSettledKept, DcFitKept
<1>3. DcFit(dcEntries, dcBudget) => DcWithinBudget BY DEF DcFit, DcWithinBudget
<1>4. DcInv /\ DcSettled /\ DcFit(dcEntries, dcBudget) /\ [DcNext]_dcVars =>
        [\A r \in DcReaders :
           dcPc[r] = "store" /\ dcPc'[r] = "fetched" /\ DcEvicted(r) # {} =>
           /\ DcFitsIn(dcData[r], dcMade[dcInst[r]])
           /\ \E latest \in DcEvicted(r) :
                /\ \A row \in DcEvicted(r) : row.accessed <= latest.accessed
                /\ \A row \in DcLive(dcKey[r], dcStamp[r]) : row.accessed <= latest.accessed => row \in DcEvicted(r)
                /\ DcUsed(dcEntries') + DcSizeOf[latest.version] > dcMade[dcInst[r]].limit]_dcVars
  <2> SUFFICES ASSUME DcInv, DcSettled, DcFit(dcEntries, dcBudget), [DcNext]_dcVars, NEW r \in DcReaders,
                      dcPc[r] = "store", dcPc'[r] = "fetched", DcEvicted(r) # {}
               PROVE  /\ DcFitsIn(dcData[r], dcMade[dcInst[r]])
                      /\ \E latest \in DcEvicted(r) :
                           /\ \A row \in DcEvicted(r) : row.accessed <= latest.accessed
                           /\ \A row \in DcLive(dcKey[r], dcStamp[r]) : row.accessed <= latest.accessed => row \in DcEvicted(r)
                           /\ DcUsed(dcEntries') + DcSizeOf[latest.version] > dcMade[dcInst[r]].limit
    OBVIOUS
  <2> DEFINE k == dcKey[r]
             v == dcData[r]
             now == dcStamp[r]
             made == dcMade[dcInst[r]]
             limit == made.limit
             live == DcLive(k, now)
             room == DcRoom(v, limit)
             kept == DcKept(live, room)
             gone == DcEvicted(r)
             left == DcAfterSet(k, v, now, made)
             size == DcSizeOf[v]
  <2>1. DcTypes /\ DcLocks BY DEF DcInv
  <2>2. dcEntries' = left BY DcWhoStores DEF DcSet
  <2>3. k \in DcKeys /\ v \in DcVersions /\ made \in DcSettings BY <2>1 DEF DcTypes, DcLocks, DcSettled
  <2>4. \A row \in live : row \in dcEntries /\ row.key # k BY DEF DcLive
  <2>5. \A row \in dcEntries : row \in gone <=> row \in live /\ \A other \in dcEntries' : other.key # row.key
    BY DEF DcEvicted, DcLive
  <2>6. gone \subseteq live BY DEF DcEvicted, DcLive
  <2>7. size \in Nat \ {0} /\ limit \in Nat BY <2>3, DcMadeIs, DcCacheAssumption DEF DcVersions
  <2>8. gone # {} OBVIOUS
  <2>9. \A a, b \in dcEntries : a.key = b.key => a = b BY <2>1 DEF DcTypes
  <2>10. live \in SUBSET dcEntries BY <2>4
  <2>11. room = limit - size BY DEF DcRoom
  <2>12. /\ ~DcFitsIn(v, made) => left = live
         /\ DcFitsIn(v, made) =>
              /\ \E new : new.key = k /\ left = kept \cup {new}
              /\ DcUsed(left) = size + DcUsed(kept)
              /\ room \in Nat
    <3> HIDE DEF k, v, now, made
    <3> QED BY <2>1, <2>3, DcSetFits
  <2> HIDE DEF k, v, now, made, limit, live, room, gone, left
  <2>13. DcFitsIn(v, made)
    <3> SUFFICES ASSUME ~DcFitsIn(v, made) PROVE FALSE
      OBVIOUS
    <3>1. dcEntries' = live BY <2>2, <2>12
    <3> QED BY <2>4, <2>5, <2>6, <2>8, <3>1
  <2>14. DcTimes(live) BY <2>10, DcSomeTimes DEF DcFit
  <2>15. kept \subseteq live BY DEF DcKept
  <2>16. live \ kept # {} =>
           \E latest \in live \ kept :
             /\ \A row \in live \ kept : row.accessed <= latest.accessed
             /\ \A row \in live : row.accessed <= latest.accessed => row \notin kept
             /\ DcUsed(kept) + DcSize(latest) > room
    BY <2>12, <2>13, <2>14, DcKeptFits
  <2>17. DcUsed(kept) \in Nat
    <3>1. IsFiniteSet(live) /\ DcSized(live) BY <2>14 DEF DcTimes
    <3> HIDE DEF kept
    <3> QED BY <2>15, <3>1, DcUsedIsNumber
  <2> HIDE DEF kept, size
  <2>18. PICK new : new.key = k /\ dcEntries' = kept \cup {new} BY <2>2, <2>12, <2>13
  <2>19. gone = live \ kept
    <3>1. ASSUME NEW row \in live PROVE row \in gone <=> row \notin kept
      <4>1. row \in dcEntries /\ row.key # k BY <2>4
      <4>2. row \in kept => row \notin gone BY <2>5, <2>18, <4>1
      <4>3. row \notin kept => row \in gone
        <5> SUFFICES ASSUME row \notin kept, NEW other \in dcEntries', other.key = row.key PROVE FALSE
          BY <2>5, <4>1
        <5>1. other \in kept BY <2>18, <4>1
        <5>2. other \in dcEntries BY <2>10, <2>15, <5>1
        <5> QED BY <2>9, <4>1, <5>1, <5>2
      <4> QED BY <4>2, <4>3
    <3> QED BY <2>6, <3>1
  <2>20. PICK latest \in gone :
           /\ \A row \in gone : row.accessed <= latest.accessed
           /\ \A row \in live : row.accessed <= latest.accessed => row \notin kept
           /\ DcUsed(kept) + DcSize(latest) > room
    BY <2>8, <2>16, <2>19
  <2>21. \A row \in live : row.accessed <= latest.accessed => row \in gone BY <2>19, <2>20
  <2>22. DcUsed(dcEntries') = size + DcUsed(kept) BY <2>2, <2>12, <2>13
  <2>23. DcSize(latest) \in Nat BY <2>6, <2>14 DEF DcTimes, DcSized
  <2>24. DcUsed(dcEntries') + DcSize(latest) > limit BY <2>7, <2>11, <2>17, <2>20, <2>22, <2>23
  <2> QED BY <2>13, <2>20, <2>21, <2>24 DEF k, v, now, made, limit, live, gone, size, DcSize
<1> QED BY <1>1, <1>2, <1>3, <1>4, ServedWithinTtl, PTL DEF DcSpec, DcKeepsLimits, DcLeastRecentlyUsed
-----------------------------------------------------------------------------
(* The types of both.                                                      *)

\* An entry is found by its path and its identity, and no other is.
LEMMA LcOneEntryKept ==
    ASSUME LcInv, [LcNext]_lcVars,
           \A e, f \in lcCache : e.path = f.path /\ e.id = f.id => e = f
    PROVE  \A e, f \in lcCache' : e.path = f.path /\ e.id = f.id => e = f
<1>1. CASE lcCache' \subseteq lcCache BY <1>1
<1>2. ASSUME NEW t \in LcTasks, LcStore(t)
      PROVE  \A e, f \in lcCache' : e.path = f.path /\ e.id = f.id => e = f
  <2> DEFINE new == [path |-> lcTask[t].path, id |-> lcTask[t].id, as |-> lcTask[t].as, at |-> lcNow,
                     rows |-> lcTask[t].rows, gone |-> lcTask[t].gone, moved |-> lcTask[t].moved,
                     late |-> lcTask[t].gone # lcGone[lcTask[t].path]]
  <2>1. lcCache' = {e \in lcCache : e.path # lcTask[t].path \/ e.id # lcTask[t].id} \cup {new}
    BY <1>2 DEF LcStore, LcStored
  <2>2. new.path = lcTask[t].path /\ new.id = lcTask[t].id OBVIOUS
  <2> HIDE DEF new
  <2> QED BY <2>1, <2>2
<1>3. ASSUME NEW t \in LcTasks, LcDrop(t) \/ LcDropTree(t) PROVE lcCache' \subseteq lcCache
  BY <1>3 DEF LcDrop, LcDropTree, LcDropped, LcTreeDropped
<1>4. ASSUME NEW t \in LcTasks, LcList(t) \/ LcCredentials(t) \/ LcServe(t) \/ LcReturn(t) \/ LcPut(t) \/ LcRmtree(t)
      PROVE  lcCache' \subseteq lcCache
  BY <1>4 DEF LcList, LcCredentials, LcServe, LcReturn, LcPut, LcRmtree
<1>5. LcEnvChange \/ LcTick \/ LcDone \/ UNCHANGED lcVars => lcCache' \subseteq lcCache
  BY DEF LcEnvChange, LcTick, LcDone, lcVars
<1> QED BY <1>1, <1>2, <1>3, <1>4, <1>5 DEF LcNext

\* Time and calls stay within their bounds.
LEMMA LcCountsKept ==
    ASSUME [LcNext]_lcVars, lcNow \in 0..LcMaxTime, lcCalls \in 0..LcMaxCalls
    PROVE  lcNow' \in 0..LcMaxTime /\ lcCalls' \in 0..LcMaxCalls
<1>1. LcMaxTime \in Nat /\ LcMaxCalls \in Nat BY LcAssumption
<1>2. ASSUME NEW t \in LcTasks, LcList(t) \/ LcPut(t) \/ LcRmtree(t)
      PROVE  lcNow' = lcNow /\ lcCalls < LcMaxCalls /\ lcCalls' = lcCalls + 1
  BY <1>2 DEF LcList, LcPut, LcRmtree, LcBegin
<1>3. ASSUME NEW t \in LcTasks, LcCredentials(t) \/ LcServe(t) \/ LcStore(t) \/ LcReturn(t) \/ LcDrop(t) \/ LcDropTree(t)
      PROVE  lcNow' = lcNow /\ lcCalls' = lcCalls
  BY <1>3 DEF LcCredentials, LcServe, LcStore, LcReturn, LcDrop, LcDropTree
<1>4. LcEnvChange \/ LcDone \/ UNCHANGED lcVars => lcNow' = lcNow /\ lcCalls' = lcCalls
  BY DEF LcEnvChange, LcDone, lcVars
<1>5. LcTick => lcNow < LcMaxTime /\ lcNow' = lcNow + 1 /\ lcCalls' = lcCalls BY DEF LcTick
<1> QED BY <1>1, <1>2, <1>3, <1>4, <1>5 DEF LcNext

\* The cached listings have their types; a path has one entry per identity.
LEMMA LcTypeInductive ==
    /\ LcInit => LcInv /\ LcTypeOK
    /\ LcInv /\ LcTypeOK /\ [LcNext]_lcVars => LcInv' /\ LcTypeOK'
<1>1. LcInit => LcInv /\ LcTypeOK
  <2> SUFFICES ASSUME LcInit PROVE LcTypeOK
    BY LcInitHolds
  <2>1. lcNow \in 0..LcMaxTime /\ lcCalls \in 0..LcMaxCalls BY LcAssumption DEF LcInit
  <2>2. LcTypes BY LcInitHolds DEF LcInv
  <2> QED BY <2>1, <2>2 DEF LcInit, LcTypeOK, LcTypes, LcCallRecords, LcMemos
<1>2. LcInv /\ LcTypeOK /\ [LcNext]_lcVars => LcInv' /\ LcTypeOK'
  <2> SUFFICES ASSUME LcInv, LcTypeOK, [LcNext]_lcVars PROVE LcInv' /\ LcTypeOK'
    OBVIOUS
  <2>1. LcInv' BY LcStepKeeps
  <2>2. lcNow' \in 0..LcMaxTime /\ lcCalls' \in 0..LcMaxCalls BY LcCountsKept DEF LcTypeOK
  <2>3. \A e, f \in lcCache' : e.path = f.path /\ e.id = f.id => e = f BY LcOneEntryKept DEF LcTypeOK
  <2> QED BY <2>1, <2>2, <2>3 DEF LcInv, LcTypes, LcCallRecords, LcMemos, LcTypeOK
<1> QED BY <1>1, <1>2

\* Only an instance that was shared is closed.
LEMMA DcClosedKept ==
    ASSUME DcInv, [DcNext]_dcVars, dcClosed \subseteq DcInstances
    PROVE  dcClosed' \subseteq DcInstances
<1>1. CASE DcConfigure
  <2>1. dcShared \in 0..DcMaxInstances /\ dcShared # 0 /\ dcClosed' = dcClosed \cup {dcShared} /\ DcMaxInstances \in Nat
    BY <1>1, DcCacheAssumption DEF DcConfigure, DcInv, DcTypes
  <2> QED BY <2>1 DEF DcInstances
<1>2. ASSUME NEW r \in DcReaders,
             DcCall(r) \/ DcStart(r) \/ DcGet(r) \/ DcAcquire(r) \/ DcFetch(r) \/ DcSet(r) \/ DcFail(r) \/ DcCancel(r)
      PROVE  dcClosed' = dcClosed
  BY <1>2 DEF DcCall, DcStart, DcGet, DcAcquire, DcFetch, DcSet, DcFail, DcCancel
<1>3. ASSUME NEW th \in dcThreads, DcAbandoned(th) PROVE dcClosed' = dcClosed BY <1>3 DEF DcAbandoned
<1>4. DcDrop \/ DcTick \/ DcQuiet \/ (\E k \in DcKeys : DcOverwrite(k)) \/ UNCHANGED dcVars => dcClosed' = dcClosed
  BY DEF DcDrop, DcTick, DcQuiet, DcOverwrite, dcVars
<1> QED BY <1>1, <1>2, <1>3, <1>4 DEF DcNext, DcStep

DcAllOfIt ==
    /\ DcInv /\ DcSettled /\ DcStamped
    /\ DcFit(dcEntries, dcBudget) /\ dcClosed \subseteq DcInstances

\* The cached downloads have their types; a key has one row.
LEMMA DcTypeInductive ==
    /\ DcInit => DcAllOfIt
    /\ DcAllOfIt /\ [DcNext]_dcVars => DcAllOfIt'
    /\ DcAllOfIt => DcTypeOK
<1>1. DcInit => DcAllOfIt
  <2>1. DcInit => dcClosed \subseteq DcInstances BY DEF DcInit
  <2> QED BY <2>1, DcInitHolds, DcSettledInit, DcFitInit DEF DcAllOfIt
<1>2. DcAllOfIt /\ [DcNext]_dcVars => DcAllOfIt' 
  BY DcStepKeeps, DcSettledKept, DcStampsKept, DcFitKept, DcClosedKept DEF DcAllOfIt
<1>3. DcAllOfIt => DcTypeOK
  <2> SUFFICES ASSUME DcAllOfIt PROVE DcTypeOK
    OBVIOUS
  <2>1. DcTypes BY DEF DcAllOfIt, DcInv
  <2>2. \A row \in dcEntries : row.expires \in Nat /\ row.accessed \in Nat
    <3> SUFFICES ASSUME NEW row \in dcEntries PROVE row.expires \in Nat /\ row.accessed \in Nat
      OBVIOUS
    <3> DEFINE set == dcLastSet[row.key]
    <3>1. row.key \in DcKeys BY <2>1 DEF DcTypes, DcIsRow
    <3>2. set \in [at : Nat, ttl : Nat] BY <3>1 DEF DcAllOfIt, DcStamped
    <3>3. row.expires = IF set.ttl = 0 THEN 0 ELSE set.at + set.ttl BY DEF DcAllOfIt, DcStamped
    <3> HIDE DEF set
    <3>4. set.at \in Nat /\ set.ttl \in Nat BY <3>2
    <3>5. row.expires \in Nat BY <3>3, <3>4
    <3>6. row.accessed \in Nat BY DEF DcAllOfIt, DcFit, DcTimes
    <3> QED BY <3>5, <3>6
  <2>3. ASSUME NEW row \in dcEntries
        PROVE  row \in [key : DcKeys, version : DcVersions, expires : Nat, accessed : Nat]
    <3> DEFINE k == row.key
               v == row.version
               e == row.expires
               a == row.accessed
    <3>1. row = [key |-> k, version |-> v, accessed |-> a, expires |-> e] /\ k \in DcKeys /\ v \in DcVersions
      BY <2>1 DEF DcTypes, DcIsRow
    <3>2. e \in Nat /\ a \in Nat BY <2>2
    <3> HIDE DEF k, v, e, a
    <3> QED BY <3>1, <3>2
  <2>4. \A a, b \in dcEntries : a.key = b.key \/ a.accessed = b.accessed => a = b
    BY <2>1 DEF DcTypes, DcAllOfIt, DcFit, DcTimes
  <2> QED BY <2>1, <2>3, <2>4 DEF DcTypeOK, DcTypes, DcAllOfIt, DcSettled, DcPlaces
<1> QED BY <1>1, <1>2, <1>3

\* Whatever the calls, threads and settings that meet in them, every variable of
\* the two caches keeps its type: a key has one row at most and no two rows were
\* accessed at once (cache.rs, DownloadCache), and a path has one listing per
\* identity (cloud.py, _list_entries).
THEOREM CachesTyped == Spec => []CachesTypeOK
<1> DEFINE Both == (suite = "listings" => LcInv /\ LcTypeOK) /\ (suite # "listings" => suite = "downloads" /\ DcAllOfIt)
<1>1. Init => Both BY LcTypeInductive, DcTypeInductive DEF Init
<1>2. Both /\ [Next]_allVars => Both'
  <2> SUFFICES ASSUME Both, [Next]_allVars PROVE Both'
    OBVIOUS
  <2>1. suite' = suite BY DEF Next, allVars
  <2>2. CASE suite = "listings"
    <3>1. [LcNext]_lcVars BY <2>2 DEF Next, allVars
    <3> QED BY <2>1, <2>2, <3>1, LcTypeInductive
  <2>3. CASE suite # "listings"
    <3>1. [DcNext]_dcVars BY <2>3 DEF Next, allVars
    <3> QED BY <2>1, <2>3, <3>1, DcTypeInductive
  <2> QED BY <2>2, <2>3
<1>3. Both => CachesTypeOK BY DcTypeInductive DEF CachesTypeOK
<1> QED BY <1>1, <1>2, <1>3, PTL DEF Spec
=============================================================================
