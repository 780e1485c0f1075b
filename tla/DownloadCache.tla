--------------------------- MODULE DownloadCache ---------------------------
(***************************************************************************)
(* The download cache: DownloadCache.get_or_fetch of                       *)
(* src/src/asanypath/cache.py over the SQLite store of rust/src/cache.rs,  *)
(* and the shared instance that configure_cache closes under its users.    *)
(*                                                                         *)
(* A call looks the key up in a thread, takes the key's lock in its        *)
(* instance, looks again, fetches, and stores in a thread.  Cancelling a   *)
(* call abandons its thread, which still runs.  A thread reads the clock   *)
(* first; then it waits for the mutex and for SQLite's write lock, and its *)
(* operation is one transaction that judges by the time it read.  Every    *)
(* instance has the size limit and the ttl of its day; all of them are on  *)
(* one directory.  Content is the version of the object that was fetched;  *)
(* versions have sizes, the length of the key included.                    *)
(***************************************************************************)
EXTENDS Integers, Sequences, FiniteSetsExt

CONSTANTS DcReaders,       \* calls of read_bytes(use_cache=True)
          DcKeys,          \* URL and identity
          DcSizeOf,        \* the size of each version of an object
          DcSettings,      \* the pairs of size_limit and ttl (in seconds; 0 stands for
                           \* None) that are configured
          DcMaxTime,       \* bound: the last second of the clock, which starts at 1
          DcMaxInstances,  \* bound: instances get_cache creates
          DcNoOne          \* the holder of a free lock

DcVersions == 1..Len(DcSizeOf)
DcInstances == 1..DcMaxInstances

\* DownloadCache::new refuses a limit that is not positive; a key is not empty.
ASSUME DcCacheAssumption ==
    /\ DcSettings \subseteq [limit : Nat \ {0}, ttl : Nat] /\ DcSettings # {}
    /\ DcMaxTime \in Nat /\ DcMaxInstances \in Nat
    /\ DcSizeOf \in Seq(Nat \ {0}) /\ DcSizeOf # <<>> /\ DcNoOne \notin DcReaders

VARIABLES dcEntries,    \* the rows of the table entries
          dcClock,      \* seconds
          dcOrigin,     \* the version of each object on its server
          dcShared,     \* the instance get_cache returns, 0 when there is none
          dcOpened,     \* how many instances there have been
          dcMade,       \* instance -> the limit and the ttl it was made with
          dcClosed,     \* the closed ones
          dcLock,       \* instance -> key -> the call that holds the lock
          dcPc,         \* where each call is
          dcKey,        \* its key
          dcInst,       \* its instance
          dcStamp,      \* the time its thread has read, 0 before the thread runs
          dcData,       \* the version in its hands, 0 for none
          dcThreads,    \* store operations whose callers have been cancelled
          dcDisturbed,  \* history: an instance was closed, or a call cancelled while storing
          dcNewest,     \* history: the newest version returned before the call began
          dcLastSet,    \* history: the clock and the ttl when each key's last row was set
          dcBudget      \* history: the limit of the instance that last kept a new row

dcStore == <<dcEntries, dcClock>>
dcShare == <<dcShared, dcOpened, dcMade>>
dcCalls == <<dcPc, dcKey, dcInst, dcStamp, dcData, dcLock, dcThreads>>
dcHistory == <<dcNewest, dcLastSet, dcBudget>>
dcVars  == <<dcStore, dcOrigin, dcShare, dcClosed, dcCalls, dcDisturbed, dcHistory>>

DcOver == {"hit", "fetched", "raised"}

\* COALESCE(MAX(accessed), 0) + 1
DcNow(rows) == 1 + Max({0} \cup {row.accessed : row \in rows})

DcRow(k, v, now, ttl, accessed) ==
    [key |-> k, version |-> v, accessed |-> accessed, expires |-> IF ttl = 0 THEN 0 ELSE now + ttl]

\* expires <= timestamp; NULL compares as not expired.
DcExpired(row, now) == row.expires # 0 /\ row.expires <= now

DcUsed(rows) == MapThenSumSet(LAMBDA row : DcSizeOf[row.version], rows)

\* The budget that is left for the other rows.
DcRoomTooSmall(v, limit) == limit - DcSizeOf[v] - 1
DcRoom(v, limit) == limit - DcSizeOf[v]

\* SUM(...) OVER (ORDER BY accessed DESC ROWS UNBOUNDED PRECEDING) is not above
\* the room that is left.
DcKept(rows, room) ==
    {row \in rows : DcUsed({recent \in rows : recent.accessed >= row.accessed}) <= room}

\* get: delete the key's row when it expired, mark it as accessed otherwise.
DcLookup(k, now) == {row \in dcEntries : row.key = k /\ ~DcExpired(row, now)}
DcAfterGet(k, now) ==
    {row \in dcEntries : row.key # k}
      \cup {[row EXCEPT !.accessed = DcNow(dcEntries)] : row \in DcLookup(k, now)}

\* set: delete the key's row and all expired ones, make room, insert.
DcLive(k, now) == {row \in dcEntries : row.key # k /\ ~DcExpired(row, now)}
DcFitsIn(v, made) == DcSizeOf[v] <= made.limit
DcAfterSet(k, v, now, made) ==
    LET kept == DcKept(DcLive(k, now), DcRoom(v, made.limit))
    IN  IF DcFitsIn(v, made) THEN kept \cup {DcRow(k, v, now, made.ttl, DcNow(kept))}
        ELSE DcLive(k, now)

\* What the histories say after a set.
DcSetNoted(k, v, now, made) ==
    IF DcFitsIn(v, made)
    THEN dcLastSet' = [dcLastSet EXCEPT ![k] = [at |-> now, ttl |-> made.ttl]] /\ dcBudget' = made.limit
    ELSE UNCHANGED <<dcLastSet, dcBudget>>

\* async with self._locks[key]
DcLockIgnored(i, k) == TRUE
DcLockFree(i, k) == dcLock[i][k] = DcNoOne

\* hit = await asyncio.to_thread(self._cache.get, key), once more under the lock.
DcUnderLockNoLook == "fetch"
DcUnderLock == "look again"

\* The lock is left with the call.
DcReleased(r) == [dcLock EXCEPT ![dcInst[r]][dcKey[r]] = IF @ = r THEN DcNoOne ELSE @]

DcGoto(r, place) == dcPc' = [dcPc EXCEPT ![r] = place]

-----------------------------------------------------------------------------
DcInit ==
    /\ dcEntries = {} /\ dcClock = 1
    /\ dcOrigin = [k \in DcKeys |-> 1]
    /\ dcShared = 0 /\ dcOpened = 0 /\ dcClosed = {}
    /\ dcMade = [i \in DcInstances |-> CHOOSE made \in DcSettings : TRUE]
    /\ dcLock = [i \in DcInstances |-> [k \in DcKeys |-> DcNoOne]]
    /\ dcPc = [r \in DcReaders |-> "idle"]
    /\ dcKey \in [DcReaders -> DcKeys]
    /\ dcInst = [r \in DcReaders |-> 0]
    /\ dcStamp = [r \in DcReaders |-> 0]
    /\ dcData = [r \in DcReaders |-> 0]
    /\ dcThreads = {}
    /\ dcDisturbed = FALSE
    /\ dcNewest = [r \in DcReaders |-> 0]
    /\ dcLastSet = [k \in DcKeys |-> [at |-> 0, ttl |-> 0]]
    /\ dcBudget = 0

\* get_cache creates the shared instance when there is none, with the limit and
\* the ttl that configure_cache or the environment has set by then.
DcGetCache ==
    \/ dcShared # 0 /\ UNCHANGED dcShare
    \/ /\ dcShared = 0 /\ dcOpened < DcMaxInstances
       /\ dcOpened' = dcOpened + 1 /\ dcShared' = dcOpened + 1
       /\ \E made \in DcSettings : dcMade' = [dcMade EXCEPT ![dcOpened + 1] = made]

\* read_bytes: get_or_fetch of the shared instance starts the first lookup.
DcCall(r) ==
    /\ dcPc[r] = "idle"
    /\ DcGetCache
    /\ dcInst' = [dcInst EXCEPT ![r] = dcShared']
    /\ dcNewest' = [dcNewest EXCEPT ![r] =
                    Max({0} \cup {dcData[q] : q \in {q \in DcReaders : dcKey[q] = dcKey[r]
                                                     /\ dcPc[q] \in {"hit", "fetched"}}})]
    /\ DcGoto(r, "lookup")
    /\ UNCHANGED <<dcStore, dcOrigin, dcClosed, dcKey, dcStamp, dcData, dcLock, dcThreads,
                   dcDisturbed, dcLastSet, dcBudget>>

\* The thread of a lookup or a store runs: let timestamp = now()?, before the
\* mutex of the instance and the transaction are its own.
DcStart(r) ==
    /\ dcPc[r] \in {"lookup", "look again", "store"} /\ dcStamp[r] = 0
    /\ dcStamp' = [dcStamp EXCEPT ![r] = dcClock]
    /\ UNCHANGED <<dcStore, dcOrigin, dcShare, dcClosed, dcPc, dcKey, dcInst, dcData, dcLock,
                   dcThreads, dcDisturbed, dcHistory>>

\* The transaction of the first lookup, or of the one under the lock.
DcGet(r) ==
    /\ dcPc[r] \in {"lookup", "look again"} /\ dcStamp[r] # 0
    /\ dcInst[r] \notin dcClosed
    /\ dcEntries' = DcAfterGet(dcKey[r], dcStamp[r])
    /\ \/ /\ \E row \in DcLookup(dcKey[r], dcStamp[r]) : dcData' = [dcData EXCEPT ![r] = row.version]
          /\ DcGoto(r, "hit")
          /\ dcLock' = DcReleased(r)
       \/ /\ DcLookup(dcKey[r], dcStamp[r]) = {}
          /\ DcGoto(r, IF dcPc[r] = "lookup" THEN "lock" ELSE "fetch")
          /\ UNCHANGED <<dcData, dcLock>>
    /\ dcStamp' = [dcStamp EXCEPT ![r] = 0]
    /\ UNCHANGED <<dcClock, dcOrigin, dcShare, dcClosed, dcKey, dcInst, dcThreads, dcDisturbed, dcHistory>>

\* The key's lock is free.
DcAcquire(r) ==
    /\ dcPc[r] = "lock"
    /\ DcLockFree(dcInst[r], dcKey[r])
    /\ dcLock' = [dcLock EXCEPT ![dcInst[r]][dcKey[r]] = r]
    /\ DcGoto(r, DcUnderLock)
    /\ UNCHANGED <<dcStore, dcOrigin, dcShare, dcClosed, dcKey, dcInst, dcStamp, dcData,
                   dcThreads, dcDisturbed, dcHistory>>

\* The server answers the fetch with what the object is at that moment.
DcFetch(r) ==
    /\ dcPc[r] = "fetch"
    /\ dcData' = [dcData EXCEPT ![r] = dcOrigin[dcKey[r]]]
    /\ DcGoto(r, "store")
    /\ UNCHANGED <<dcStore, dcOrigin, dcShare, dcClosed, dcKey, dcInst, dcStamp, dcLock,
                   dcThreads, dcDisturbed, dcHistory>>

\* The transaction of set; the data is returned.
DcSet(r) ==
    /\ dcPc[r] = "store" /\ dcStamp[r] # 0
    /\ dcInst[r] \notin dcClosed
    /\ dcEntries' = DcAfterSet(dcKey[r], dcData[r], dcStamp[r], dcMade[dcInst[r]])
    /\ DcSetNoted(dcKey[r], dcData[r], dcStamp[r], dcMade[dcInst[r]])
    /\ DcGoto(r, "fetched")
    /\ dcLock' = DcReleased(r)
    /\ dcStamp' = [dcStamp EXCEPT ![r] = 0]
    /\ UNCHANGED <<dcClock, dcOrigin, dcShare, dcClosed, dcKey, dcInst, dcData, dcThreads,
                   dcDisturbed, dcNewest>>

\* The fetch fails, or the store does: the instance was closed, or SQLite raised.
DcFail(r) ==
    /\ dcPc[r] \in {"lookup", "look again", "fetch", "store"}
    /\ DcGoto(r, "raised")
    /\ dcLock' = DcReleased(r)
    /\ dcStamp' = [dcStamp EXCEPT ![r] = 0] /\ dcData' = [dcData EXCEPT ![r] = 0]
    /\ UNCHANGED <<dcStore, dcOrigin, dcShare, dcClosed, dcKey, dcInst, dcThreads,
                   dcDisturbed, dcHistory>>

\* The call is cancelled: a thread that runs for it runs on, one that has not
\* started never does.
DcCancel(r) ==
    /\ dcPc[r] \in {"lookup", "lock", "look again", "fetch", "store"}
    /\ DcGoto(r, "raised")
    /\ dcLock' = DcReleased(r)
    /\ dcThreads' = IF dcStamp[r] = 0 THEN dcThreads
                    ELSE dcThreads \cup {[inst |-> dcInst[r], key |-> dcKey[r], stamp |-> dcStamp[r],
                                          version |-> IF dcPc[r] = "store" THEN dcData[r] ELSE 0]}
    /\ dcDisturbed' = (dcDisturbed \/ (dcPc[r] = "store" /\ dcStamp[r] # 0))
    /\ dcStamp' = [dcStamp EXCEPT ![r] = 0] /\ dcData' = [dcData EXCEPT ![r] = 0]
    /\ UNCHANGED <<dcStore, dcOrigin, dcShare, dcClosed, dcKey, dcInst, dcHistory>>

\* The transaction of an abandoned thread: a lookup, or a set.
DcAbandoned(t) ==
    /\ dcThreads' = dcThreads \ {t}
    /\ \/ t.inst \in dcClosed /\ UNCHANGED <<dcEntries, dcLastSet, dcBudget>>
       \/ /\ t.inst \notin dcClosed /\ t.version = 0
          /\ dcEntries' = DcAfterGet(t.key, t.stamp) /\ UNCHANGED <<dcLastSet, dcBudget>>
       \/ /\ t.inst \notin dcClosed /\ t.version # 0
          /\ dcEntries' = DcAfterSet(t.key, t.version, t.stamp, dcMade[t.inst])
          /\ DcSetNoted(t.key, t.version, t.stamp, dcMade[t.inst])
    /\ UNCHANGED <<dcClock, dcOrigin, dcShare, dcClosed, dcPc, dcKey, dcInst, dcStamp, dcData,
                   dcLock, dcDisturbed, dcNewest>>

\* configure_cache or reset_cache: close the shared instance and forget it; the
\* next one is made with other settings.
DcConfigure ==
    /\ dcShared # 0
    /\ dcClosed' = dcClosed \cup {dcShared}
    /\ dcShared' = 0
    /\ dcDisturbed' = TRUE
    /\ UNCHANGED <<dcStore, dcOrigin, dcOpened, dcMade, dcCalls, dcHistory>>

\* DownloadCache.delete or clear.
DcDrop ==
    /\ dcShared # 0
    /\ dcEntries' \in {{row \in dcEntries : row.key # k} : k \in DcKeys} \cup {{}}
    /\ UNCHANGED <<dcClock, dcOrigin, dcShare, dcClosed, dcCalls, dcDisturbed, dcHistory>>

\* Somebody replaces an object on its server.
DcOverwrite(k) ==
    /\ dcOrigin[k] < Len(DcSizeOf)
    /\ dcOrigin' = [dcOrigin EXCEPT ![k] = @ + 1]
    /\ UNCHANGED <<dcStore, dcShare, dcClosed, dcCalls, dcDisturbed, dcHistory>>

DcTick ==
    /\ dcClock < DcMaxTime
    /\ dcClock' = dcClock + 1
    /\ UNCHANGED <<dcEntries, dcOrigin, dcShare, dcClosed, dcCalls, dcDisturbed, dcHistory>>

DcStep(r) == DcStart(r) \/ DcGet(r) \/ DcAcquire(r) \/ DcFetch(r) \/ DcSet(r) \/ DcFail(r)

\* Nothing is left to do.
DcQuiet ==
    /\ \A r \in DcReaders :
         dcPc[r] \in DcOver \/ (dcPc[r] = "idle" /\ dcShared = 0 /\ dcOpened = DcMaxInstances)
    /\ dcThreads = {}
    /\ UNCHANGED dcVars

DcNext == \/ \E r \in DcReaders : DcCall(r) \/ DcStep(r) \/ DcCancel(r)
          \/ \E t \in dcThreads : DcAbandoned(t)
          \/ DcConfigure \/ DcDrop \/ DcTick \/ DcQuiet
          \/ \E k \in DcKeys : DcOverwrite(k)

DcSpec == DcInit /\ [][DcNext]_dcVars

-----------------------------------------------------------------------------
\* Every variable has its type; a key has one row at most, and no two rows were
\* accessed at once.
DcTypeOK ==
    /\ dcEntries \subseteq [key : DcKeys, version : DcVersions, expires : Nat, accessed : Nat]
    /\ \A a, b \in dcEntries : a.key = b.key \/ a.accessed = b.accessed => a = b
    /\ dcOrigin \in [DcKeys -> DcVersions]
    /\ dcShared \in 0..DcMaxInstances /\ dcClosed \subseteq DcInstances
    /\ dcLock \in [DcInstances -> [DcKeys -> DcReaders \cup {DcNoOne}]]
    /\ dcPc \in [DcReaders -> DcOver \cup {"idle", "lookup", "lock", "look again", "fetch", "store"}]
    /\ dcData \in [DcReaders -> 0..Len(DcSizeOf)]
    /\ dcMade \in [DcInstances -> DcSettings] /\ dcStamp \in [DcReaders -> Nat]

\* README: "Size-bounded": whichever calls, abandoned threads and instances store
\* at once, the rows never exceed the byte budget of the instance that kept the
\* last one.  (A limit that configure_cache lowers takes effect with the next row
\* that is kept: until then old rows may exceed it.)
DcWithinBudget == DcUsed(dcEntries) <= dcBudget

\* "Concurrent reads of the same key collapse to a single fetch within a cache
\* instance": two calls are never past the lock at once; whatever way a call ends
\* (hit, error, closed instance, cancellation) it does not keep the lock; and a
\* call that waited for it fetches only if its predecessor left nothing.
DcSingleFetch ==
    /\ \A q, r \in DcReaders :
         /\ {dcPc[q], dcPc[r]} \subseteq {"look again", "fetch", "store"}
         /\ dcInst[q] = dcInst[r] /\ dcKey[q] = dcKey[r]
         => q = r
    /\ \A i \in DcInstances, k \in DcKeys :
         dcLock[i][k] # DcNoOne => dcPc[dcLock[i][k]] \in {"look again", "fetch", "store"}
    /\ \A r \in DcReaders : dcPc[r] \in {"fetch", "store"} /\ ~dcDisturbed =>
         \A row \in dcEntries : row.key # dcKey[r]

\* A call never returns an older version than one that was returned before it
\* began, whatever expired, was evicted or dropped in between, as long as no
\* instance was closed and no call cancelled while it was storing.
DcMonotonicReads ==
    \A r \in DcReaders : dcPc[r] \in {"hit", "fetched"} /\ ~dcDisturbed => dcData[r] >= dcNewest[r]

\* "A cached object that changes upstream is served stale until it expires": a
\* lookup is served only by a row that, when the lookup read the clock, had been
\* stored less than ttl ago, the ttl being that of the instance that stored it,
\* however often the row was read and the settings changed since.
DcServedWithinTtl ==
    [][\A r \in DcReaders : LET set == dcLastSet[dcKey[r]]
                            IN  dcPc[r] # "hit" /\ dcPc'[r] = "hit" /\ set.ttl # 0 =>
                                  dcStamp[r] < set.at + set.ttl]_dcVars

\* The rows of other keys, live by the clock of call r, that a step drops.
DcEvicted(r) ==
    {row \in DcLive(dcKey[r], dcStamp[r]) : \A left \in dcEntries' : left.key # row.key}

\* "LRU-evicted": a store that drops live rows of other keys drops the least
\* recently used ones, and only when the budget of its instance requires it.
DcLeastRecentlyUsed ==
    [][\A r \in DcReaders :
         dcPc[r] = "store" /\ dcPc'[r] = "fetched" /\ DcEvicted(r) # {} =>
         /\ DcFitsIn(dcData[r], dcMade[dcInst[r]])
         /\ \E latest \in DcEvicted(r) :
              /\ \A row \in DcEvicted(r) : row.accessed <= latest.accessed
              /\ \A row \in DcLive(dcKey[r], dcStamp[r]) :
                   row.accessed <= latest.accessed => row \in DcEvicted(r)
              /\ DcUsed(dcEntries') + DcSizeOf[latest.version] > dcMade[dcInst[r]].limit]_dcVars

\* README: "Size-bounded, LRU-evicted", with a ttl: the three limits of the store
\* hold together, whichever calls and abandoned threads use it at once.
DcKeepsLimits == []DcWithinBudget /\ DcLeastRecentlyUsed /\ DcServedWithinTtl
=============================================================================
