---------------------------- MODULE ListingCache ----------------------------
(***************************************************************************)
(* The cached directory listings of CloudPathMixin                         *)
(* (src/src/asanypath/cloud.py): _list_entries answers from a cache per    *)
(* path and identity for listing_cache_ttl seconds, otherwise it fetches   *)
(* and stores; write_bytes, unlink and recursive rmdir drop entries.       *)
(* Listings, writes and deletions of several tasks interleave at every     *)
(* request, and the environment that selects credentials changes: a call   *)
(* computes its identity when it begins, and S3 reads AWS_PROFILE for the  *)
(* request's credentials only in a later step (s3_get_credentials).        *)
(*                                                                         *)
(* A path is a prefix or a key; LcBelow relates a prefix to what is below  *)
(* it.  A listing is the set of keys below its path.                       *)
(***************************************************************************)
EXTENDS Integers, FiniteSets

CONSTANTS LcTasks,    \* tasks, each of which makes one call at a time
          LcPrefixes, \* directories
          LcKeys,     \* object keys
          LcBelow,    \* pairs <<prefix, path below it>>
          LcTtl,      \* listing_cache_ttl, in ticks
          LcMaxTime,  \* bound: ticks
          LcMaxCalls  \* bound: calls

LcPaths == LcPrefixes \cup LcKeys
LcIdentities == {"env1", "env2"}

ASSUME LcAssumption ==
    /\ LcBelow \subseteq LcPrefixes \X LcPaths /\ LcTtl \in Nat \ {0}
    /\ LcMaxTime \in Nat /\ LcMaxCalls \in Nat

VARIABLES lcStore,  \* the objects that exist
          lcEnv,    \* the credentials the environment selects now
          lcMemo,   \* _identity_memo: per path, the environment it was made in, the digest
          lcCache,  \* _listing_cache: entries of path, identity, time, rows
          lcNow,    \* time.monotonic()
          lcTask,   \* per task: its call and how far it is
          lcCalls,  \* calls so far
          lcGone    \* history: per path, deletions of its tree that have returned

lcVars == <<lcStore, lcEnv, lcMemo, lcCache, lcNow, lcTask, lcCalls, lcGone>>

LcIdle == [op |-> "idle", path |-> CHOOSE p \in LcPaths : TRUE, hit |-> FALSE,
           env |-> "env1", id |-> "env1", as |-> "env1", moved |-> FALSE, rows |-> {}, gone |-> 0]
LcRows(p) == {k \in lcStore : <<p, k>> \in LcBelow}

\* _identity_fingerprint: memoized; the digest is made again when the environment
\* is not the one of the memo (memo[1] == live).
LcFingerprintOnce(p) == IF lcMemo[p].live # "none" THEN lcMemo[p].id ELSE lcEnv
LcFingerprint(p) == IF lcMemo[p].live = lcEnv THEN lcMemo[p].id ELSE lcEnv

\* The entry may answer: not older than the time to live.
LcLive(e) == lcNow - e.at < LcTtl

\* Entries that can answer a call for path p.
LcHits(p) == {e \in lcCache : e.path = p /\ e.id = LcFingerprint(p) /\ LcLive(e)}

LcStoredBeside(t) ==
    lcCache \cup {[path |-> lcTask[t].path, id |-> lcTask[t].id, as |-> lcTask[t].as, at |-> lcNow,
                  rows |-> lcTask[t].rows, gone |-> lcTask[t].gone, moved |-> lcTask[t].moved,
                  late |-> FALSE]}

\* cache.setdefault(str(self), {})[identity] = (now, rows)
LcStored(t) ==
    LET call == lcTask[t]
    IN  {e \in lcCache : e.path # call.path \/ e.id # call.id}
          \cup {[path |-> call.path, id |-> call.id, as |-> call.as, at |-> lcNow,
                 rows |-> call.rows, gone |-> call.gone, moved |-> call.moved,
                 late |-> call.gone # lcGone[call.path]]}

\* _invalidate_listing: every identity, this path only.
LcDropped(p) == {e \in lcCache : e.path # p}

\* _invalidate_tree: this path and every path below it.
LcTreeDropped(p) == {e \in lcCache : e.path # p /\ <<p, e.path>> \notin LcBelow}

LcInit ==
    /\ lcStore = LcKeys /\ lcEnv = "env1" /\ lcMemo = [p \in LcPrefixes |-> [live |-> "none", id |-> "env1"]]
    /\ lcCache = {} /\ lcNow = 0
    /\ lcTask = [t \in LcTasks |-> LcIdle] /\ lcCalls = 0
    /\ lcGone = [p \in LcPaths |-> 0]

LcBegin(t, call) ==
    /\ lcTask[t].op = "idle" /\ lcCalls < LcMaxCalls
    /\ lcCalls' = lcCalls + 1
    /\ lcTask' = [lcTask EXCEPT ![t] = call]

\* iterdir or scandir: a cached listing of the caller's identity answers, else one
\* is to be fetched.
LcList(t) ==
    /\ \E p \in LcPrefixes, fresh \in BOOLEAN :
         LET hits == IF fresh THEN {} ELSE LcHits(p)
             call == [LcIdle EXCEPT !.op = "call", !.path = p, !.id = LcFingerprint(p),
                                    !.env = lcEnv, !.as = lcEnv, !.gone = lcGone[p]]
         IN  /\ \/ hits = {} /\ LcBegin(t, call)
                \/ \E e \in hits :
                     LcBegin(t, [call EXCEPT !.op = "listed", !.hit = TRUE, !.as = e.as, !.moved = e.moved,
                                             !.rows = e.rows, !.gone = e.gone])
             /\ lcMemo' = [lcMemo EXCEPT ![p] = [live |-> lcEnv, id |-> LcFingerprint(p)]]
    /\ UNCHANGED <<lcStore, lcEnv, lcCache, lcNow, lcGone>>

\* _get_native_kwargs: s3_get_credentials reads the environment when its future
\* runs, after _list_entries has the identity; the request goes out.
LcCredentials(t) ==
    /\ lcTask[t].op = "call"
    /\ lcTask' = [lcTask EXCEPT ![t].op = "fetch", ![t].as = lcEnv]
    /\ UNCHANGED <<lcStore, lcEnv, lcMemo, lcCache, lcNow, lcCalls, lcGone>>

\* The server answers a listing request.
LcServe(t) ==
    /\ lcTask[t].op = "fetch"
    /\ lcTask' = [lcTask EXCEPT ![t].op = "fetched", ![t].rows = LcRows(lcTask[t].path)]
    /\ UNCHANGED <<lcStore, lcEnv, lcMemo, lcCache, lcNow, lcCalls, lcGone>>

\* The task resumes with the rows and stores them.
LcStore(t) ==
    /\ lcTask[t].op = "fetched"
    /\ lcCache' = LcStored(t)
    /\ lcTask' = [lcTask EXCEPT ![t].op = "listed"]
    /\ UNCHANGED <<lcStore, lcEnv, lcMemo, lcNow, lcCalls, lcGone>>

\* The caller has the listing; it goes on to another call.
LcReturn(t) ==
    /\ lcTask[t].op \in {"listed", "emptied"}
    /\ lcTask' = [lcTask EXCEPT ![t] = LcIdle]
    /\ UNCHANGED <<lcStore, lcEnv, lcMemo, lcCache, lcNow, lcCalls, lcGone>>

\* write_bytes or unlink of a key: the request, then _invalidate_listing.
LcPut(t) ==
    /\ \E k \in LcKeys, there \in BOOLEAN :
         /\ LcBegin(t, [LcIdle EXCEPT !.op = "drop", !.path = k])
         /\ lcStore' = IF there THEN lcStore \cup {k} ELSE lcStore \ {k}
    /\ UNCHANGED <<lcEnv, lcMemo, lcCache, lcNow, lcGone>>

LcDrop(t) ==
    /\ lcTask[t].op = "drop"
    /\ lcCache' = LcDropped(lcTask[t].path)
    /\ lcTask' = [lcTask EXCEPT ![t] = LcIdle]
    /\ UNCHANGED <<lcStore, lcEnv, lcMemo, lcNow, lcCalls, lcGone>>

\* rmdir(recursive=True): _delete_tree, of which some deletes may fail, then
\* _invalidate_tree in any case.
LcRmtree(t) ==
    /\ \E p \in LcPrefixes, kept \in SUBSET LcKeys :
         /\ LcBegin(t, [LcIdle EXCEPT !.op = "dropTree", !.path = p])
         /\ lcStore' = lcStore \ (LcRows(p) \ kept)
    /\ UNCHANGED <<lcEnv, lcMemo, lcCache, lcNow, lcGone>>

LcDropTree(t) ==
    /\ lcTask[t].op = "dropTree"
    /\ lcCache' = LcTreeDropped(lcTask[t].path)
    /\ lcGone' = [p \in LcPaths |->
                    IF p = lcTask[t].path \/ <<lcTask[t].path, p>> \in LcBelow THEN lcGone[p] + 1
                    ELSE lcGone[p]]
    /\ lcTask' = [lcTask EXCEPT ![t].op = "emptied"]
    /\ UNCHANGED <<lcStore, lcEnv, lcMemo, lcNow, lcCalls>>

\* The environment names other credentials; it moved under the calls that have
\* their identity and not yet their credentials.
LcEnvChange ==
    /\ \E env \in LcIdentities : env # lcEnv /\ lcEnv' = env
    /\ lcTask' = [t \in LcTasks |-> IF lcTask[t].op = "call" THEN [lcTask[t] EXCEPT !.moved = TRUE]
                                    ELSE lcTask[t]]
    /\ lcCalls < LcMaxCalls
    /\ UNCHANGED <<lcStore, lcMemo, lcCache, lcNow, lcCalls, lcGone>>

LcTick ==
    /\ lcNow < LcMaxTime /\ lcNow' = lcNow + 1
    /\ UNCHANGED <<lcStore, lcEnv, lcMemo, lcCache, lcTask, lcCalls, lcGone>>

LcDone == lcNow = LcMaxTime /\ lcCalls = LcMaxCalls
            /\ (\A t \in LcTasks : lcTask[t].op = "idle") /\ UNCHANGED lcVars

LcNext ==
    \/ \E t \in LcTasks : LcList(t) \/ LcCredentials(t) \/ LcServe(t) \/ LcStore(t) \/ LcReturn(t) \/ LcPut(t)
                          \/ LcDrop(t) \/ LcRmtree(t) \/ LcDropTree(t)
    \/ LcEnvChange \/ LcTick \/ LcDone

LcSpec == LcInit /\ [][LcNext]_lcVars
-----------------------------------------------------------------------------
LcOps == {"idle", "call", "fetch", "fetched", "listed", "drop", "dropTree", "emptied"}

\* Every variable has its type; a path has one entry per identity.
LcTypeOK ==
    /\ lcStore \subseteq LcKeys /\ lcEnv \in LcIdentities
    /\ lcNow \in 0..LcMaxTime /\ lcCalls \in 0..LcMaxCalls
    /\ \A t \in LcTasks : lcTask[t].op \in LcOps /\ lcTask[t].rows \subseteq LcKeys
    /\ \A p \in LcPrefixes : lcMemo[p].live \in LcIdentities \cup {"none"} /\ lcMemo[p].id \in LcIdentities
    /\ \A e, f \in lcCache : e.path = f.path /\ e.id = f.id => e = f

\* A listing is fetched for, and later served to, nobody but the identity whose
\* credentials fetched it, whichever way the environment and the memo changed
\* between the fetch and the call; except one under whose fetch the environment
\* moved between the identity and the credentials.
LcOwnIdentity ==
    \A t \in LcTasks :
        lcTask[t].op \in {"fetch", "fetched", "listed"} /\ ~lcTask[t].moved => lcTask[t].as = lcTask[t].env

\* _list_entries: "Results are cached for listing_cache_ttl seconds, per identity":
\* what the cache answers a caller with was fetched with the caller's credentials.
LcPerIdentity == \A t \in LcTasks : lcTask[t].op = "listed" /\ lcTask[t].hit => lcTask[t].as = lcTask[t].env

\* Once a recursive rmdir has returned, no listing of its tree that was asked
\* for before is in the cache, for any identity; except one whose answer was
\* on its way, which the cache takes in afterwards.
LcTreeForgotten == \A e \in lcCache : e.gone = lcGone[e.path] \/ e.late

\* What the cache answers with is a listing the caller could have fetched.
LcRightListing == LcOwnIdentity /\ LcTreeForgotten
=============================================================================
