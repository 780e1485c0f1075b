------------------------------- MODULE FtpPool -------------------------------
(***************************************************************************)
(* The connection pool of src/src/asanypath/ftp.py: _op takes the lock of  *)
(* the pool key, _ensure_client finds or logs in the pooled client with    *)
(* the path's password, the keyring's or the one the user types, and the   *)
(* operation is one request and its reply on that client's control         *)
(* connection, where replies come back in the order of the requests.       *)
(* disconnect_all closes every client and forgets clients and locks; a     *)
(* task may be cancelled at an await.                                      *)
(*                                                                         *)
(* Host, port, user and TLS are fixed, so a pool key is the password of    *)
(* the path, "none" when it has none; the keyring has one entry for all    *)
(* the keys.  aioftp, the server and the keyring are external.             *)
(***************************************************************************)
EXTENDS Integers, Sequences, FiniteSets

CONSTANTS FpTasks,      \* each does one operation
          FpMaxResets   \* bound on calls of disconnect_all

ASSUME FpAssumption == FpMaxResets \in Nat /\ IsFiniteSet(FpTasks)

VARIABLES fpLocks,   \* _CLIENT_LOCKS: the lock of each key, 0 when there is none
          fpMade,    \* locks made so far; a lock is its number
          fpHeld,    \* the locks that are held
          fpCache,   \* _CLIENT_CACHE: the client of each key, 0 when there is none
          fpClients, \* clients logged in so far; a client is its number
          fpClosed,  \* clients that were closed
          fpWire,    \* for each client, the requests whose reply was not read yet
          fpStore,   \* the keyring's entry
          fpTask,    \* for each task its place, key, lock, client and password
          fpGot,     \* whose reply each task read
          fpRefused, \* passwords of the keyring or the user that the server refused
          fpTerminal,\* _interactive()
          fpResets,  \* calls of disconnect_all
          fpRaced    \* a task was inside _op when it was cancelled or all were disconnected

fpVars == <<fpLocks, fpMade, fpHeld, fpCache, fpClients, fpClosed, fpWire, fpStore, fpTask,
            fpGot, fpRefused, fpTerminal, fpResets, fpRaced>>
fpPool == <<fpLocks, fpMade, fpCache, fpClients, fpClosed>>
fpFixed == <<fpTerminal, fpResets, fpRaced>>

\* The password of a path is an argument, its netrc entry, or missing; of the
\* passwords the server accepts "good" only, and "old" is one it accepted once.
FpPasswords == {"none", "good", "bad"}
FpEntries == {"none", "good", "old"}
FpLogsIn(password) == password = "good"

FpPlaces == {"idle", "wait", "ensure", "login", "asking", "again", "request", "reply", "ok", "failed"}

FpInit ==
    /\ fpLocks = [k \in FpPasswords |-> 0] /\ fpMade = 0 /\ fpHeld = {}
    /\ fpCache = [k \in FpPasswords |-> 0] /\ fpClients = 0 /\ fpClosed = {}
    /\ fpWire = [c \in 1..Cardinality(FpTasks) |-> <<>>]
    /\ fpStore \in FpEntries /\ fpTerminal \in BOOLEAN
    /\ fpTask = [t \in FpTasks |-> [at |-> "idle", key |-> "none", lock |-> 0, client |-> 0,
                                    password |-> "none", cached |-> FALSE]]
    /\ fpGot = [t \in FpTasks |-> {}] /\ fpRefused = {} /\ fpResets = 0 /\ fpRaced = FALSE

FpGo(t, place) == fpTask' = [fpTask EXCEPT ![t].at = place]
FpRelease(t) == fpHeld' = fpHeld \ {fpTask[t].lock}
FpEnd(t, place) == FpGo(t, place) /\ FpRelease(t)

\* _op: _CLIENT_LOCKS.setdefault(key, asyncio.Lock())
FpOp(t) ==
    /\ fpTask[t].at = "idle"
    /\ \E key \in FpPasswords :
         LET lock == IF fpLocks[key] = 0 THEN fpMade + 1 ELSE fpLocks[key]
         IN  /\ fpLocks' = [fpLocks EXCEPT ![key] = lock]
             /\ fpMade' = IF fpLocks[key] = 0 THEN lock ELSE fpMade
             /\ fpTask' = [fpTask EXCEPT ![t] = [@ EXCEPT !.at = "wait", !.key = key, !.lock = lock]]
    /\ UNCHANGED <<fpHeld, fpCache, fpClients, fpClosed, fpWire, fpStore, fpGot, fpRefused, fpFixed>>

\* async with lock
FpUnlocked(t) == TRUE
FpLockFree(t) == fpTask[t].lock \notin fpHeld

FpEnter(t) ==
    /\ fpTask[t].at = "wait" /\ FpLockFree(t)
    /\ fpHeld' = fpHeld \cup {fpTask[t].lock}
    /\ FpGo(t, "ensure")
    /\ UNCHANGED <<fpPool, fpWire, fpStore, fpGot, fpRefused, fpFixed>>

\* _ensure_client: the pooled client, or the password to log in with.
FpEnsure(t) ==
    /\ fpTask[t].at = "ensure"
    /\ LET key == fpTask[t].key
           cached == key = "none" /\ fpTerminal /\ fpStore # "none"
       IN  fpTask' = [fpTask EXCEPT ![t] =
               IF fpCache[key] # 0 THEN [@ EXCEPT !.at = "request", !.client = fpCache[key]]
               ELSE [@ EXCEPT !.at = "login", !.cached = cached,
                              !.password = IF cached THEN fpStore ELSE key]]
    /\ UNCHANGED <<fpPool, fpHeld, fpWire, fpStore, fpGot, fpRefused, fpFixed>>

\* _connect_and_login succeeded: the client is pooled; a password the user
\* typed is saved.
FpSaved(t) == IF fpTask[t].at = "again" THEN fpTask[t].password ELSE fpStore

FpLoggedIn(t) ==
    /\ fpTask[t].at \in {"login", "again"} /\ FpLogsIn(fpTask[t].password)
    /\ fpClients' = fpClients + 1
    /\ fpCache' = [fpCache EXCEPT ![fpTask[t].key] = fpClients']
    /\ fpStore' = FpSaved(t)
    /\ fpTask' = [fpTask EXCEPT ![t] = [@ EXCEPT !.at = "request", !.client = fpClients']]
    /\ UNCHANGED <<fpLocks, fpMade, fpHeld, fpClosed, fpWire, fpGot, fpRefused, fpFixed>>

\* It raised StatusCodeError, and the client was closed: the keyring's
\* password is forgotten, and the user is asked, once.
FpForget(t) == IF fpTask[t].cached THEN "none" ELSE fpStore

FpRefuse(t) ==
    /\ fpTask[t].at \in {"login", "again"} /\ ~FpLogsIn(fpTask[t].password)
    /\ fpRefused' = IF fpTask[t].at = "again" \/ fpTask[t].cached
                    THEN fpRefused \cup {fpTask[t].password} ELSE fpRefused
    /\ \/ /\ fpTask[t].at = "login"
          /\ fpStore' = FpForget(t)
          /\ IF fpTerminal THEN FpGo(t, "asking") /\ UNCHANGED fpHeld ELSE FpEnd(t, "failed")
       \/ /\ fpTask[t].at = "again" /\ FpEnd(t, "failed") /\ UNCHANGED fpStore
    /\ UNCHANGED <<fpPool, fpWire, fpGot, fpFixed>>

\* _prompt_password returned what the user typed.
FpNotYet(password) == fpStore

FpTyped(t) ==
    /\ fpTask[t].at = "asking"
    /\ \E password \in {"good", "bad"} :
         /\ fpTask' = [fpTask EXCEPT ![t] = [@ EXCEPT !.at = "again", !.password = password]]
         /\ fpStore' = FpNotYet(password)
    /\ UNCHANGED <<fpPool, fpHeld, fpWire, fpGot, fpRefused, fpFixed>>

\* fn(client) sends its command; on a closed client it raises.
FpRequest(t) ==
    /\ fpTask[t].at = "request"
    /\ IF fpTask[t].client \in fpClosed
       THEN FpEnd(t, "failed") /\ UNCHANGED fpWire
       ELSE /\ FpGo(t, "reply") /\ UNCHANGED fpHeld
            /\ fpWire' = [fpWire EXCEPT ![fpTask[t].client] = Append(@, t)]
    /\ UNCHANGED <<fpPool, fpStore, fpGot, fpRefused, fpFixed>>

\* It reads the next reply of the connection.
FpReply(t) ==
    /\ fpTask[t].at = "reply"
    /\ LET c == fpTask[t].client
       IN  IF c \in fpClosed
           THEN FpEnd(t, "failed") /\ UNCHANGED <<fpWire, fpGot>>
           ELSE /\ fpWire[c] # <<>>
                /\ fpGot' = [fpGot EXCEPT ![t] = {Head(fpWire[c])}]
                /\ fpWire' = [fpWire EXCEPT ![c] = Tail(@)]
                /\ FpEnd(t, "ok")
    /\ UNCHANGED <<fpPool, fpStore, fpRefused, fpFixed>>

\* The task is cancelled: the lock is released, a client being logged in is
\* closed, a pooled one stays in the pool with its reply unread.
FpCancel(t) ==
    /\ fpTask[t].at \in {"wait", "login", "asking", "again", "reply"}
    /\ FpGo(t, "failed")
    /\ fpHeld' = IF fpTask[t].at = "wait" THEN fpHeld ELSE fpHeld \ {fpTask[t].lock}
    /\ fpRaced' = (fpRaced \/ fpTask[t].at = "reply")
    /\ UNCHANGED <<fpPool, fpWire, fpStore, fpGot, fpRefused, fpTerminal, fpResets>>

\* disconnect_all
FpDisconnectAll ==
    /\ fpResets < FpMaxResets /\ fpResets' = fpResets + 1
    /\ fpClosed' = fpClosed \cup {fpCache[k] : k \in {q \in FpPasswords : fpCache[q] # 0}}
    /\ fpCache' = [k \in FpPasswords |-> 0] /\ fpLocks' = [k \in FpPasswords |-> 0]
    /\ fpRaced' = (fpRaced \/ \E t \in FpTasks : fpTask[t].at \notin {"idle", "ok", "failed"})
    /\ UNCHANGED <<fpMade, fpHeld, fpClients, fpWire, fpStore, fpTask, fpGot, fpRefused, fpTerminal>>

\* Everybody is done, or waits for a reply another task read.
FpDone ==
    /\ \A t \in FpTasks : \/ fpTask[t].at \in {"ok", "failed"}
                          \/ fpTask[t].at = "reply" /\ fpWire[fpTask[t].client] = <<>>
                          \/ fpTask[t].at = "wait" /\ ~FpLockFree(t)
    /\ UNCHANGED fpVars

FpNext ==
    \/ \E t \in FpTasks : \/ FpOp(t) \/ FpEnter(t) \/ FpEnsure(t) \/ FpLoggedIn(t) \/ FpRefuse(t)
                          \/ FpTyped(t) \/ FpRequest(t) \/ FpReply(t) \/ FpCancel(t)
    \/ FpDisconnectAll \/ FpDone

FpSpec == FpInit /\ [][FpNext]_fpVars
-----------------------------------------------------------------------------
\* Every variable has its type.
FpTypeOK ==
    /\ fpMade \in 0..Cardinality(FpTasks) /\ fpHeld \subseteq 1..fpMade
    /\ fpClients \in 0..Cardinality(FpTasks) /\ fpClosed \subseteq 1..fpClients
    /\ fpLocks \in [FpPasswords -> 0..fpMade] /\ fpCache \in [FpPasswords -> 0..fpClients]
    /\ fpStore \in FpEntries \cup {"bad"} /\ fpRefused \subseteq {"old", "bad"}
    /\ \A t \in FpTasks : fpTask[t].at \in FpPlaces /\ fpTask[t].client \in 0..fpClients
    /\ fpResets \in 0..FpMaxResets /\ fpRaced \in BOOLEAN

\* "Run fn(client) serialized on the per-pool lock": a task reads the reply to
\* its own request, unless an earlier one was cancelled before it read its
\* reply, or disconnect_all dropped the locks of operations under way.
FpOwnReply == fpRaced \/ \A t \in FpTasks : fpGot[t] \subseteq {t}

\* A password of the keyring or the user that the server refused is not in the
\* keyring, whichever tasks log in at the same time with whatever password.
FpRefusedForgotten == fpStore \notin fpRefused

\* Tasks that share clients and the keyring do not spoil them for one another.
FpSharedSafely == FpOwnReply /\ FpRefusedForgotten
=============================================================================
