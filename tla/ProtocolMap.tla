---------------------------- MODULE ProtocolMap ----------------------------
(***************************************************************************)
(* PROTOCOL_MAP of src/src/asanypath/asanypath.py: a dict that imports the *)
(* built-in backends on first lookup, shared by every thread that makes a  *)
(* path.  A lookup that misses takes the protocol off the pending ones in  *)
(* a second step, and imports its module, which lets other threads run;    *)
(* then it enters the class, or an exception ends the import.              *)
(* register_protocol enters a class of the user; an HTTP URL is first      *)
(* matched with the base URLs of all backends.                             *)
(***************************************************************************)
EXTENDS Integers, FiniteSets

CONSTANTS PmThreads,    \* threads
          PmBuiltin,    \* _BUILTIN_PROTOCOLS
          PmMissing,    \* those whose optional dependency is not installed
          PmMatch,      \* a protocol with a configured base URL
          PmHttp,       \* the scheme of URLs
          PmMaxCalls    \* bound: calls of each thread

ASSUME PmAssumption ==
    /\ PmMissing \subseteq PmBuiltin /\ PmMatch \in PmBuiltin /\ PmHttp \in PmBuiltin \ PmMissing
    /\ PmMaxCalls \in Nat

VARIABLES pmPending,  \* _LazyDict._pending
          pmClass,    \* the dict: the class of each protocol
          pmThread,   \* what each thread is doing
          pmCalls,    \* calls each thread has made
          pmLost      \* history: installed backends whose import an exception ended

pmVars == <<pmPending, pmClass, pmThread, pmCalls, pmLost>>

\* "builtin" and "user" are classes, "unsupported" is UnsupportedProtocolPath,
\* "raised" an exception: the one of the import, or a RuntimeError because the
\* dict changed size during iteration.
PmAnswers == {"", "builtin", "user", "http", "unsupported", "raised"}

PmIdle == [op |-> "idle", proto |-> PmHttp, url |-> FALSE, todo |-> {}, seen |-> {}, alone |-> TRUE,
           answer |-> ""]
PmKeys == {p \in PmBuiltin : pmClass[p] # "none"}

\* Another thread is loading or registering protocol p.
PmBusy(t, p) ==
    \E u \in PmThreads \ {t} : pmThread[u].op \in {"import", "assign"} /\ pmThread[u].proto = p

\* self.setdefault(key, klass)
PmReplaced(p) == "builtin"
PmSetDefault(p) == IF pmClass[p] = "none" THEN "builtin" ELSE pmClass[p]

\* spec = self._pending.pop(key, None)
PmPop(p) == pmPending \ {p}

\* What thread t does once _load has returned: it goes on with the list of what
\* was pending, or has its answer.
PmLoaded(t, answer) ==
    IF pmThread[t].url THEN [pmThread[t] EXCEPT !.op = "ensure"]
    ELSE [pmThread[t] EXCEPT !.op = "done", !.answer = answer]

\* Thread t takes protocol p off the pending ones and goes on as `call`: it has
\* met the lookups of p that have missed and not popped yet.
PmTakes(t, p, call) ==
    /\ pmPending' = PmPop(p)
    /\ pmThread' = [u \in PmThreads |->
         IF u = t THEN call
         ELSE [pmThread[u] EXCEPT !.alone = @ /\ ~(pmThread[u].op = "missed" /\ pmThread[u].proto = p)]]

PmInit ==
    /\ pmPending = PmBuiltin
    /\ pmClass = [p \in PmBuiltin |-> "none"]
    /\ pmThread = [t \in PmThreads |-> PmIdle]
    /\ pmCalls = [t \in PmThreads |-> 0]
    /\ pmLost = {}

PmBegin(t) ==
    /\ pmThread[t].op \in {"idle", "done"} /\ pmCalls[t] < PmMaxCalls
    /\ pmCalls' = [pmCalls EXCEPT ![t] = @ + 1]

\* AsAnyPath("p://..."): PROTOCOL_MAP[p], which calls __missing__ if it is not there.
PmLookup(t, p) ==
    /\ PmBegin(t)
    /\ pmThread' = [pmThread EXCEPT ![t] =
         IF pmClass[p] # "none" THEN [PmIdle EXCEPT !.op = "done", !.proto = p, !.answer = pmClass[p]]
         ELSE [PmIdle EXCEPT !.op = "missed", !.proto = p, !.alone = ~PmBusy(t, p)]]
    /\ UNCHANGED <<pmPending, pmClass, pmLost>>

\* __missing__ and _load: the pop finds it pending, or taken by somebody else.
PmMissed(t) ==
    LET p == pmThread[t].proto
    IN  /\ pmThread[t].op = "missed"
        /\ \/ p \in pmPending /\ PmTakes(t, p, [pmThread[t] EXCEPT !.op = "import"])
           \/ /\ p \notin pmPending
              /\ pmThread' = [pmThread EXCEPT ![t] = PmLoaded(t, "unsupported")]
              /\ UNCHANGED pmPending
        /\ UNCHANGED <<pmClass, pmCalls, pmLost>>

\* import_module returns; setdefault.
PmImported(t) ==
    LET p == pmThread[t].proto
    IN  /\ pmThread[t].op = "import" /\ p \notin PmMissing
        /\ pmClass' = [pmClass EXCEPT ![p] = PmSetDefault(p)]
        /\ pmThread' = [pmThread EXCEPT ![t] = PmLoaded(t, pmClass'[p])]
        /\ UNCHANGED <<pmPending, pmCalls, pmLost>>

\* It raises ImportError: the dependency is not installed, or something else is
\* wrong with it now; or another exception, an interrupt for one, which _load lets
\* through.
PmImportFails(t) ==
    /\ pmThread[t].op = "import"
    /\ \/ pmThread' = [pmThread EXCEPT ![t] = PmLoaded(t, "unsupported")]
       \/ pmThread' = [pmThread EXCEPT ![t].op = "done", ![t].answer = "raised"]
    /\ pmLost' = pmLost \cup ({pmThread[t].proto} \ PmMissing)
    /\ UNCHANGED <<pmPending, pmClass, pmCalls>>

\* AsAnyPath("https://...") under the base URL of PmMatch, or list_protocols():
\* _ensure takes a list of what is pending.
PmUrl(t) ==
    /\ PmBegin(t)
    /\ pmThread' = [pmThread EXCEPT ![t] =
         [PmIdle EXCEPT !.op = "ensure", !.url = TRUE, !.todo = pmPending]]
    /\ UNCHANGED <<pmPending, pmClass, pmLost>>

\* The next of that list, unless another thread took it meanwhile.
PmEnsure(t) ==
    /\ pmThread[t].op = "ensure"
    /\ \E p \in pmThread[t].todo :
         PmTakes(t, p, [pmThread[t] EXCEPT !.todo = @ \ {p}, !.proto = p,
                                           !.op = IF p \in pmPending THEN "import" ELSE "ensure"])
    /\ UNCHANGED <<pmClass, pmCalls, pmLost>>

\* super().items()
PmItems(t) ==
    /\ pmThread[t].op = "ensure" /\ pmThread[t].todo = {}
    /\ pmThread' = [pmThread EXCEPT ![t].op = "items", ![t].seen = PmKeys]
    /\ UNCHANGED <<pmPending, pmClass, pmCalls, pmLost>>

\* The loop over the items ends: at the match, behind the last one with the
\* class of the scheme, or with an error if a class was entered meanwhile.
PmMatched(t) ==
    /\ pmThread[t].op = "items"
    /\ \E answer \in (IF PmMatch \in pmThread[t].seen THEN {pmClass[PmMatch]} ELSE {"http"})
                       \cup (IF PmKeys # pmThread[t].seen THEN {"raised"} ELSE {}) :
         pmThread' = [pmThread EXCEPT ![t].op = "done", ![t].answer = answer]
    /\ UNCHANGED <<pmPending, pmClass, pmCalls, pmLost>>

\* register_protocol(p, path_class): __setitem__ pops, ...
PmRegister(t, p) ==
    /\ PmBegin(t)
    /\ PmTakes(t, p, [PmIdle EXCEPT !.op = "assign", !.proto = p])
    /\ UNCHANGED <<pmClass, pmLost>>

\* ... then assigns.
PmAssign(t) ==
    /\ pmThread[t].op = "assign"
    /\ pmClass' = [pmClass EXCEPT ![pmThread[t].proto] = "user"]
    /\ pmThread' = [pmThread EXCEPT ![t].op = "done"]
    /\ UNCHANGED <<pmPending, pmCalls, pmLost>>

PmDone == /\ \A t \in PmThreads : pmThread[t].op \in {"idle", "done"} /\ pmCalls[t] = PmMaxCalls
          /\ UNCHANGED pmVars

PmNext ==
    \/ \E t \in PmThreads : \/ PmMissed(t) \/ PmImported(t) \/ PmImportFails(t) \/ PmUrl(t) \/ PmEnsure(t) \/ PmItems(t) \/ PmMatched(t)
                            \/ PmAssign(t)
                            \/ \E p \in PmBuiltin : PmLookup(t, p) \/ PmRegister(t, p)
    \/ PmDone

PmSpec == PmInit /\ [][PmNext]_pmVars
-----------------------------------------------------------------------------
\* Every variable has its type.
PmTypeOK ==
    /\ pmPending \subseteq PmBuiltin /\ pmClass \in [PmBuiltin -> {"none", "builtin", "user"}]
    /\ pmCalls \in [PmThreads -> 0..PmMaxCalls] /\ pmLost \subseteq PmBuiltin \ PmMissing
    /\ \A t \in PmThreads :
         /\ pmThread[t].op \in {"idle", "done", "missed", "import", "assign", "ensure", "items"}
         /\ pmThread[t].proto \in PmBuiltin /\ pmThread[t].answer \in PmAnswers
         /\ pmThread[t].todo \subseteq PmBuiltin /\ pmThread[t].seen \subseteq PmBuiltin

\* "imported on first lookup": whatever the threads do, an installed backend
\* is in the dict, still pending, or being entered by a thread; only an exception
\* that ends its import loses it for the rest of the process.
PmNeverForgotten ==
    \A p \in PmBuiltin \ (PmMissing \cup pmLost) :
        \/ pmClass[p] # "none" \/ p \in pmPending
        \/ \E t \in PmThreads : pmThread[t].op \in {"import", "assign"} /\ pmThread[t].proto = p

\* A class the user registered is never replaced by the built-in one, also
\* when that was being imported.
PmUserClassKept == [][\A p \in PmBuiltin : pmClass[p] = "user" => pmClass'[p] = "user"]_pmVars

\* A lookup of an installed protocol, not lost, that meets no other thread loading
\* or registering it, neither when it begins nor before it pops, gets a class or
\* the exception of its import.
PmServedAlone ==
    \A t \in PmThreads : pmThread[t].op = "done" /\ ~pmThread[t].url /\ pmThread[t].alone
        /\ pmThread[t].proto \notin PmMissing \cup pmLost => pmThread[t].answer # "unsupported"

\* No backend is lost to the races of first lookups and registrations.
PmKeepsClasses == PmUserClassKept /\ []PmNeverForgotten /\ []PmServedAlone
=============================================================================
