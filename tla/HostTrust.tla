----------------------------- MODULE HostTrust -----------------------------
(***************************************************************************)
(* Which host an SSHPath (src/src/asanypath/ssh.py) connects to and        *)
(* whether it may: _resolve_alias, __init__, _native_kwargs,               *)
(* _host_key_kwargs and _confirm_unknown_host, which asks the user about   *)
(* an unknown host key.  Several tasks connect to one host at once.        *)
(*                                                                         *)
(* The native layer is external: it refuses a key that known_hosts does    *)
(* not have, except under accept-new, no and disabled checking.            *)
(***************************************************************************)
EXTENDS Integers, FiniteSets

CONSTANTS HtTasks  \* tasks, each of which makes one request to the host

VARIABLES htConf,      \* how the path was configured
          htKnown,     \* the targets known_hosts has the key of
          htTrusted,   \* _TRUSTED_HOSTS
          htLock,      \* the tasks that hold the lock of the target
          htPc,        \* where each task is
          htAsked,     \* history: questions asked
          htLeft,      \* history: questions whose task was cancelled
          htYes        \* history: the targets the user said yes to

htVars == <<htConf, htKnown, htTrusted, htLock, htPc, htAsked, htLeft, htYes>>

HtOver == {"served", "refused", "error"}

\* The path names a host, perhaps an alias for which ssh_config has a HostName
\* and a Port, and perhaps a port; checking is disabled, as ssh_config says,
\* or not configured; the session is interactive or not.
HtConfs == [alias : BOOLEAN, port : BOOLEAN, checking : {"off", "config", "unset"},
            policy : {"ask", "yes", "accept-new", "no", "bogus"}, terminal : BOOLEAN]

\* _resolve_alias and __init__: ssh_config tells the host, a typed port wins
\* over it, the environment comes last.
HtTyped(conf) == <<"typed", IF conf.port THEN "typed" ELSE "environment">>
HtTarget(conf) ==
    <<IF conf.alias THEN "config" ELSE "typed",
      IF conf.port THEN "typed" ELSE IF conf.alias THEN "config" ELSE "environment">>

\* The target _get_native_kwargs asks about is the one it connects to.
HtAskedTarget == HtTarget(htConf)

\* _host_key_kwargs: known_hosts=() disables checking; unrecognised values
\* fail closed.
HtPolicy(conf) ==
    CASE conf.checking = "off" -> "disabled"
      [] conf.checking = "unset" -> "ask"
      [] conf.checking = "config" -> IF conf.policy = "bogus" THEN "yes" ELSE conf.policy

\* The native layer connects.
HtConnects == HtPolicy(htConf) \notin {"ask", "yes"} \/ HtTarget(htConf) \in htKnown

\* async with the lock of the target
HtNoLock == TRUE
HtLockFree == htLock = {}

\* Trusted by now, or recorded.
HtNothingToAsk == HtAskedTarget \in htTrusted \cup htKnown

\* "yes" or the fingerprint
HtAccepted(answer) == answer = "yes"

HtInit ==
    /\ htConf \in HtConfs /\ htKnown \in SUBSET {HtTyped(htConf), HtTarget(htConf)}
    /\ htTrusted = {} /\ htLock = {} /\ htPc = [t \in HtTasks |-> "idle"]
    /\ htAsked = 0 /\ htLeft = 0 /\ htYes = htKnown

\* _get_native_kwargs
HtBegin(t) ==
    /\ htPc[t] = "idle"
    /\ htPc' = [htPc EXCEPT ![t] = IF HtPolicy(htConf) = "ask" /\ HtAskedTarget \notin htTrusted
                                   THEN "lock" ELSE "connect"]
    /\ UNCHANGED <<htConf, htKnown, htTrusted, htLock, htAsked, htLeft, htYes>>

\* The lock is acquired and there is nothing to ask, or nobody.
HtNoQuestion(t) ==
    /\ htPc[t] = "lock" /\ HtLockFree /\ (HtNothingToAsk \/ ~htConf.terminal)
    /\ htTrusted' = IF HtNothingToAsk THEN htTrusted \cup {HtAskedTarget} ELSE htTrusted
    /\ htPc' = [htPc EXCEPT ![t] = "connect"]
    /\ UNCHANGED <<htConf, htKnown, htLock, htAsked, htLeft, htYes>>

\* ssh_scan_host_key, then input() in an executor thread.
HtAsk(t) ==
    /\ htPc[t] = "lock" /\ HtLockFree /\ ~HtNothingToAsk /\ htConf.terminal
    /\ htLock' = htLock \cup {t}
    /\ htPc' = [htPc EXCEPT ![t] = "asking"]
    /\ htAsked' = htAsked + 1
    /\ UNCHANGED <<htConf, htKnown, htTrusted, htLeft, htYes>>

\* The answer: the key is learnt, or the call raises.
HtAnswer(t) ==
    /\ htPc[t] = "asking"
    /\ \E answer \in {"yes", "no"} :
         LET learnt == IF HtAccepted(answer) THEN {HtAskedTarget} ELSE {}
         IN  /\ htYes' = IF answer = "yes" THEN htYes \cup {HtAskedTarget} ELSE htYes
             /\ htKnown' = htKnown \cup learnt /\ htTrusted' = htTrusted \cup learnt
             /\ htPc' = [htPc EXCEPT ![t] = IF HtAccepted(answer) THEN "connect" ELSE "error"]
    /\ htLock' = htLock \ {t}
    /\ UNCHANGED <<htConf, htAsked, htLeft>>

\* The task is cancelled: the lock is released, the executor thread still
\* reads the terminal.
HtCancel(t) ==
    /\ htPc[t] \in {"lock", "asking"}
    /\ htPc' = [htPc EXCEPT ![t] = "error"]
    /\ htLock' = htLock \ {t}
    /\ htLeft' = IF htPc[t] = "asking" THEN htLeft + 1 ELSE htLeft
    /\ UNCHANGED <<htConf, htKnown, htTrusted, htAsked, htYes>>

\* The request is sent, or the native layer refuses the key.
HtConnect(t) ==
    /\ htPc[t] = "connect"
    /\ htPc' = [htPc EXCEPT ![t] = IF HtConnects THEN "served" ELSE "refused"]
    /\ UNCHANGED <<htConf, htKnown, htTrusted, htLock, htAsked, htLeft, htYes>>

HtDone == (\A t \in HtTasks : htPc[t] \in HtOver) /\ UNCHANGED htVars

HtNext ==
    \/ \E t \in HtTasks : \/ HtBegin(t) \/ HtNoQuestion(t) \/ HtAsk(t) \/ HtAnswer(t) \/ HtCancel(t)
                          \/ HtConnect(t)
    \/ HtDone

HtSpec == HtInit /\ [][HtNext]_htVars
-----------------------------------------------------------------------------
\* Every variable has its type.
HtTypeOK ==
    /\ htConf \in HtConfs /\ htTrusted \subseteq htKnown /\ htLock \subseteq HtTasks
    /\ htPc \in [HtTasks -> HtOver \cup {"idle", "lock", "asking", "connect"}]
    /\ htAsked \in Nat /\ htLeft \in 0..htAsked

\* "With ask, an interactive session is prompted the first time it meets a
\* host with no recorded key; otherwise unknown hosts are refused": unless
\* ssh_config or the caller waives it, the host a request is served by is one
\* whose key was recorded or that the user said yes to, not an alias of it.
HtNeverUnverified ==
    (\E t \in HtTasks : htPc[t] = "served") =>
        \/ HtTarget(htConf) \in htYes
        \/ htConf.checking = "off"
        \/ htConf.checking = "config" /\ htConf.policy \in {"accept-new", "no"}

\* However many tasks meet the host, there is one question at a time and none
\* after a yes, beside those of cancelled tasks: their input() still reads
\* the terminal.
HtOneQuestion ==
    Cardinality({t \in HtTasks : htPc[t] = "asking"}) <= (IF HtTarget(htConf) \in htYes THEN 0 ELSE 1)

\* Nobody is served by a host that was not verified, and the user is asked once.
HtVerifiedOnce == HtNeverUnverified /\ HtOneQuestion
=============================================================================
