---------------------------- MODULE ServiceTokens ----------------------------
(***************************************************************************)
(* Which credentials a path sends where: the token of an Artifactory path  *)
(* (src/src/asanypath/artifactory.py __init__: token=, then the            *)
(* environment's if it is for this service, then the tokens known for the  *)
(* service in this process, the keyring and the JFrog CLI config), the     *)
(* headers of an HTTP path (http.py _auth_headers, memoized until the      *)
(* environment or the path changes, and request), and the paths derived    *)
(* from one (common.py _derive, cloud.py _spawn).                          *)
(*                                                                         *)
(* A token or a header is the service it is meant for.  The Artifactory    *)
(* part of the environment is read once, and stays; HTTP_AUTH_* is read at *)
(* every request.  The keyring drops an entry after an hour; a keyring     *)
(* that is not available has no entry.                                     *)
(***************************************************************************)
EXTENDS Integers, FiniteSets

CONSTANTS TkServices,  \* origins: scheme, host and port
          TkObjects,   \* path objects
          TkMaxSteps   \* bound on steps

ASSUME TkAssumption == TkMaxSteps \in Nat /\ "none" \notin TkServices

VARIABLES tkArtEnv,   \* the service of ARTIFACTORY_IDENTITY_TOKEN and of ARTIFACTORY_BASE_URL
          tkHttpEnv,  \* the service of HTTP_AUTH_TOKEN and of HTTP_AUTH_URL
          tkRing,     \* services with a token in the keyring, and where it came from
          tkKnown,    \* ArtifactoryPath._service_tokens
          tkJfrog,    \* services with a token in the JFrog CLI config
          tkObject,   \* the path objects
          tkSent,     \* what the last request sent to whom
          tkGiven,    \* services for which token= was passed
          tkSteps

tkVars == <<tkArtEnv, tkHttpEnv, tkRing, tkKnown, tkJfrog, tkObject, tkSent, tkGiven, tkSteps>>

TkOrNone == TkServices \cup {"none"}
TkNoToken == [from |-> "anonymous", for |-> "none"]
TkToken(from, s) == [from |-> from, for |-> s]
TkNothing == [kind |-> "none", at |-> "none", token |-> TkNoToken, explicit |-> FALSE,
              late |-> FALSE, url |-> 0, memo |-> <<>>]

\* Art: the token of the environment is for the service of its base URL, if one
\* is set.  HTTP: likewise, and any of the two may be missing.
TkInit ==
    /\ \E s \in TkServices, base \in TkOrNone :
         base \in {s, "none"} /\ tkArtEnv = [token |-> s, base |-> base]
    /\ tkHttpEnv \in {[token |-> s, base |-> s] : s \in TkOrNone}
    /\ tkRing \in [TkServices -> {"none", "ring"}] /\ tkKnown = [s \in TkServices |-> TkNoToken]
    /\ tkJfrog \in SUBSET TkServices
    /\ tkObject = [o \in TkObjects |-> TkNothing] /\ tkSent = {} /\ tkGiven = {} /\ tkSteps = 0

TkStep == tkSteps < TkMaxSteps /\ tkSteps' = tkSteps + 1

\* _ambient_credentials_allowed: only to the origin of the configured service.
TkAnywhere(base, own) == TRUE
TkAllowed(base, own) == base # "none" /\ base = own

\* The first of: environment, tokens known in the process, keyring, JFrog config.
TkFound(s) ==
    IF TkAllowed(tkArtEnv.base, s) THEN TkToken("env", tkArtEnv.token)
    ELSE IF tkKnown[s] # TkNoToken THEN tkKnown[s]
    ELSE IF tkRing[s] # "none" THEN TkToken(tkRing[s], s)
    ELSE IF s \in tkJfrog THEN TkToken("jfrog", s)
    ELSE TkNoToken

\* ArtifactoryPath(uri, token=...): a token that was passed is kept for the
\* service in the keyring and in the process; a token that was found in the
\* keyring or the JFrog config in the process.
TkRemembers(s, token) ==
    IF token = TkNoToken \/ token.from = "env" THEN tkKnown ELSE [tkKnown EXCEPT ![s] = token]

TkConstruct(o, s, explicit) ==
    LET token == IF explicit THEN TkToken("given", s) ELSE TkFound(s)
    IN  /\ tkObject' = [tkObject EXCEPT ![o] =
                          [kind |-> "art", at |-> s, token |-> token, explicit |-> explicit,
                           late |-> s \in tkGiven, url |-> 0, memo |-> <<>>]]
        /\ tkKnown' = TkRemembers(s, token)
        /\ tkRing' = IF explicit /\ tkKnown[s] # token THEN [tkRing EXCEPT ![s] = "given"] ELSE tkRing

TkMake(o) ==
    /\ TkStep
    /\ \E s \in TkServices, explicit \in BOOLEAN :
         /\ TkConstruct(o, s, explicit)
         /\ tkGiven' = IF explicit THEN tkGiven \cup {s} ELSE tkGiven
    /\ UNCHANGED <<tkArtEnv, tkHttpEnv, tkJfrog, tkSent>>

\* _derive: "/", parent, with_name and the like; explicit options follow only
\* to a path with the same authority.
TkKeepsAuthority(from, s) == tkObject[from].explicit /\ tkObject[from].at = s

TkDerive(o, from) ==
    /\ TkStep /\ tkObject[from].kind = "art"
    /\ \E s \in TkServices :
         IF TkKeepsAuthority(from, s)
         THEN /\ tkObject' = [tkObject EXCEPT ![o] = [tkObject[from] EXCEPT !.at = s]]
              /\ UNCHANGED <<tkKnown, tkRing>>
         ELSE TkConstruct(o, s, FALSE)
    /\ UNCHANGED <<tkArtEnv, tkHttpEnv, tkJfrog, tkSent, tkGiven>>

\* HTTPPath(uri), and _spawn: a copy of another object's attributes, the memo
\* too, with a URL object of its own.
TkHttp(o) ==
    /\ TkStep
    /\ \E s \in TkServices, from \in TkObjects :
         LET memo == IF tkObject[from].kind = "http" THEN tkObject[from].memo ELSE <<>>
         IN  tkObject' = [tkObject EXCEPT ![o] = [TkNothing EXCEPT !.kind = "http", !.at = s,
                                                  !.url = tkSteps', !.memo = memo]]
    /\ UNCHANGED <<tkArtEnv, tkHttpEnv, tkRing, tkKnown, tkJfrog, tkSent, tkGiven>>

\* HTTP_AUTH_* is set, changed or removed while the program runs.
TkHttpEnv ==
    /\ TkStep
    /\ \E s \in TkOrNone, base \in TkOrNone :
         (base = s \/ "none" \in {s, base}) /\ tkHttpEnv' = [token |-> s, base |-> base]
    /\ UNCHANGED <<tkArtEnv, tkRing, tkKnown, tkJfrog, tkObject, tkSent, tkGiven>>

\* _auth_headers: the memo if it was made for this environment and this URL.
TkSameEnv(o) == tkObject[o].memo # <<>> /\ tkObject[o].memo[1] = tkHttpEnv
TkMemoValid(o) == TkSameEnv(o) /\ tkObject[o].memo[2] = tkObject[o].url
TkHeaders(o) ==
    IF TkMemoValid(o) THEN tkObject[o].memo[3]
    ELSE IF TkAllowed(tkHttpEnv.base, tkObject[o].at) THEN tkHttpEnv.token ELSE "none"

\* request(url=...): the path's credentials and headers go to its own origin.
TkSameOrigin(o, to) == to = tkObject[o].at

TkRequest(o) ==
    /\ TkStep
    /\ \/ /\ tkObject[o].kind = "http"
          /\ \E to \in TkServices :
               LET own == TkSameOrigin(o, to)
               IN  /\ tkSent' = {[to |-> to, now |-> tkHttpEnv.token,
                                for |-> IF own THEN TkHeaders(o) ELSE "none"]}
                   /\ tkObject' = IF own
                                  THEN [tkObject EXCEPT ![o].memo = <<tkHttpEnv, tkObject[o].url,
                                                                      TkHeaders(o)>>]
                                  ELSE tkObject
       \/ /\ tkObject[o].kind = "art" /\ UNCHANGED tkObject
          /\ tkSent' = {[to |-> tkObject[o].at, now |-> tkObject[o].token.for,
                       for |-> tkObject[o].token.for]}
    /\ UNCHANGED <<tkArtEnv, tkHttpEnv, tkRing, tkKnown, tkJfrog, tkGiven>>

\* An entry of the keyring is over its time to live.
TkExpire ==
    /\ \E s \in TkServices : tkRing[s] # "none" /\ tkRing' = [tkRing EXCEPT ![s] = "none"]
    /\ UNCHANGED <<tkArtEnv, tkHttpEnv, tkKnown, tkJfrog, tkObject, tkSent, tkGiven, tkSteps>>

TkDone == tkSteps = TkMaxSteps /\ UNCHANGED tkVars

TkNext ==
    \/ \E o \in TkObjects : \/ TkMake(o) \/ TkHttp(o) \/ TkRequest(o)
                            \/ \E from \in TkObjects : TkDerive(o, from)
    \/ TkHttpEnv \/ TkExpire
    \/ TkDone

TkSpec == TkInit /\ [][TkNext]_tkVars
-----------------------------------------------------------------------------
\* Every variable has its type.
TkTypeOK ==
    /\ tkRing \in [TkServices -> {"none", "ring", "given"}] /\ tkJfrog \subseteq TkServices
    /\ \A s \in TkServices : tkKnown[s].for \in {s, "none"}
    /\ \A o \in TkObjects : tkObject[o].at \in TkOrNone /\ tkObject[o].token.for \in TkOrNone
    /\ tkGiven \subseteq TkServices /\ tkSteps \in 0..TkMaxSteps

\* "A token is never sent to a service it wasn't configured for", whatever path
\* it was derived from, and no request carries a header of an environment that
\* has changed since.
TkSentHome == \A r \in tkSent : r.for # "none" => r.for = r.to /\ r.for = r.now

\* A token that was passed for a service is what later paths on it use: not the
\* older one of the JFrog config, also when the keyring has dropped it.  Only
\* the token of the environment comes before.
TkGivenKept == \A o \in TkObjects : tkObject[o].late => tkObject[o].token.from \in {"given", "env"}

\* Every request has the token of its service, and the one it was given.
TkRightToken == TkSentHome /\ TkGivenKept
=============================================================================
