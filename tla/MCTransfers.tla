---------------------------- MODULE MCTransfers ----------------------------
(* Bounded instances, for TLC, of the components that carry out the        *)
(* operations on content: ResumableDownload, RangedTransfer, LocalCopy,    *)
(* Moves, TreeMoves, CloudFile, CliMoves, CopyProgress, RemoteFiles, and   *)
(* the credentials they send, ServiceTokens.  They share no state; `suite` *)
(* names the one that runs in a behaviour, and the others stay as they     *)
(* begin.                                                                  *)
EXTENDS ResumableDownload, RangedTransfer, MCLocalCopy, Moves, MCTreeMoves, CloudFile,
        CliMoves, CopyProgress, RemoteFiles, ServiceTokens

\* Versions of a ranged source: the second has the size and the identity of the
\* first, the third is shorter.
RangedSizes == <<3, 3, 2>>
RangedTokens == <<1, 1, 2>>

\* Two places of one S3 identity, and one each of three other backends.
Places == [a |-> "s3", b |-> "s3", c |-> "gs", f |-> "file", s |-> "sftp"]
Content == <<"a", "b", "c">>

\* What LocalCopy has at a path.
ContentOf(p) == IF cpDir[p] = 0 THEN 0 ELSE cpData[cpDir[p]][1]

VARIABLE suite

downloads == <<rdVars, rtVars>>
moves     == <<cpVars, mvVars, trVars>>
commands  == <<cfVars, cmVars, pgVars>>
remotes   == <<rfVars, tkVars>>
allVars   == <<downloads, moves, commands, remotes, suite>>

\* The inputs of a component that does not run do not matter: one is enough.
\* The entries and the contents of LocalCopy are interchangeable, and so are the
\* services of ServiceTokens: of the initial states that differ by a renaming,
\* one is enough.
Init ==
    /\ suite \in {"resume", "ranges", "local", "move", "tree", "file", "mv", "progress",
                  "remote", "tokens"}
    /\ CmInit
    /\ suite # "mv" => cmCmd = "stdin" /\ cmName = <<"a">> /\ cmDst = "absent" /\ ~cmSlash
    /\ RdInit /\ (suite # "resume" => \A v \in DOMAIN rdSizes : rdSizes[v] = 0)
    /\ CpInit
    /\ IF suite = "local"
       THEN /\ ContentOf(p1) <= ContentOf(p2) /\ ContentOf(p2) <= ContentOf(p3)
            /\ ContentOf(p3) = 2 => ContentOf(p2) = 1
       ELSE cpInitial = {}
    /\ PgInit /\ (suite # "progress" => pgDst = -1 /\ pgCalls /\ pgMonitor = "off")
    /\ RtInit /\ MvInit /\ TrInit /\ CfInit
    /\ RfInit /\ (suite # "remote" => rfBackend = "ssh" /\ \A p \in RfPaths : rfNode[p] = RfNone)
    /\ TkInit /\ tkArtEnv.token = "x" /\ tkJfrog \in {{}, TkServices}
    /\ suite # "tokens" => /\ tkArtEnv.base = "none" /\ tkHttpEnv.token = "none" /\ tkJfrog = {}
                           /\ \A s \in TkServices : tkRing[s] = "none"

Next ==
    /\ \/ suite = "resume" /\ (RdNext \/ RdStopped) /\ UNCHANGED <<rtVars, moves, commands, remotes>>
       \/ suite = "ranges" /\ RtNext /\ UNCHANGED <<rdVars, moves, commands, remotes>>
       \/ /\ suite = "local" /\ (CpNext \/ CpDone)
          /\ UNCHANGED <<mvVars, trVars, downloads, commands, remotes>>
       \/ suite = "move" /\ MvNext /\ UNCHANGED <<cpVars, trVars, downloads, commands, remotes>>
       \/ suite = "tree" /\ TrNext /\ UNCHANGED <<cpVars, mvVars, downloads, commands, remotes>>
       \/ suite = "file" /\ CfNext /\ UNCHANGED <<cmVars, pgVars, downloads, moves, remotes>>
       \/ suite = "mv" /\ CmNext /\ UNCHANGED <<cfVars, pgVars, downloads, moves, remotes>>
       \/ suite = "progress" /\ PgNext /\ UNCHANGED <<cfVars, cmVars, downloads, moves, remotes>>
       \/ suite = "remote" /\ RfNext /\ UNCHANGED <<tkVars, downloads, moves, commands>>
       \/ suite = "tokens" /\ TkNext /\ UNCHANGED <<rfVars, downloads, moves, commands>>
    /\ UNCHANGED suite

Spec == Init /\ [][Next]_allVars

\* Every variable of the components has its type; in particular the position of
\* a file handle is one of its object's (cloud.py _CloudRawIO.seek).
TransfersTypeOK ==
    CASE suite = "resume"    -> RdTypeOK
      [] suite = "ranges"    -> RtTypeOK
      [] suite = "local"     -> CpTypeOK
      [] suite = "move"      -> MvTypeOK
      [] suite = "tree"      -> TrTypeOK
      [] suite = "file"      -> CfTypeOK
      [] suite = "mv"        -> CmTypeOK
      [] suite = "progress"  -> PgTypeOK
      [] suite = "remote"    -> RfTypeOK
      [] suite = "tokens"    -> TkTypeOK
=============================================================================
