----------------------------- MODULE MCBackends -----------------------------
(* Bounded instances, for TLC, of what is below and above the operations:  *)
(* connections, requests and listings of the backends (MicroBatcher,       *)
(* SftpTree, HostTrust, FtpPool, HttpWalk, ArtItems), the map of protocols *)
(* to backends (ProtocolMap), the paths derived from one another           *)
(* (PathAlgebra) and the synchronous facade (SyncRunner).                  *)
(* They share no state; `suite` names the one that runs in a behaviour,    *)
(* and the others stay as they begin.                                      *)
EXTENDS MicroBatcher, SftpTree, HostTrust, FtpPool, HttpWalk, ArtItems, ProtocolMap,
        PathAlgebra, SyncRunner

\* Where each node of the tree is: a chain of directories longer than the slots.
Parents == [d1 |-> "r", d2 |-> "d1", f |-> "d2", g |-> "d1", h |-> "r"]

\* Without a base URL everything is done; with one, nothing that goes through the
\* bare scheme; and below a base URL whose host looks like a name, no "..".
Users == {[bases |-> <<>>, ops |-> {"up", "parent"}],
          [bases |-> <<<<"art.example", "artifactory">>>>, ops |-> {"up"}],
          [bases |-> <<<<"rti", "artifactory">>, <<"old", "artifactory">>>>, ops |-> {}]}

VARIABLE suite

requests == <<mbVars, stVars>>
sessions == <<htVars, fpVars>>
services == <<hwVars, aiVars>>
facade   == <<pmVars, paVars, srVars>>
allVars  == <<requests, sessions, services, facade, suite>>

\* The inputs of a component that does not run do not matter: one is enough.
Init ==
    /\ suite \in {"batcher", "tree", "trust", "ftp", "walk", "items", "protocols", "paths", "facade"}
    /\ MbInit /\ (suite # "batcher" => mbStore = {})
    /\ StInit /\ (suite # "tree" => stThere = {StRoot})
    /\ HtInit /\ (suite # "trust" => htKnown = {} /\ htConf = CHOOSE conf \in HtConfs : TRUE)
    /\ FpInit /\ (suite # "ftp" => fpStore = "none" /\ ~fpTerminal)
    /\ HwInit /\ (suite # "walk" => hwTopDown /\ hwOnError)
    /\ AiInit /\ PmInit /\ SrInit
    /\ PaInit /\ (suite # "paths" =>
                    /\ ~paBound /\ ~paGiven /\ paUser.bases = <<>> /\ paPath = <<"repo">>)

Next ==
    /\ \/ suite = "batcher" /\ MbNext /\ UNCHANGED <<stVars, sessions, services, facade>>
       \/ suite = "tree" /\ StNext /\ UNCHANGED <<mbVars, sessions, services, facade>>
       \/ suite = "trust" /\ HtNext /\ UNCHANGED <<fpVars, requests, services, facade>>
       \/ suite = "ftp" /\ FpNext /\ UNCHANGED <<htVars, requests, services, facade>>
       \/ suite = "walk" /\ HwNext /\ UNCHANGED <<aiVars, requests, sessions, facade>>
       \/ suite = "items" /\ AiNext /\ UNCHANGED <<hwVars, requests, sessions, facade>>
       \/ suite = "protocols" /\ PmNext /\ UNCHANGED <<paVars, srVars, requests, sessions, services>>
       \/ suite = "paths" /\ PaNext /\ UNCHANGED <<pmVars, srVars, requests, sessions, services>>
       \/ suite = "facade" /\ SrNext /\ UNCHANGED <<pmVars, paVars, requests, sessions, services>>
    /\ UNCHANGED suite

\* The fairness of each component that promises that its calls end.
Fairness ==
    /\ WF_mbVars(suite = "batcher" /\ MbWork)
    /\ WF_stVars(suite = "tree" /\ StStep)
    /\ \A t \in SrThreads : WF_srVars(suite = "facade" /\ SrStep(t))

Spec == Init /\ [][Next]_allVars /\ Fairness

\* Every variable of the components has its type; in particular a batch never
\* holds more items than there are callers (batcher.py _Queue), and what an
\* Artifactory path remembers is an answer for its own item (artifactory.py
\* _bind_path_attrs).
BackendsTypeOK ==
    CASE suite = "batcher"   -> MbTypeOK
      [] suite = "tree"      -> StTypeOK
      [] suite = "trust"     -> HtTypeOK
      [] suite = "ftp"       -> FpTypeOK
      [] suite = "walk"      -> HwTypeOK
      [] suite = "items"     -> AiTypeOK
      [] suite = "protocols" -> PmTypeOK
      [] suite = "paths"     -> PaTypeOK
      [] suite = "facade"    -> SrTypeOK
=============================================================================
