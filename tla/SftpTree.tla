------------------------------ MODULE SftpTree ------------------------------
(***************************************************************************)
(* rmdir(recursive=True) of SSHPath (_rmtree_bounded of                    *)
(* src/src/asanypath/ssh.py): every directory lists its children, removes  *)
(* them all at once, waits for every one of them and then removes itself.  *)
(* One semaphore bounds the removals in flight of the whole tree.          *)
(***************************************************************************)
EXTENDS Integers, FiniteSets

CONSTANTS StNodes,   \* the directory and everything below it
          StParent,  \* the directory each node but the root is in
          StRoot,
          StDirs,    \* the nodes that are directories
          StSlots    \* _RMDIR_CONCURRENCY

ASSUME StAssumption ==
    /\ StRoot \in StDirs /\ StDirs \subseteq StNodes /\ StSlots \in Nat \ {0}
    /\ StParent \in [StNodes \ {StRoot} -> StDirs]

VARIABLES stThere,  \* the nodes that exist on the server
          stPc,     \* where the task of each node is
          stFound   \* the children each directory found

stVars == <<stThere, stPc, stFound>>

StOver == {"done", "failed"}
StChildren(d) == {n \in StNodes \ {StRoot} : StParent[n] = d /\ n \in stThere}

\* async with sem: held around one request, never across the recursion.
StHoldsAcross(n) == stPc[n] \in {"request", "children"}
StHolds(n) == stPc[n] = "request"

\* asyncio.gather(*children, return_exceptions=True) has returned.
StAllSettled(d) == \A n \in stFound[d] : stPc[n] \in StOver

StInit ==
    /\ stThere \in {there \in SUBSET StNodes :
                      /\ StRoot \in there
                      /\ \A n \in there \ {StRoot} : StParent[n] \in there}
    /\ stPc = [n \in StNodes |-> "idle"]
    /\ stFound = [d \in StDirs |-> {}]

\* rmdir(recursive=True) is called.
StRmdir ==
    /\ stPc[StRoot] = "idle"
    /\ stPc' = [stPc EXCEPT ![StRoot] = "list"]
    /\ UNCHANGED <<stThere, stFound>>

\* async for child in self.iterdir(): a coroutine for each; is_dir() is known
\* from the listing.
StList(d) ==
    /\ stPc[d] = "list"
    /\ stFound' = [stFound EXCEPT ![d] = StChildren(d)]
    /\ stPc' = [n \in StNodes |-> IF n = d THEN "children"
                                  ELSE IF n \in StChildren(d)
                                       THEN (IF n \in StDirs THEN "list" ELSE "wait") ELSE stPc[n]]
    /\ UNCHANGED stThere

\* The listing fails.
StListFails(d) ==
    /\ stPc[d] = "list"
    /\ stPc' = [stPc EXCEPT ![d] = "failed"]
    /\ UNCHANGED <<stThere, stFound>>

\* All children are over: the first failure is raised, else the directory goes.
StGathered(d) ==
    /\ stPc[d] = "children" /\ StAllSettled(d)
    /\ stPc' = [stPc EXCEPT ![d] = IF \E n \in stFound[d] : stPc[n] = "failed" THEN "failed" ELSE "wait"]
    /\ UNCHANGED <<stThere, stFound>>

\* The semaphore is acquired.
StAcquire(n) ==
    /\ stPc[n] = "wait" /\ Cardinality({m \in StNodes : StHolds(m)}) < StSlots
    /\ stPc' = [stPc EXCEPT ![n] = "request"]
    /\ UNCHANGED <<stThere, stFound>>

\* unlink or _native_rmdir is answered; the server keeps what is not empty.
StRequest(n) ==
    /\ stPc[n] = "request"
    /\ \/ /\ n \in stThere /\ (n \in StDirs => StChildren(n) = {})
          /\ stThere' = stThere \ {n}
          /\ stPc' = [stPc EXCEPT ![n] = "done"]
       \/ stPc' = [stPc EXCEPT ![n] = "failed"] /\ UNCHANGED stThere
    /\ UNCHANGED stFound

StStep == \E n \in StNodes : \/ StAcquire(n) \/ StRequest(n)
                             \/ n \in StDirs /\ (StList(n) \/ StListFails(n) \/ StGathered(n))

\* Nothing happens; that the call does not stop before its end is StEnds.
StIdle == UNCHANGED stVars

StNext == StRmdir \/ StStep \/ StIdle

\* The event loop runs its tasks and the server answers.
StFairness == WF_stVars(StStep)

StSpec == StInit /\ [][StNext]_stVars /\ StFairness
-----------------------------------------------------------------------------
\* Every variable has its type.
StTypeOK ==
    /\ stThere \subseteq StNodes /\ stFound \in [StDirs -> SUBSET StNodes]
    /\ stPc \in [StNodes -> StOver \cup {"idle", "list", "children", "wait", "request"}]

\* "the semaphore is only held around a single network op - never across
\* recursion - so it cannot deadlock": a call ends, however deep the tree is.
StEnds == stPc[StRoot] = "list" ~> stPc[StRoot] \in StOver

\* When the call returns or raises, no removal is still running or waiting.
StSettled == stPc[StRoot] \in StOver => \A n \in StNodes : stPc[n] \in StOver \cup {"idle"}

\* The removal of a tree ends, and when it does nothing of it goes on.
StEndsSettled == StEnds /\ []StSettled
=============================================================================
