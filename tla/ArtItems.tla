------------------------------ MODULE ArtItems ------------------------------
(***************************************************************************)
(* What a path object of src/src/asanypath/artifactory.py remembers of its *)
(* item: _storage_info keeps the answer of the storage API on the object,  *)
(* is_dir and is_file keep a folder flag, and a path spawned from a        *)
(* listing starts with nothing but the flag of the listing.  stat,         *)
(* checksums, is_file and the recursive rmdir answer from that memory, and *)
(* so does the comparison by which a move to the object decides that       *)
(* nothing has to be copied (async_destination_state); _transfer_stat      *)
(* drops it first.                                                         *)
(*                                                                         *)
(* One folder and one file in it, each with its path objects; tasks share  *)
(* the objects, and other clients change the items.                        *)
(***************************************************************************)
EXTENDS Integers, FiniteSets

CONSTANTS AiTasks,    \* tasks of this process
          AiMaxCalls, \* bound on calls
          AiMaxOthers \* bound on changes by other clients

ASSUME AiAssumption == AiMaxCalls \in Nat /\ AiMaxOthers \in Nat

VARIABLES aiItem,     \* what the server has at each item
          aiFolder,   \* _is_folder of each object
          aiInfo,     \* _cached_info of each object
          aiTask,     \* for each task its place, operation, object and the raw answer
          aiMoved,    \* moves that removed their source, with what they rested on
          aiSeen,     \* what the task's item held since the task's call began
          aiAnswer,   \* the last answer of _transfer_stat
          aiCalls,    \* calls made
          aiOthers    \* changes by other clients

aiVars == <<aiItem, aiFolder, aiInfo, aiTask, aiMoved, aiSeen, aiAnswer, aiCalls,
            aiOthers>>

\* The folder has one object; "f" is an object of the file that the caller
\* built, "child" the one the last listing of the folder made.
AiObjects == {"d", "f", "child"}
AiItemOf(o) == IF o = "d" THEN "folder" ELSE "file"
AiValues == [folder |-> {"absent", "dir"}, file |-> {"absent", "A", "B"}]
AiSource == "A"   \* what a move brings

AiFileOps == {"stat", "is_file", "transfer_stat", "move", "write", "unlink"}
AiOps(o) == IF o = "d" THEN {"stat", "is_file", "rmdir", "iterdir"} ELSE AiFileOps

AiIdle == [at |-> "idle", op |-> "stat", obj |-> "f", raw |-> "none", knew |-> FALSE]

AiInit ==
    /\ aiItem = [folder |-> "dir", file |-> "B"]
    /\ aiFolder = [o \in AiObjects |-> "unknown"] /\ aiInfo = [o \in AiObjects |-> "none"]
    /\ aiTask = [t \in AiTasks |-> AiIdle]
    /\ aiMoved = {} /\ aiSeen = [t \in AiTasks |-> {}] /\ aiAnswer = [t \in AiTasks |-> "none"]
    /\ aiCalls = 0 /\ aiOthers = 0

AiAt(task, place) == IF place = "idle" THEN AiIdle ELSE [task EXCEPT !.at = place, !.raw = "none"]
AiGo(t, place) == aiTask' = [aiTask EXCEPT ![t] = AiAt(@, place)]
AiObj(t) == aiTask[t].obj
\* The histories of the tasks that are in a call follow their item.
AiFollow(item) == aiSeen' = [t \in AiTasks |->
    IF aiTask'[t].at = "idle" THEN {} ELSE aiSeen[t] \cup {item[AiItemOf(aiTask'[t].obj)]}]

\* _transfer_stat forgets first.
AiKeepInfo(o) == aiInfo[o]
AiDropInfo(o) == "none"

AiCall(t) ==
    /\ aiTask[t].at = "idle" /\ aiCalls < AiMaxCalls /\ aiCalls' = aiCalls + 1
    /\ \E o \in AiObjects : \E op \in AiOps(o) :
         /\ aiInfo' = [aiInfo EXCEPT ![o] = IF op = "transfer_stat" THEN AiDropInfo(o) ELSE @]
         /\ aiTask' = [aiTask EXCEPT ![t] =
                [at |-> CASE op \in {"write", "unlink", "iterdir"} -> op
                          [] op \in {"is_file", "move"} -> "kind"
                          [] OTHER -> IF aiInfo'[o] = "none" THEN "request" ELSE "info",
                 op |-> op, obj |-> o, raw |-> "none",
                 knew |-> \/ aiFolder[o] # "unknown" \/ aiInfo[o] # "none"
                          \/ \E other \in AiTasks : aiTask[other].at # "idle" /\ AiObj(other) = o]]
    /\ AiFollow(aiItem)
    /\ UNCHANGED <<aiItem, aiFolder, aiMoved, aiAnswer, aiOthers>>

\* is_file: the flag, or else the storage API.
AiKind(t) ==
    /\ aiTask[t].at = "kind"
    /\ AiGo(t, IF aiFolder[AiObj(t)] = "unknown" THEN "info"
               ELSE IF aiTask[t].op = "is_file" THEN "idle"
               ELSE IF aiFolder[AiObj(t)] = "file" THEN "info" ELSE "copy")
    /\ AiFollow(aiItem)
    /\ UNCHANGED <<aiItem, aiFolder, aiInfo, aiMoved, aiAnswer, aiCalls, aiOthers>>

\* _storage_info: the answer the object has, or a request.
AiEnter(t) ==
    /\ aiTask[t].at = "info"
    /\ aiTask' = [aiTask EXCEPT ![t].raw = aiInfo[AiObj(t)],
                                ![t].at = IF aiInfo[AiObj(t)] = "none" THEN "request" ELSE "reply"]
    /\ AiFollow(aiItem)
    /\ UNCHANGED <<aiItem, aiFolder, aiInfo, aiMoved, aiAnswer, aiCalls, aiOthers>>

AiServe(t) ==
    /\ aiTask[t].at = "request"
    /\ aiTask' = [aiTask EXCEPT ![t].raw = aiItem[AiItemOf(AiObj(t))], ![t].at = "reply"]
    /\ AiFollow(aiItem)
    /\ UNCHANGED <<aiItem, aiFolder, aiInfo, aiMoved, aiAnswer, aiCalls, aiOthers>>

AiFlag(raw) == CASE raw = "dir" -> "folder" [] raw = "absent" -> "unknown" [] OTHER -> "file"

\* The checksums are the same.
AiEqual(raw) == raw = AiSource

\* The answer is kept (FileNotFoundError for what is not there: nothing is
\* kept), and the call goes on: is_file keeps the flag, a move
\* compares the checksums, rmdir refuses what is not a folder.
AiStore(t) ==
    /\ aiTask[t].at = "reply"
    /\ LET o == AiObj(t)
           raw == aiTask[t].raw
           op == aiTask[t].op
           asksKind == op = "is_file" \/ (op = "move" /\ aiFolder[o] = "unknown")
       IN  /\ aiInfo' = [aiInfo EXCEPT ![o] = IF raw = "absent" THEN @ ELSE raw]
           /\ aiFolder' = [aiFolder EXCEPT ![o] = IF asksKind /\ raw # "absent" THEN AiFlag(raw) ELSE @]
           /\ aiAnswer' = [aiAnswer EXCEPT ![t] = IF op = "transfer_stat" THEN raw ELSE @]
           /\ AiGo(t,
                  CASE op = "rmdir" -> IF raw = "dir" THEN "delete" ELSE "idle"
                    [] op = "move" -> IF asksKind /\ AiFlag(raw) = "file" THEN "info"
                                      ELSE IF ~asksKind /\ AiEqual(raw) THEN "remove" ELSE "copy"
                    [] op = "transfer_stat" -> "answered"
                    [] OTHER -> "idle")
    /\ AiFollow(aiItem)
    /\ UNCHANGED <<aiItem, aiMoved, aiCalls, aiOthers>>

AiAnswered(t) ==
    /\ aiTask[t].at = "answered" /\ AiGo(t, "idle")
    /\ aiAnswer' = [aiAnswer EXCEPT ![t] = "none"]
    /\ AiFollow(aiItem)
    /\ UNCHANGED <<aiItem, aiFolder, aiInfo, aiMoved, aiCalls, aiOthers>>

\* write_bytes, unlink and _delete_tree: the server changes, the object keeps
\* what it remembers.
AiChange(t) ==
    /\ aiTask[t].at \in {"write", "unlink", "delete"}
    /\ aiItem' = CASE aiTask[t].at = "write" -> [aiItem EXCEPT !.file = "B"]
                   [] aiTask[t].at = "unlink" -> [aiItem EXCEPT !.file = "absent"]
                   [] OTHER -> [folder |-> "absent", file |-> "absent"]
    /\ AiGo(t, "idle")
    /\ AiFollow(aiItem')
    /\ UNCHANGED <<aiFolder, aiInfo, aiMoved, aiAnswer, aiCalls, aiOthers>>

\* The copy of a move, forced over what is there, succeeds or fails.
AiCopy(t) ==
    /\ aiTask[t].at = "copy"
    /\ \/ aiItem' = [aiItem EXCEPT !.file = AiSource] /\ AiGo(t, "remove")
       \/ UNCHANGED aiItem /\ AiGo(t, "idle")
    /\ AiFollow(aiItem')
    /\ UNCHANGED <<aiFolder, aiInfo, aiMoved, aiAnswer, aiCalls, aiOthers>>

AiRemove(t) ==
    /\ aiTask[t].at = "remove" /\ AiGo(t, "idle")
    /\ aiMoved' = aiMoved \cup {[there |-> AiSource \in aiSeen[t], knew |-> aiTask[t].knew]}
    /\ AiFollow(aiItem)
    /\ UNCHANGED <<aiItem, aiFolder, aiInfo, aiAnswer, aiCalls, aiOthers>>

\* iterdir of the folder: _confined_child spawns the file's path, whose
\* _bind_path_attrs clears what was copied from the folder's object.
AiInherits(value) == value
AiCleared(value) == "none"

AiIterdir(t) ==
    /\ aiTask[t].at = "iterdir" /\ AiGo(t, "idle")
    /\ IF aiItem.file = "absent" THEN UNCHANGED <<aiFolder, aiInfo>>
       ELSE /\ aiInfo' = [aiInfo EXCEPT !.child = AiCleared(aiInfo.d)]
            /\ aiFolder' = [aiFolder EXCEPT !.child = "file"]
    /\ AiFollow(aiItem)
    /\ UNCHANGED <<aiItem, aiMoved, aiAnswer, aiCalls, aiOthers>>

\* Another client uploads or deletes the file.
AiOther ==
    /\ aiOthers < AiMaxOthers /\ aiOthers' = aiOthers + 1
    /\ \E value \in AiValues.file : aiItem' = [folder |-> "dir", file |-> value]
    /\ UNCHANGED <<aiFolder, aiInfo, aiTask, aiMoved, aiAnswer, aiCalls>>
    /\ AiFollow(aiItem')

AiDone ==
    /\ aiCalls = AiMaxCalls /\ \A t \in AiTasks : aiTask[t].at = "idle"
    /\ UNCHANGED aiVars

AiNext ==
    \/ \E t \in AiTasks : \/ AiCall(t) \/ AiKind(t) \/ AiEnter(t) \/ AiServe(t) \/ AiStore(t)
                          \/ AiAnswered(t) \/ AiChange(t) \/ AiCopy(t) \/ AiRemove(t) \/ AiIterdir(t)
    \/ AiOther \/ AiDone

AiSpec == AiInit /\ [][AiNext]_aiVars
-----------------------------------------------------------------------------
\* Every variable has its type, and what an object remembers is an answer for
\* its own item: a path made by a listing does not answer for the folder.
AiTypeOK ==
    /\ aiCalls \in 0..AiMaxCalls /\ aiOthers \in 0..AiMaxOthers
    /\ \A item \in DOMAIN AiValues : aiItem[item] \in AiValues[item]
    /\ \A o \in AiObjects : /\ aiInfo[o] \in AiValues[AiItemOf(o)] \cup {"none"}
                            /\ aiFolder[o] \in {"unknown", "folder", "file"}

\* _transfer_stat, by which a ranged download notices that its source changed,
\* answers what the item was during the call, whatever other tasks that use the
\* same path object fetched before or store meanwhile.
AiTransferFresh ==
    \A t \in AiTasks : aiTask[t].at = "answered" => aiAnswer[t] \in aiSeen[t]

\* "Moves remove the source only after a successful copy": the source goes only
\* if the destination held its content during the move, when the path object of
\* the destination knew nothing before and no other call on it was under way.
\* A path object that was asked before may rest on an answer that another
\* client's write made stale, and the source is then removed all the same.
AiMoveChecked == \A m \in aiMoved : m.knew \/ m.there

\* What a path object remembers does not stand in for what the item is.
AiNotMisled == AiTransferFresh /\ AiMoveChecked
=============================================================================
