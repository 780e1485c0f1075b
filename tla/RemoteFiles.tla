---------------------------- MODULE RemoteFiles ----------------------------
(***************************************************************************)
(* The operations on one file or directory of SSHPath                      *)
(* (src/src/asanypath/ssh.py) and FTPPath (ftp.py): write_bytes and        *)
(* _upload_buffer, rename and replace, unlink, touch, mkdir,               *)
(* update_access_policy.  None of them is one request: each is a sequence  *)
(* of requests, any of which may fail, and those of another task come in   *)
(* between.  What the server does with a request is external.              *)
(*                                                                         *)
(* A file has the data of a writer, empty, half or whole, and the grants   *)
(* its mode bits hold.                                                     *)
(***************************************************************************)
EXTENDS Integers, FiniteSets

CONSTANTS RfTasks,   \* tasks
          RfPaths,   \* paths on one server
          RfOps,     \* the operations called
          RfMaxCalls \* bound: calls

RfAllOps == {"write", "upload", "rename", "replace", "unlink", "touch", "mkdir", "policy"}

ASSUME RfAssumption == RfOps \subseteq RfAllOps /\ RfMaxCalls \in Nat

VARIABLES rfBackend,  \* "ssh" or "ftp"
          rfNode,     \* what the server has at each path
          rfCall,     \* per task: its call
          rfPc,       \* per task: the request it makes next, or how it ended
          rfSaw,      \* per task: what it has read; before that, history: what src was
          rfCached,   \* per task: the mode its instance got from a listing, or none
          rfCalls,    \* calls made
          rfAlone     \* history, per task: no other task changed its paths since it was called

rfVars == <<rfBackend, rfNode, rfCall, rfPc, rfSaw, rfCached, rfCalls, rfAlone>>

RfOver == {"idle", "ok", "error"}
RfPrincipals == {"owner", "group"}

\* given is history: the grants of the updates of the mode, since the last one
\* that met another change or set a mode that came from a listing.
RfNone == [kind |-> "none", by |-> "", whole |-> TRUE, mode |-> {}, given |-> {}]
RfDir == [RfNone EXCEPT !.kind = "dir"]
RfFile(by) == [RfNone EXCEPT !.kind = "file", !.by = by]
RfSameData(n, m) == n.kind = m.kind /\ n.by = m.by /\ n.whole = m.whole
RfWith(n, old) == [n EXCEPT !.mode = old.mode, !.given = old.given]
RfNotCached == {"none"}

RfArgs == [op : RfOps, src : RfPaths, dst : RfPaths, force : BOOLEAN, ok : BOOLEAN, for : RfPrincipals]
RfNoArgs == [op |-> "write", src |-> CHOOSE p \in RfPaths : TRUE, dst |-> CHOOSE p \in RfPaths : TRUE,
             force |-> FALSE, ok |-> FALSE, for |-> "owner"]

\* Arguments an operation does not have are FALSE, "owner" and src itself.
RfSensible(a) ==
    /\ a.op \in {"rename", "replace"} \/ a.src = a.dst
    /\ a.op = "rename" \/ ~a.force
    /\ a.op \in {"unlink", "touch", "mkdir"} \/ ~a.ok
    /\ a.op = "policy" \/ a.for = "owner"
    /\ a.op # "replace" \/ rfBackend = "ssh"

RfSrc(t) == rfNode[rfCall[t].src]
RfDst(t) == rfNode[rfCall[t].dst]

\* The first request of a call.  SSH mkdir looks first unless exist_ok, FTP
\* mkdir only with exist_ok; replace removes the destination first; a rename
\* to its own path is over.
RfFirst(a) ==
    CASE a.op = "write"   -> IF rfBackend = "ssh" THEN "put" ELSE "truncate"
      [] a.op = "upload"  -> "truncate"
      [] a.op = "rename"  -> IF a.src = a.dst THEN "ok" ELSE "probe"
      [] a.op = "replace" -> "unlink dst"
      [] a.op = "unlink"  -> "unlink"
      [] a.op = "touch"   -> "exists"
      [] a.op = "mkdir"   -> IF a.ok = (rfBackend = "ftp") THEN "exists" ELSE "mkdir"
      [] a.op = "policy"  -> "attrs"

\* destination_state and require_force of a rename.
RfTakesForEqual(t) == IF RfDst(t).kind = "none" THEN "move" ELSE "unlink"
RfAfterProbe(t) ==
    IF RfDst(t).kind = "none" THEN "move"
    ELSE IF RfSameData(RfDst(t), RfSrc(t)) THEN "unlink"
    ELSE IF rfCall[t].force THEN "read" ELSE "error"

\* touch and mkdir know whether the path exists.
RfAfterExists(t, there) ==
    IF rfCall[t].op = "touch"
    THEN (IF ~there THEN "put empty" ELSE IF ~rfCall[t].ok THEN "error"
          ELSE IF rfBackend = "ssh" THEN "stamp" ELSE "ok")
    ELSE IF ~there THEN "mkdir" ELSE IF rfBackend = "ftp" THEN "ok" ELSE "error"

\* mkdir was refused.  exist_ok: SSH swallows "file exists" and looks again
\* after any other error, FTP swallows every status.
RfMkdirRefused(t) ==
    IF ~rfCall[t].ok THEN {"error"}
    ELSE IF rfBackend = "ftp" THEN {"ok"}
    ELSE {"recheck"} \cup (IF RfSrc(t).kind = "none" THEN {} ELSE {"ok"})

\* The mode an update starts from: cached by the listing the instance came
\* from, or what the server has.
RfFromListing(t) == rfBackend = "ssh" /\ rfCached[t] # RfNotCached
RfMode(t) == IF RfFromListing(t) THEN rfCached[t] ELSE RfSrc(t).mode

-----------------------------------------------------------------------------
RfInit ==
    /\ rfBackend \in {"ssh", "ftp"}
    /\ rfNode \in [RfPaths -> {RfNone, RfDir, RfFile("old")}]
    /\ rfCall = [t \in RfTasks |-> RfNoArgs] /\ rfPc = [t \in RfTasks |-> "idle"]
    /\ rfSaw = [t \in RfTasks |-> RfNone] /\ rfCached = [t \in RfTasks |-> RfNotCached]
    /\ rfCalls = 0 /\ rfAlone = [t \in RfTasks |-> TRUE]

\* Whoever uses a path that changes is not alone.
RfChange(t, node) ==
    /\ rfNode' = node
    /\ rfAlone' = [u \in RfTasks |->
                     rfAlone[u] /\ (u = t \/ \A p \in {rfCall[u].src, rfCall[u].dst} :
                                                node[p] = rfNode[p])]
RfGo(t, then) == rfPc' = [rfPc EXCEPT ![t] = then]

\* A call on a path instance, made from its name or taken from a listing.
RfCall(t) ==
    /\ rfPc[t] \in RfOver /\ rfCalls < RfMaxCalls
    /\ \E a \in RfArgs :
         /\ RfSensible(a)
         /\ rfCall' = [rfCall EXCEPT ![t] = a]
         /\ RfGo(t, RfFirst(a))
         /\ rfSaw' = [rfSaw EXCEPT ![t] = rfNode[a.src]]
         /\ \E mode \in {RfNotCached, rfNode[a.src].mode, rfCached[t]} :
              /\ a.op # "policy" => mode = RfNotCached
              /\ mode = rfCached[t] => mode = RfNotCached \/ rfCall[t].src = a.src
              /\ rfCached' = [rfCached EXCEPT ![t] = mode]
    /\ rfAlone' = [rfAlone EXCEPT ![t] = TRUE]
    /\ rfCalls' = rfCalls + 1
    /\ UNCHANGED <<rfBackend, rfNode>>

\* exists() or MLST
RfExists(t) ==
    /\ rfPc[t] = "exists"
    /\ RfGo(t, RfAfterExists(t, RfSrc(t).kind # "none"))
    /\ UNCHANGED <<rfBackend, rfNode, rfCall, rfSaw, rfCached, rfCalls, rfAlone>>

\* ssh_setstat of the times
RfStamp(t) ==
    /\ rfPc[t] = "stamp"
    /\ RfGo(t, IF RfSrc(t).kind = "none" THEN "error" ELSE "ok")
    /\ UNCHANGED <<rfBackend, rfNode, rfCall, rfSaw, rfCached, rfCalls, rfAlone>>

\* A request that writes a whole file: write_bytes(data), write_bytes(b"") of
\* touch, and the write of a copying rename.
RfPut(t) ==
    /\ rfPc[t] \in {"put", "put empty", "put copy"}
    /\ LET p == IF rfPc[t] = "put copy" THEN rfCall[t].dst ELSE rfCall[t].src
           file == CASE rfPc[t] = "put" -> RfFile(t)
                     [] rfPc[t] = "put empty" -> RfFile("empty")
                     [] rfPc[t] = "put copy" -> rfSaw[t]
       IN  /\ rfNode[p].kind # "dir"
           /\ RfChange(t, [rfNode EXCEPT ![p] = RfWith(file, @)])
    /\ RfGo(t, IF rfPc[t] = "put copy" THEN "unlink" ELSE "ok")
    /\ UNCHANGED <<rfBackend, rfCall, rfSaw, rfCached, rfCalls>>

\* The first chunk of a streamed upload, with truncate=True, and the others.
RfTruncate(t) ==
    /\ rfPc[t] = "truncate" /\ RfSrc(t).kind # "dir"
    /\ RfChange(t, [rfNode EXCEPT ![rfCall[t].src] =
                      RfWith([RfFile(t) EXCEPT !.whole = FALSE], @)])
    /\ RfGo(t, "append")
    /\ UNCHANGED <<rfBackend, rfCall, rfSaw, rfCached, rfCalls>>

RfAppend(t) ==
    /\ rfPc[t] = "append" /\ RfSrc(t).kind = "file"
    /\ RfChange(t, [rfNode EXCEPT ![rfCall[t].src].whole = (RfSrc(t).by = t),
                                  ![rfCall[t].src].by = IF @ = t THEN @ ELSE "mixed"])
    /\ RfGo(t, "ok")
    /\ UNCHANGED <<rfBackend, rfCall, rfSaw, rfCached, rfCalls>>

\* Two stats and, if both are files, two checksums.
RfProbe(t) ==
    /\ rfPc[t] = "probe" /\ RfSrc(t).kind = "file"
    /\ RfGo(t, RfAfterProbe(t))
    /\ UNCHANGED <<rfBackend, rfNode, rfCall, rfSaw, rfCached, rfCalls, rfAlone>>

\* ssh_rename refuses to overwrite; an FTP server may.
RfMove(t) ==
    /\ rfPc[t] = "move" /\ RfSrc(t).kind # "none" /\ rfCall[t].src # rfCall[t].dst
    /\ RfDst(t).kind = "none" \/ (rfBackend = "ftp" /\ RfDst(t).kind = "file")
    /\ RfChange(t, [rfNode EXCEPT ![rfCall[t].dst] = RfSrc(t), ![rfCall[t].src] = RfNone])
    /\ RfGo(t, "ok")
    /\ UNCHANGED <<rfBackend, rfCall, rfSaw, rfCached, rfCalls>>

\* super().rename(force=True): read, write, unlink.
RfRead(t) ==
    /\ rfPc[t] = "read" /\ RfSrc(t).kind = "file"
    /\ rfSaw' = [rfSaw EXCEPT ![t] = RfSrc(t)]
    /\ RfGo(t, "put copy")
    /\ UNCHANGED <<rfBackend, rfNode, rfCall, rfCached, rfCalls, rfAlone>>

\* unlink of the path, or of the target that replace() removes first, with
\* missing_ok; FTP takes a refusal (550, as for a missing file) for missing.
RfUnlink(t) ==
    /\ rfPc[t] \in {"unlink", "unlink dst"}
    /\ LET p == IF rfPc[t] = "unlink dst" THEN rfCall[t].dst ELSE rfCall[t].src
           missing_ok == rfPc[t] = "unlink dst" \/ rfCall[t].ok
           then == IF rfPc[t] = "unlink dst" THEN "move" ELSE "ok"
       IN  \/ /\ rfNode[p].kind = "file"
              /\ RfChange(t, [rfNode EXCEPT ![p] = RfNone]) /\ RfGo(t, then)
           \/ /\ rfNode[p].kind = "none" \/ rfBackend = "ftp"
              /\ missing_ok /\ RfGo(t, then) /\ UNCHANGED <<rfNode, rfAlone>>
    /\ UNCHANGED <<rfBackend, rfCall, rfSaw, rfCached, rfCalls>>

RfMkdir(t) ==
    /\ rfPc[t] = "mkdir"
    /\ \/ /\ RfSrc(t).kind = "none"
          /\ RfChange(t, [rfNode EXCEPT ![rfCall[t].src] = RfDir]) /\ RfGo(t, "ok")
       \/ \E then \in RfMkdirRefused(t) : RfGo(t, then) /\ UNCHANGED <<rfNode, rfAlone>>
    /\ UNCHANGED <<rfBackend, rfCall, rfSaw, rfCached, rfCalls>>

RfRecheck(t) ==
    /\ rfPc[t] = "recheck"
    /\ RfGo(t, IF RfSrc(t).kind = "dir" THEN "ok" ELSE "error")
    /\ UNCHANGED <<rfBackend, rfNode, rfCall, rfSaw, rfCached, rfCalls, rfAlone>>

\* update_access_policy: the mode is read, ...
RfAttrs(t) ==
    /\ rfPc[t] = "attrs" /\ RfSrc(t).kind = "file"
    /\ rfSaw' = [rfSaw EXCEPT ![t] = [RfNone EXCEPT !.mode = RfMode(t)]]
    /\ RfGo(t, "chmod")
    /\ UNCHANGED <<rfBackend, rfNode, rfCall, rfCached, rfCalls, rfAlone>>

\* ... the bits of the grants are changed in it and all of it is set.
RfChmod(t) ==
    /\ rfPc[t] = "chmod" /\ RfSrc(t).kind = "file"
    /\ LET mode == rfSaw[t].mode \cup {rfCall[t].for}
       IN  RfChange(t, [rfNode EXCEPT ![rfCall[t].src].mode = mode,
                                      ![rfCall[t].src].given = IF rfAlone[t] /\ ~RfFromListing(t)
                                                               THEN @ \cup {rfCall[t].for} ELSE mode])
    /\ RfGo(t, "ok")
    /\ UNCHANGED <<rfBackend, rfCall, rfSaw, rfCached, rfCalls>>

\* A request is refused or lost, or the task is cancelled: nothing is undone.
RfFail(t) ==
    /\ rfPc[t] \notin RfOver
    /\ RfGo(t, "error")
    /\ UNCHANGED <<rfBackend, rfNode, rfCall, rfSaw, rfCached, rfCalls, rfAlone>>

RfDone == (\A t \in RfTasks : rfPc[t] \in RfOver) /\ rfCalls = RfMaxCalls /\ UNCHANGED rfVars

RfNext ==
    \/ \E t \in RfTasks : \/ RfCall(t) \/ RfExists(t) \/ RfStamp(t) \/ RfPut(t) \/ RfTruncate(t)
                          \/ RfAppend(t) \/ RfProbe(t) \/ RfMove(t) \/ RfRead(t) \/ RfUnlink(t)
                          \/ RfMkdir(t) \/ RfRecheck(t) \/ RfAttrs(t) \/ RfChmod(t) \/ RfFail(t)
    \/ RfDone

RfSpec == RfInit /\ [][RfNext]_rfVars
-----------------------------------------------------------------------------
RfRequests == {"exists", "stamp", "put", "put empty", "put copy", "truncate", "append", "probe",
               "move", "read", "unlink", "unlink dst", "mkdir", "recheck", "attrs", "chmod"}
RfNodes == [kind : {"none", "dir", "file"}, by : {"", "old", "empty", "mixed"} \cup RfTasks,
            whole : BOOLEAN, mode : SUBSET RfPrincipals, given : SUBSET RfPrincipals]

\* Every variable has its type.
RfTypeOK ==
    /\ rfBackend \in {"ssh", "ftp"} /\ rfNode \in [RfPaths -> RfNodes]
    /\ rfCall \in [RfTasks -> RfArgs \cup {RfNoArgs}]
    /\ rfPc \in [RfTasks -> RfOver \cup RfRequests]
    /\ rfSaw \in [RfTasks -> RfNodes] /\ rfCalls \in 0..RfMaxCalls
    /\ rfCached \in [RfTasks -> (SUBSET RfPrincipals) \cup {RfNotCached}]
    /\ rfAlone \in [RfTasks -> BOOLEAN]

\* Wherever a rename or a replace stops, the file it was called on is still
\* there, under the one name or the other, if nobody else changed them and
\* they are two names (replace() of a file by itself removes it first).
RfNothingLost ==
    \A t \in RfTasks :
        LET a == rfCall[t]
        IN  a.op \in {"rename", "replace"} /\ a.src # a.dst /\ rfAlone[t] /\ rfSaw[t].kind = "file"
            => \E p \in {a.src, a.dst} : RfSameData(rfNode[p], rfSaw[t])

\* A call that returns has done what it is for, if nobody else changed its
\* paths: the upload is there and whole, touch left the data as it was, mkdir
\* with exist_ok has a directory.  (FTP mkdir swallows every refusal; an SSH
\* server may call a file that is there "existing".)
RfOkMeansDone ==
    \A t \in RfTasks :
        LET a == rfCall[t]
            node == rfNode[a.src]
        IN  rfPc[t] = "ok" /\ rfAlone[t] =>
              /\ a.op \in {"write", "upload"} => node.by = t /\ node.whole
              /\ a.op = "touch" /\ rfSaw[t].kind # "none" => RfSameData(node, rfSaw[t])
              /\ a.op = "mkdir" /\ rfBackend = "ssh" /\ rfSaw[t].kind # "file" => node.kind = "dir"

\* "Targeted changes to a resource access policy": what an update granted
\* stays granted when another update grants something else, unless the two
\* overlap or the other starts from the mode of an old listing.
RfGrantsKept == \A p \in RfPaths : rfNode[p].given \subseteq rfNode[p].mode

\* Operations of several requests keep the file, and what they report is true.
RfKeepsFiles == RfNothingLost /\ RfOkMeansDone /\ RfGrantsKept
=============================================================================
