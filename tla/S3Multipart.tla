---------------------------- MODULE S3Multipart ----------------------------
(***************************************************************************)
(* S3Path._multipart_upload of src/src/asanypath/s3.py around upload_parts *)
(* (UploadParts): create the multipart upload under asyncio.shield, upload *)
(* the parts, complete it, and abort it on any exception.  The server side *)
(* is external: the three requests are modelled from their use here.       *)
(* A request may fail after the server processed it (its answer is lost).  *)
(***************************************************************************)
EXTENDS CloudUpload

VARIABLES creation,  \* the shielded s3_create_multipart task
          server,    \* the multipart upload as the server sees it
          pending,   \* the exception being handled: "none", "error", "cancelled"
          cut        \* history: the cleanup could not do its work

s3vars == <<creation, server, pending, cut>>

\* [results[number] for number in sorted(results)], what complete is sent.
InOrder(f) == [i \in 1..Cardinality(results[f]) |->
                 <<f, (CHOOSE r \in results[f] :
                         Cardinality({s \in results[f] : s.number < r.number}) = i - 1).content>>]

\* The exception the except block raises again.
InHand(f) == IF pending[f] = "none" THEN "error" ELSE pending[f]

\* s3_complete_multipart returns normally only when the upload was completed.
Confirmed(f) == server[f] = "completed"

\* asyncio.shield(creation): cancelling the caller leaves the request alone.
CreationExposed(f) ==
    /\ creation' = [creation EXCEPT ![f] = IF @ = "pending" THEN "cancelled" ELSE @]
    /\ server' = [server EXCEPT ![f] = "open"]
CreationShielded(f) == UNCHANGED <<creation, server>>

S3Init ==
    /\ creation = [f \in Files |-> "none"]
    /\ server = [f \in Files |-> "none"]
    /\ pending = [f \in Files |-> "none"]
    /\ cut = [f \in Files |-> FALSE]

-----------------------------------------------------------------------------
\* creation = asyncio.ensure_future(s3_create_multipart(...)), awaited shielded
RequestCreate(f) ==
    /\ caller[f] = "idle"
    /\ Goto(f, "create")
    /\ creation' = [creation EXCEPT ![f] = "pending"]
    /\ UNCHANGED <<vars, object, stored, server, pending, cut>>

\* The create task ends; it goes on while the caller is cancelled.
CreateAnswered(f) ==
    /\ creation[f] = "pending"
    /\ \/ /\ creation' = [creation EXCEPT ![f] = "created"]
          /\ server' = [server EXCEPT ![f] = "open"]
          /\ UNCHANGED cut
       \/ /\ creation' = [creation EXCEPT ![f] = "failed"]
          /\ \/ UNCHANGED <<server, cut>>
             \/ /\ server' = [server EXCEPT ![f] = "open"]
                /\ cut' = [cut EXCEPT ![f] = TRUE]
    /\ UNCHANGED <<vars, cloudvars, pending>>

\* upload_id is known: call upload_parts.
Created(f) ==
    /\ caller[f] = "create" /\ creation[f] = "created"
    /\ Goto(f, "upload")
    /\ EnterScope(f)
    /\ UNCHANGED <<object, stored, s3vars>>

\* The except block while upload_id is None: nothing to abort when the
\* creation failed, otherwise abort what it created.
CreationSettled(f) ==
    /\ \/ caller[f] = "create" /\ creation[f] = "failed"
       \/ caller[f] = "await creation" /\ creation[f] \in {"created", "failed", "cancelled"}
    /\ pending' = [pending EXCEPT ![f] = InHand(f)]
    /\ Goto(f, IF creation[f] = "created" THEN "abort" ELSE InHand(f))
    /\ UNCHANGED <<vars, object, stored, creation, server, cut>>

\* upload_parts returned (complete the upload) or raised (abort it).
PartsUploaded(f) ==
    /\ caller[f] = "upload" /\ job[f] \in Returned
    /\ Goto(f, IF job[f] = "ok" THEN "complete" ELSE "abort")
    /\ pending' = [pending EXCEPT ![f] = IF job[f] = "ok" THEN @ ELSE job[f]]
    /\ UNCHANGED <<vars, object, stored, creation, server, cut>>

\* The server processes s3_complete_multipart (external), which is sent once
\* upload_parts has returned.  It refuses an empty list of parts.
ServerCompletes(f) ==
    /\ caller[f] \notin {"idle", "upload"} /\ job[f] = "ok"
    /\ server[f] = "open" /\ results[f] # {}
    /\ server' = [server EXCEPT ![f] = "completed"]
    /\ Store(f, InOrder(f))
    /\ UNCHANGED <<vars, caller, creation, pending, cut>>

\* The answer to it arrives, or the request fails.
CompleteAnswered(f) ==
    /\ caller[f] = "complete"
    /\ \/ /\ Confirmed(f)
          /\ Goto(f, "ok")
          /\ UNCHANGED pending
       \/ /\ Goto(f, "abort")
          /\ pending' = [pending EXCEPT ![f] = "error"]
    /\ UNCHANGED <<vars, object, stored, creation, server, cut>>

\* s3_abort_multipart: done, or failed, which is only logged (the upload may
\* be completed already); the exception is raised again either way.
AbortAnswered(f) ==
    /\ caller[f] = "abort"
    /\ \/ /\ server[f] = "open"
          /\ server' = [server EXCEPT ![f] = "aborted"]
          /\ UNCHANGED cut
       \/ /\ UNCHANGED server
          /\ cut' = [cut EXCEPT ![f] = TRUE]
    /\ Goto(f, pending[f])
    /\ UNCHANGED <<vars, object, stored, creation, pending>>

\* Cancelled in "await asyncio.shield(creation)".
CancelCreate(f) ==
    /\ caller[f] = "create"
    /\ Goto(f, "await creation")
    /\ pending' = [pending EXCEPT ![f] = "cancelled"]
    /\ CreationShielded(f)
    /\ UNCHANGED <<vars, object, stored, cut>>

\* Cancelled in s3_complete_multipart.
CancelComplete(f) ==
    /\ caller[f] = "complete"
    /\ Goto(f, "abort")
    /\ pending' = [pending EXCEPT ![f] = "cancelled"]
    /\ UNCHANGED <<vars, object, stored, creation, server, cut>>

\* Cancelled in the except block: in "await creation", which cancels the
\* creation too, or in the abort, whose request may or may not be processed.
CancelCleanup(f) ==
    /\ \/ /\ caller[f] = "await creation" /\ creation[f] = "pending"
          /\ creation' = [creation EXCEPT ![f] = "cancelled"]
          /\ server' \in {server, [server EXCEPT ![f] = "open"]}
       \/ /\ caller[f] = "abort"
          /\ server' \in {server, [server EXCEPT ![f] = IF @ = "open" THEN "aborted" ELSE @]}
          /\ UNCHANGED creation
    /\ Goto(f, "cancelled")
    /\ pending' = [pending EXCEPT ![f] = "cancelled"]
    /\ cut' = [cut EXCEPT ![f] = TRUE]
    /\ UNCHANGED <<vars, object, stored>>

\* upload_parts at work, or cancelled.
S3Pool(f) ==
    /\ caller[f] = "upload"
    /\ \/ JobStep(f)
       \/ Cancel(f)
       \/ \E w \in Workers : WorkerStep(f, w)
    /\ UNCHANGED <<cloudvars, s3vars>>

\* A thread may outlive the upload.
S3Thread(f, w) == ThreadStep(f, w) /\ UNCHANGED <<cloudvars, s3vars>>

S3Next == \E f \in Files :
    \/ S3Pool(f) \/ RequestCreate(f) \/ CreateAnswered(f) \/ Created(f)
    \/ CreationSettled(f) \/ PartsUploaded(f) \/ ServerCompletes(f)
    \/ CompleteAnswered(f) \/ AbortAnswered(f)
    \/ CancelCreate(f) \/ CancelComplete(f) \/ CancelCleanup(f)
    \/ \E w \in Workers : S3Thread(f, w)
-----------------------------------------------------------------------------
\* README: "On S3 failure or cancellation, in-flight workers are cancelled and
\* joined before aborting the multipart upload": while the abort request runs,
\* and after the call, no worker can still send a part of this upload.
AbortAfterSettle ==
    \A f \in Files : caller[f] = "abort" \/ caller[f] \in CallerOver =>
        \A w \in Workers : worker[f][w] \in Ended

\* The shielded creation and the except block leave no multipart upload open
\* on the server, wherever the task is cancelled and whichever request fails,
\* unless the server's answer was lost, the abort itself failed, or a further
\* cancellation was thrown into the except block.
NoOrphanUpload ==
    \A f \in Files : caller[f] \in CallerOver /\ server[f] = "open" => cut[f]
=============================================================================
