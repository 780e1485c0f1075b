---------------------------- MODULE GcsResumable ----------------------------
(***************************************************************************)
(* GCSPath._resumable_upload of src/src/asanypath/gcs.py around            *)
(* upload_parts (UploadParts, with parallel=False): start a session for    *)
(* the declared size, then send the chunks one after the other, each at    *)
(* the offset the previous ones reached.  The server is external: it keeps *)
(* what the session persisted, ignores a chunk it already has, keeps none  *)
(* that leaves a gap or goes beyond the declared size, and creates the     *)
(* object when the declared size is reached.  It may also keep less of a   *)
(* chunk than it was sent and answer 308 with a Range header that says so; *)
(* the client does not look at that header (a chunk is the unit here: one  *)
(* persisted in part counts as not persisted).                             *)
(***************************************************************************)
EXTENDS CloudUpload

VARIABLES offset,     \* the upload's offset, in parts
          persisted,  \* content its session has persisted
          stray,      \* chunks the client gave up on, which may still arrive
          misled      \* history: uploads told 308 for a chunk that was not persisted

gcsvars == <<offset, persisted, stray, misled>>

\* offset += len(chunk), after the chunk was answered.
OffsetAfter(f) == offset[f] + 1

\* gcs_upload_chunk: "bytes offset-end/total" for the chunk a worker holds.
Sent(f) == {[at |-> offset[f], content |-> held[f][w].content] :
              w \in {v \in Workers : worker[f][v] = "upload"}}

\* The server has everything before the chunk, and expects it.
Expected(f, at) == at = Len(persisted[f]) /\ at < declared[f]

GcsInit ==
    /\ offset = [f \in Files |-> 0]
    /\ persisted = [f \in Files |-> <<>>]
    /\ stray = [f \in Files |-> {}]
    /\ misled = {}

\* gcs_start_resumable is sent,
StartSession(f) ==
    /\ caller[f] = "idle"
    /\ Goto(f, "start")
    /\ UNCHANGED <<vars, object, stored, gcsvars>>

\* and answered with the session's URI, or not, or cancelled.
SessionStarted(f) ==
    /\ caller[f] = "start"
    /\ \/ Goto(f, "upload") /\ EnterScope(f)
       \/ Goto(f, "error") /\ UNCHANGED vars
       \/ Goto(f, "cancelled") /\ UNCHANGED vars
    /\ UNCHANGED <<object, stored, gcsvars>>

\* The server processes a chunk, again perhaps (the request layer retries).
ServerPersists(f, chunk) ==
    LET after == Append(persisted[f], <<f, chunk.content>>)
    IN  /\ Expected(f, chunk.at)
        /\ persisted' = [persisted EXCEPT ![f] = after]
        /\ IF Len(after) = declared[f] THEN Store(f, after) ELSE UNCHANGED <<object, stored>>
        /\ UNCHANGED <<vars, caller, offset, stray, misled>>

\* 308 or 2xx is success, whatever the session has by then; anything else
\* fails the part.
ChunkAnswered(f, w) ==
    /\ \/ /\ offset[f] < declared[f]
          /\ UploadDone(f, w)
          /\ offset' = [offset EXCEPT ![f] = OffsetAfter(f)]
          /\ misled' = IF offset[f] < Len(persisted[f]) THEN misled ELSE misled \cup {f}
          /\ UNCHANGED stray
       \/ /\ UploadFail(f, w)
          /\ stray' = [stray EXCEPT ![f] = @ \cup Sent(f)]
          /\ UNCHANGED <<offset, misled>>
    /\ UNCHANGED <<cloudvars, persisted>>

\* upload_parts is over, and with it the call: nothing is left to commit.
PartsSent(f) ==
    /\ caller[f] = "upload" /\ job[f] \in Returned
    /\ Goto(f, job[f])
    /\ UNCHANGED <<vars, object, stored, gcsvars>>

\* upload_parts is cancelled; its chunk is on the way.
CancelChunk(f) ==
    /\ caller[f] = "upload"
    /\ Cancel(f)
    /\ stray' = [stray EXCEPT ![f] = @ \cup Sent(f)]
    /\ UNCHANGED <<cloudvars, offset, persisted, misled>>

\* upload_parts at work with one worker.
GcsPool(f) ==
    /\ caller[f] = "upload"
    /\ \/ job[f] = "scope" /\ Spawn(f, 1)
       \/ Settle(f)
       \/ Return(f)
       \/ \E w \in Workers : AcquireSlot(f, w) \/ StartRead(f, w)
    /\ UNCHANGED <<cloudvars, gcsvars>>

\* A thread may outlive the upload.
GcsThread(f, w) == ThreadStep(f, w) /\ UNCHANGED <<cloudvars, gcsvars>>

GcsNext == \E f \in Files :
    \/ GcsPool(f) \/ StartSession(f) \/ SessionStarted(f) \/ PartsSent(f) \/ CancelChunk(f)
    \/ \E chunk \in Sent(f) \cup stray[f] : ServerPersists(f, chunk)
    \/ \E w \in Workers : ChunkAnswered(f, w) \/ GcsThread(f, w)
-----------------------------------------------------------------------------
\* Each session persisted a prefix of its file, at most one chunk beyond the
\* client's offset and, unless the client was told 308 for a chunk that was not
\* persisted, never behind it; a chunk is sent at the place it has in the file.
SessionIsPrefix ==
    \A f \in Files :
        /\ persisted[f] = SubSeq(WholeFile(f), 1, Len(persisted[f]))
        /\ Len(persisted[f]) <= offset[f] + 1
        /\ f \in misled \/ offset[f] <= Len(persisted[f])
        /\ \A chunk \in Sent(f) : chunk.at = chunk.content - 1
=============================================================================
