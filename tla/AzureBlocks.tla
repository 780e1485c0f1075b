---------------------------- MODULE AzureBlocks ----------------------------
(***************************************************************************)
(* AzurePath._block_upload of src/src/asanypath/azure.py around            *)
(* upload_parts (UploadParts): each upload stages its parts as blocks      *)
(* under ids of its own and commits the list of ids in source order.  The  *)
(* server is external: the blob has uncommitted blocks, and a commit       *)
(* discards the ones it does not name.  A block staged after its client    *)
(* gave up is one more that no list names.                                 *)
(***************************************************************************)
EXTENDS CloudUpload

VARIABLE staged   \* uncommitted blocks of the blob: id, writer and content

\* base64(upload_id + index); upload_id is a fresh uuid of the upload.
BlockIdShared(f, number) == [upload |-> "any", index |-> number]
BlockId(f, number) == [upload |-> f, index |-> number]

\* az_put_block: a block of the same id is replaced.
Staged(f, part) ==
    {b \in staged : b.id # BlockId(f, part.number)}
        \cup {[id |-> BlockId(f, part.number), writer |-> f, content |-> part.content]}

\* block_ids, as upload_parts returns them: in the order of their numbers.
BlockIds(f) == [i \in 1..Cardinality(results[f]) |-> BlockId(f, i)]

\* What the server commits for a list of ids, each of which must be staged.
Listed(ids) == [i \in 1..Len(ids) |->
                  LET b == CHOOSE c \in staged : c.id = ids[i] IN <<b.writer, b.content>>]

AzInit == staged = {}

\* The upload draws its upload_id and calls upload_parts.
BlockUpload(f) ==
    /\ caller[f] = "idle"
    /\ Goto(f, "upload")
    /\ EnterScope(f)
    /\ UNCHANGED <<object, stored, staged>>

\* A put_block request is processed by the server while its worker waits.
ServerStages(f, w) ==
    /\ worker[f][w] = "upload"
    /\ staged' = Staged(f, held[f][w])
    /\ UNCHANGED <<vars, cloudvars>>

\* Its answer arrives only when the block is staged; without an answer the
\* request fails, staged or not.
PutBlockAnswered(f, w) ==
    /\ \/ /\ \E b \in staged : b.id = BlockId(f, held[f][w].number)
          /\ UploadDone(f, w)
       \/ UploadFail(f, w)
    /\ UNCHANGED <<cloudvars, staged>>

\* upload_parts returned: send the block list; it raised: let it propagate.
PartsStaged(f) ==
    /\ caller[f] = "upload" /\ job[f] \in Returned
    /\ Goto(f, IF job[f] = "ok" THEN "commit" ELSE job[f])
    /\ UNCHANGED <<vars, object, stored, staged>>

\* The server processes az_put_block_list, perhaps after the upload gave up: it
\* commits, or refuses a list that names a block it does not have.
ServerCommits(f) ==
    /\ caller[f] \in {"commit", "error", "cancelled"} /\ job[f] = "ok" /\ f \notin stored
    /\ \A i \in DOMAIN BlockIds(f) : \E b \in staged : b.id = BlockIds(f)[i]
    /\ Store(f, Listed(BlockIds(f)))
    /\ staged' = {}
    /\ UNCHANGED <<vars, caller>>

\* The answer, a failure before or after the commit, or a cancellation.
CommitAnswered(f) ==
    /\ caller[f] = "commit"
    /\ \/ f \in stored /\ Goto(f, "ok")
       \/ Goto(f, "error")
       \/ Goto(f, "cancelled")
    /\ UNCHANGED <<vars, object, stored, staged>>

\* upload_parts at work, or cancelled.
AzPool(f) ==
    /\ caller[f] = "upload"
    /\ \/ JobStep(f)
       \/ Cancel(f)
       \/ \E w \in Workers : AcquireSlot(f, w) \/ StartRead(f, w)
    /\ UNCHANGED <<cloudvars, staged>>

\* A thread may outlive the upload.
AzThread(f, w) == ThreadStep(f, w) /\ UNCHANGED <<cloudvars, staged>>

AzNext == \E f \in Files :
    \/ AzPool(f) \/ BlockUpload(f) \/ PartsStaged(f) \/ ServerCommits(f) \/ CommitAnswered(f)
    \/ \E w \in Workers : ServerStages(f, w) \/ PutBlockAnswered(f, w) \/ AzThread(f, w)
=============================================================================
