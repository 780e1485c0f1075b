--------------------------- MODULE BackendUploads ---------------------------
(***************************************************************************)
(* Concurrent uploads to one key of an S3, Azure or GCS bucket: the three  *)
(* implementations of _upload_buffer over the one upload_parts they share. *)
(***************************************************************************)
EXTENDS S3Multipart, AzureBlocks, GcsResumable

VARIABLE backend   \* the backend the key belongs to

allvars == <<vars, cloudvars, s3vars, staged, gcsvars, backend>>

UploadsInit == /\ CloudInit /\ S3Init /\ AzInit /\ GcsInit
               /\ backend \in {"s3", "azure", "gcs"}

UploadsNext ==
    /\ \/ backend = "s3" /\ S3Next /\ UNCHANGED <<staged, gcsvars>>
       \/ backend = "azure" /\ AzNext /\ UNCHANGED <<s3vars, gcsvars>>
       \/ backend = "gcs" /\ GcsNext /\ UNCHANGED <<s3vars, staged>>
    /\ UNCHANGED backend

\* Every call is over and no thread is left.
UploadsIdle == /\ \A f \in Files : caller[f] \in CallerOver /\ reading[f] = {}
               /\ UNCHANGED allvars

UploadsSpec == UploadsInit /\ [][UploadsNext \/ UploadsIdle]_allvars
-----------------------------------------------------------------------------
Owner == CASE object = Old -> "before"
           [] \E f \in Files : object = WholeFile(f) -> CHOOSE f \in Files : object = WholeFile(f)
           [] OTHER -> "mixed"

\* A GCS upload that was told 308 for a chunk the session did not keep may
\* return normally without an object: nothing is promised of its return.
CallOf(f) == CASE caller[f] = "ok" /\ f \notin misled -> "ok"
               [] caller[f] = "ok" /\ f \in misled -> "raised"
               [] caller[f] \in {"error", "cancelled"} -> "raised"
               [] OTHER -> "running"

Abstract == INSTANCE AtomicUpload WITH
    Before <- "before",
    object <- Owner,
    call <- [f \in Files |-> CallOf(f)]

\* To its callers every backend's upload is one atomic replacement of the
\* object by the whole file, in source order, and a normal return means that it
\* took place; writers of one key never mix.
UploadIsAtomic == Abstract!Spec

\* On GCS the session is a prefix of the file and every chunk is sent at the
\* place it has in the file, however chunks are retried, lost or abandoned: the
\* offset _resumable_upload keeps never runs ahead of or behind its reads.
GcsSessionIsPrefix == backend = "gcs" => SessionIsPrefix

\* What an upload leaves on the server is what its call believes to have left:
\* parts that nobody sends any more, no upload that stays open, and a session
\* as long as the offset says.
ServerInStep == AbortAfterSettle /\ NoOrphanUpload /\ GcsSessionIsPrefix
=============================================================================
