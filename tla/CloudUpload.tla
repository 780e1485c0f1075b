---------------------------- MODULE CloudUpload ----------------------------
(***************************************************************************)
(* What the _upload_buffer of the S3, Azure and GCS backends have in       *)
(* common.  Each member of Files is a file one part long or longer (a      *)
(* shorter one is sent with a single request), and all of them are         *)
(* uploaded to ONE key, through upload_parts (UploadParts).  The server is *)
(* external: a request may fail although it was processed, and may be      *)
(* processed after its client gave up.                                     *)
(*                                                                         *)
(* A file has the size that was declared for it; README.md says what       *)
(* happens to one that changes.                                            *)
(***************************************************************************)
EXTENDS UploadParts, Sequences

VARIABLES caller,  \* where the coroutine that calls upload_parts is
          object,  \* content of the key: pairs of file and part, in order
          stored   \* history: the uploads the server has committed

cloudvars == <<caller, object, stored>>

CallerOver == {"ok", "error", "cancelled"}

Old == <<>>
WholeFile(f) == [i \in 1..parts[f] |-> <<f, i>>]

CloudInit ==
    /\ Init
    /\ parts = declared
    /\ caller = [f \in Files |-> "idle"]
    /\ object = Old
    /\ stored = {}

\* The server replaces the object by what upload f gave it.
Store(f, content) == object' = content /\ stored' = stored \cup {f}

\* The coroutine reaches another await.
Goto(f, place) == caller' = [caller EXCEPT ![f] = place]
=============================================================================
