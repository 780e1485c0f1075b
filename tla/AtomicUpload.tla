--------------------------- MODULE AtomicUpload ---------------------------
(***************************************************************************)
(* What concurrent uploads to one key promise their callers, whatever the  *)
(* backend does inside: each upload replaces the object in one step by the *)
(* whole of its own file, at most once, and one that returns normally has  *)
(* done so before.  An upload that raises may or may not have: the request *)
(* that commits may be processed although its answer never arrives, even   *)
(* after the call was cancelled.                                           *)
(***************************************************************************)
CONSTANTS Files,  \* the uploads
          Before  \* stands for what was stored before any of them

VARIABLES object,  \* the upload whose whole file is stored, or Before
          stored,  \* the uploads that have replaced the object
          call     \* "running", "ok" or "raised"

vars == <<object, stored, call>>

Init == /\ object = Before
        /\ stored = {}
        /\ call = [f \in Files |-> "running"]

Commit(f) == /\ call[f] \in {"running", "raised"} /\ f \notin stored
             /\ object' = f
             /\ stored' = stored \cup {f}
             /\ UNCHANGED call

ReturnOk(f) == /\ call[f] = "running" /\ f \in stored
               /\ call' = [call EXCEPT ![f] = "ok"]
               /\ UNCHANGED <<object, stored>>

Raise(f) == /\ call[f] = "running"
            /\ call' = [call EXCEPT ![f] = "raised"]
            /\ UNCHANGED <<object, stored>>

Next == \E f \in Files : Commit(f) \/ ReturnOk(f) \/ Raise(f)

Spec == Init /\ [][Next]_vars
=============================================================================
