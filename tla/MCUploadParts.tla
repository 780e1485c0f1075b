--------------------------- MODULE MCUploadParts ---------------------------
(* A bounded instance of UploadParts for TLC.                              *)
EXTENDS UploadParts

\* Files that nobody changes between stat and the last read.
StableInit == Init /\ declared = parts

StableSpec == StableInit /\ [][Next \/ Idle]_vars /\ Fairness
=============================================================================
