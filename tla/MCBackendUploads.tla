-------------------------- MODULE MCBackendUploads --------------------------
(* A bounded instance of BackendUploads for TLC.                           *)
EXTENDS BackendUploads, TLC

WriterSymmetry == Permutations(Files)
=============================================================================
