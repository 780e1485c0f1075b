--------------------------- MODULE MCPathAlgebra ---------------------------
(* A bounded instance of PathAlgebra, for TLC: a base URL is configured and *)
(* the parents of paths are taken.                                          *)
EXTENDS PathAlgebra

Users == {[bases |-> <<<<"art.example", "artifactory">>>>, ops |-> {"parent"}]}
=============================================================================
