---------------------------- MODULE MCTreeMoves ----------------------------
(* Bounded instances of TreeMoves for TLC: two files in the root, one in a *)
(* directory below it, and one that is added there later.                  *)
EXTENDS TreeMoves

TreeDirs == {"r", "d"}
TreeFiles == [x |-> "r", y |-> "r", z |-> "d", n |-> "d"]
=============================================================================
