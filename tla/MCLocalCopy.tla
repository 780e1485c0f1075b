---------------------------- MODULE MCLocalCopy ----------------------------
(* Bounded instances of LocalCopy for TLC.                                 *)
EXTENDS LocalCopy

CONSTANTS p1, p2, p3

\* Every path is an entry of its own.
NoAlias == [p \in CpPaths |-> p]

\* p1 and p2 name one entry: a relative and an absolute path, for instance.
Alias == [p \in CpPaths |-> IF p = p2 THEN p1 ELSE p]

\* Moves of every kind, a copy that overwrites in place, and renames.
Kind(atomic, force, remove, rename) ==
    [atomic |-> atomic, force |-> force, remove |-> remove, rename |-> rename]
AllKinds == {Kind(a, f, TRUE, FALSE) : a, f \in BOOLEAN}
              \cup {Kind(FALSE, TRUE, FALSE, FALSE)}
              \cup {Kind(FALSE, f, TRUE, TRUE) : f \in BOOLEAN}

AtomicMove == {Kind(TRUE, FALSE, TRUE, FALSE)}
=============================================================================
