------------------------------ MODULE MCCaches ------------------------------
(* Bounded instances, for TLC, of the two caches of content: DownloadCache *)
(* and ListingCache.  They share no state; `suite` names the one that runs *)
(* in a behaviour, and the other stays as it begins.                       *)
EXTENDS DownloadCache, ListingCache, TLC

\* A cache of three bytes whose rows live for a second, and one of one byte whose
\* rows do not expire.  Two rows of the first version are too many for the large
\* one, one of each version fill it; the small one retains the second version only.
CacheSizes == <<2, 1>>
Settings == {[limit |-> 3, ttl |-> 1], [limit |-> 1, ttl |-> 0]}

\* Which listing covers which path.
Below == {<<"r", "ra">>, <<"r", "ra/x">>, <<"ra", "ra/x">>}

CallSymmetry == Permutations(DcReaders) \cup Permutations(DcKeys)

VARIABLE suite

allVars == <<dcVars, lcVars, suite>>

\* The inputs of a component that does not run do not matter: one is enough.
Init ==
    /\ suite \in {"downloads", "listings"}
    /\ DcInit /\ (suite # "downloads" => \A q, r \in DcReaders : dcKey[q] = dcKey[r])
    /\ LcInit

Next ==
    \/ suite = "downloads" /\ DcNext /\ UNCHANGED <<lcVars, suite>>
    \/ suite = "listings" /\ LcNext /\ UNCHANGED <<dcVars, suite>>

Spec == Init /\ [][Next]_allVars

\* Every variable of the two caches has its type; in particular a path and an
\* identity have at most one listing (cloud.py _list_entries).
CachesTypeOK == IF suite = "downloads" THEN DcTypeOK ELSE LcTypeOK
=============================================================================
