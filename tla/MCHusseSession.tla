--------------------------- MODULE MCHusseSession ---------------------------
(* Instances of HusseSession for TLC: what comes back from the store.        *)
EXTENDS HusseSession, TLC

CONSTANTS a1, a2   \* accounts at Husse

Symmetry == Permutations(Request) \cup Permutations(Tenant) \cup Permutations({a1, a2})

\* "key1+" is the key of "key1" with URLs of its own.
FromStore ==
    [axonaut |-> [key1 |-> "key1", key1plus |-> "key1", key2 |-> "key2"],
     husse   |-> [a \in {a1, a2} |-> a]]
=============================================================================
