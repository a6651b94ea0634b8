-------------------------- MODULE DefaultLocation --------------------------
(***************************************************************************)
(* What the readers of the default location rely on (findDefault, and the  *)
(* document ingest, which books every movement there): the first location  *)
(* is the default, and from then on there is always one; it moves from one *)
(* location to another in a single step, never through none.               *)
(***************************************************************************)
EXTENDS Naturals

VARIABLES count,      \* locations 1 .. count exist
          current     \* the default, 0 while there is no location

Init == count = 0 /\ current = 0

Add == /\ count' = count + 1
       /\ current' = IF current = 0 THEN count' ELSE current

Promote(id) == /\ id \in 1 .. count
               /\ current' = id
               /\ UNCHANGED count

Next == Add \/ \E id \in 1 .. count : Promote(id)

Spec == Init /\ [][Next]_<<count, current>>
=============================================================================
