------------------------------- MODULE MCMedia ------------------------------
(* Instances of HBFMedia for TLC. *)
EXTENDS HBFMedia

CONSTANTS s1, s2

Subarrays       == {s1, s2}
AllOnOne        == [p \in Page |-> s1]
Interleaved     == [p \in Page |-> IF p % 2 = 0 THEN s1 ELSE s2]
=============================================================================
