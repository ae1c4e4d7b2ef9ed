-------------------------------- MODULE MCSsd --------------------------------
(* Instances of HBFSsdMedia for TLC, small: every interleaving counts. *)
EXTENDS HBFSsdMedia

CONSTANTS s1, s2

Both        == {s1, s2}
One         == {s1}
AllOnOne    == [p \in Page |-> s1]
LastOnOther == [p \in Page |-> IF p = NumPages - 1 THEN s2 ELSE s1]
=============================================================================
