------------------------------- MODULE MCOrder ------------------------------
(* Instances of the controller with the order history of HBFOrder for TLC. *)
EXTENDS MCController, HBFOrder

Overwriting == {R0, H0, K0, W0}
Mixed       == {R0, H0, K0, W0, R1, H1}
=============================================================================
