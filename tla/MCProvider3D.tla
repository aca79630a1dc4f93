------------------------------ MODULE MCProvider3D ------------------------------
(* The attribute lists of the guest differ in nothing but being different.  *)
EXTENDS Provider3D, TLC

Symmetry == Permutations(Lists)
=============================================================================
