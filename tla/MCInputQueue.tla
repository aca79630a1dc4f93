--------------------------- MODULE MCInputQueue ---------------------------
(* Instances of InputQueue small enough for TLC. *)
EXTENDS InputQueue

CONSTANTS k1, s1, s2

(* A chord of two keys, so that its order is seen. *)
MCChord == {<<s1, s2>>}
===========================================================================
