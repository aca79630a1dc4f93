---------------------------- MODULE MCShelfDrive ----------------------------
(* Two discs, and the shelf files that hold one or both of them; an empty  *)
(* file is what a truncated one is.                                        *)
EXTENDS ShelfDrive, TLC

CONSTANTS d1, d2

MCShelves == {<<d1>>, <<d1, d2>>, <<d2, d1>>}
=============================================================================
