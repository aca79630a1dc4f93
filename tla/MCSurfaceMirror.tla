--------------------------- MODULE MCSurfaceMirror ---------------------------
(* One instance of SurfaceMirror for TLC: nothing tells two pixels apart. *)
EXTENDS SurfaceMirror, TLC

PixelSymmetry == Permutations(Px)
=============================================================================
