--------------------------- MODULE InputChannel ---------------------------
(***************************************************************************)
(* What libqemu_embed.h promises of the input functions ("enqueue from any *)
(* thread, then flush once per batch"): events that were accepted are      *)
(* handed to the guest's input layer in the order of their acceptance,     *)
(* each of them once, some number of them at a time.                       *)
(***************************************************************************)
EXTENDS Integers, Sequences

CONSTANT Event

VARIABLES
  accepted,     \* every event accepted so far, oldest first
  handed        \* those of them that were handed on

Init == accepted = <<>> /\ handed = <<>>

Accept ==
  /\ \E e \in Event : accepted' = Append(accepted, e)
  /\ UNCHANGED handed

Hand ==
  /\ \E n \in Len(handed)..Len(accepted) : handed' = SubSeq(accepted, 1, n)
  /\ UNCHANGED accepted

Next == Accept \/ Hand

Spec == Init /\ [][Next]_<<accepted, handed>>
===========================================================================
