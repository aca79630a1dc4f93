----------------------------- MODULE VideoMemory -----------------------------
(***************************************************************************)
(* What the guest's display driver and the host's executor promise         *)
(* together: surfaces are one memory, whoever writes and whoever looks.    *)
(* Module SurfaceMirror has the copies of it on both sides.                *)
(*                                                                         *)
(* A write of the program that nobody was told of (GDI on a surface's DC)  *)
(* goes into the frame if it comes before the frame's first drawing, and   *)
(* stays over the frame's drawings if it comes later: that is `over'.      *)
(***************************************************************************)
CONSTANTS Handles, Px, Values, NoSurface

VARIABLES
  mem,      \* the picture of each surface
  over,     \* pixels the program wrote during a frame
  begun,    \* surfaces with a frame under way
  seen      \* what is looked at in this step

vars == <<mem, over, begun, seen>>

Pictures == [Px -> Values]
Nothing  == [at |-> NoSurface]

Init ==
  /\ mem \in [Handles -> Pictures]
  /\ over = [h \in Handles |-> {}] /\ begun = {}
  /\ seen = Nothing

Look(h) == seen' = [at |-> h, px |-> mem[h]]

(* The program writes a pixel. *)
Write(h, p, v) ==
  /\ mem' = [mem EXCEPT ![h][p] = v]
  /\ over' = [over EXCEPT ![h] = IF h \in begun THEN @ \cup {p} ELSE @]
  /\ UNCHANGED begun /\ seen' = Nothing

(* Direct3D begins a frame on h, or draws the pixels S of h, perhaps with  *)
(* what it sees of another surface.                                        *)
Render(h, S, v) ==
  /\ mem' = [mem EXCEPT ![h] = [p \in Px |->
               IF p \in S \ over[h] THEN v ELSE @[p]]]
  /\ begun' = begun \cup {h}
  /\ UNCHANGED over
  /\ seen' = Nothing \/ \E t \in Handles \ {h} : Look(t)

(* The program has Direct3D begin a frame that it will draw later. *)
Begin(h) ==
  /\ begun' = begun \cup {h} /\ UNCHANGED <<mem, over>> /\ seen' = Nothing

(* The frame ends: the program and Direct3D agree, and one may look. *)
Agree(h) ==
  /\ over' = [over EXCEPT ![h] = {}] /\ begun' = begun \ {h}
  /\ UNCHANGED mem
  /\ seen' = Nothing \/ Look(h)

(* The surface is released: its memory is anybody's. *)
Release(h) ==
  /\ \E m \in Pictures : mem' = [mem EXCEPT ![h] = m]
  /\ over' = [over EXCEPT ![h] = {}] /\ begun' = begun \ {h}
  /\ seen' = Nothing

(* Copies are made, tables are changed. *)
Inside == UNCHANGED <<mem, over, begun>> /\ seen' = Nothing

Next ==
  Inside \/
  \E h \in Handles :
     \/ \E p \in Px, v \in Values : Write(h, p, v)
     \/ \E S \in SUBSET Px, v \in Values : Render(h, S, v)
     \/ Begin(h) \/ Agree(h) \/ Release(h)

Spec == Init /\ [][Next]_vars
=============================================================================
