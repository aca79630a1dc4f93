-------------------------- MODULE MCDisplayAdapter ---------------------------
(* The adapter's screen, and the display driver's life: two machines, a behaviour is  *)
(* of one of them.  The machine has at most one of little memory, no executor, a        *)
(* refused surface and a flag.                                                          *)
EXTENDS DisplayAdapter, DisplayDriver

VARIABLE part

Any(w, h, bpp, hz) == [w |-> w, h |-> h, bpp |-> bpp, hz |-> hz]
MCRequests == {Any(0, 0, 8, 1), Any(1600, 1200, 32, 85)}
MCFlagSets == {{}, {"NO_CKEY"}, {"NO_D3D", "ENGINE_BITMAP"}, {"NO_DX8", "NO_HWVB"}}

MCInit ==
  /\ Init /\ DriverInit
  /\ LET odd == <<cmd_offset = 0, ~exec, ~accepts, ddflags # {}>> IN
     \/ part = "driver" /\ \A i, j \in 1..4 : odd[i] /\ odd[j] => i = j
     \/ part = "screen" /\ \A i \in 1..4 : ~odd[i]

MCNext ==
  \/ part = "screen" /\ Next /\ UNCHANGED <<part, driverVars>>
  \/ part = "driver" /\ DriverNext /\ UNCHANGED <<part, vars>>

MCSpec == MCInit /\ [][MCNext]_<<part, vars, driverVars>> /\ Fairness
=============================================================================
