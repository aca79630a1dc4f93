---------------------------- MODULE FrameArbiter ----------------------------
(***************************************************************************)
(* Which picture the window shows: the guest's VGA surface or its 3D.      *)
(*                                                                         *)
(*   player/src/qemu_vm.rs  the display callbacks publish frames, under    *)
(*                          Shared's mutex, and wake the event loop        *)
(*   player/src/main.rs     user_event and RedrawRequested take them       *)
(*                                                                         *)
(* The callbacks run with QEMU's big lock held, so one of them runs at a   *)
(* time; the UI thread interleaves with them at Shared's mutex.  How the   *)
(* pixels travel (a copy, or a buffer shared with the GPU) is the subject  *)
(* of module FrameRing.                                                    *)
(*                                                                         *)
(* A picture is the number of the drawing that made it: a larger number is *)
(* a later picture.  front.seq is only compared for equality with the one  *)
(* the UI took last: the model keeps the outcome, fresh.  It starts after  *)
(* the first refresh tick, from where on no width is zero.                 *)
(***************************************************************************)
EXTENDS Integers

CONSTANT MaxDrawn   \* bound of the model: pictures ever drawn

ASSUME BoundAssumption == MaxDrawn \in Nat \ {0}

Black    == 0
Pictures == 1..MaxDrawn

VARIABLES
  drawn,      \* pictures drawn so far (history)
  turn,       \* "wake" while a callback has published and not yet woken the UI
  \* Shared
  back,       \* the VGA surface as last copied: its picture
  grace,      \* switched_at is less than SWITCH_GRACE ago
  uniform,    \* ... and the surface is of one colour
  vgaDirty,   \* vga_dirty
  threeD,     \* three_d
  recent,     \* last_3d is less than VGA_FALLBACK ago
  front,      \* the published frame
  fresh,      \* front.seq differs from the UI's last_seq
  \* the event loop and the UI thread
  wake,       \* a user event is queued
  redraw,     \* a redraw is requested
  ui,         \* where the UI thread is
  shown,      \* the picture on screen
  skipped,    \* the last redraw got no image to draw on
  fx          \* the last picture of 3D (history)

surface == <<back, grace, uniform, vgaDirty>>
mailbox == <<front, fresh, turn>>
window  == <<wake, redraw, ui, shown, skipped>>
vars    == <<drawn, surface, threeD, recent, mailbox, window, fx>>

TypeOK ==
  /\ drawn \in Pictures /\ turn \in {"idle", "wake"}
  /\ back \in Pictures
  /\ grace \in BOOLEAN /\ uniform \in BOOLEAN /\ vgaDirty \in BOOLEAN
  /\ uniform => grace
  /\ threeD \in BOOLEAN /\ recent \in BOOLEAN
  /\ front \in [pic : Pictures, black : BOOLEAN] /\ fresh \in BOOLEAN
  /\ wake \in BOOLEAN /\ redraw \in BOOLEAN /\ ui \in {"idle", "redraw"}
  /\ shown \in Pictures \cup {Black} /\ skipped \in BOOLEAN
  /\ fx \in 0..MaxDrawn

Init ==
  /\ drawn = 1 /\ turn = "wake"
  /\ back = 1 /\ grace = FALSE /\ uniform = FALSE /\ vgaDirty = FALSE
  /\ threeD = FALSE /\ recent = FALSE
  /\ front = [pic |-> 1, black |-> FALSE] /\ fresh = TRUE
  /\ wake = FALSE /\ redraw = FALSE /\ ui = "idle"
  /\ shown = Black /\ skipped = FALSE /\ fx = 0

---------------------------------------------------------------------------
(* The guest draws one more picture. *)
Draw == turn = "idle" /\ drawn < MaxDrawn /\ drawn' = drawn + 1

(* on_switch, on_update: the VGA surface is copied.  A switch to another   *)
(* mode is remembered.                                                     *)
VgaDraws(oneColour, modeChange) ==
  /\ Draw
  /\ back' = drawn' /\ vgaDirty' = TRUE
  /\ grace' = (grace \/ modeChange)
  /\ uniform' = (grace' /\ oneColour)
  /\ UNCHANGED <<threeD, recent, mailbox, window, fx>>

(* A frame the UI has not seen is put in front. *)
Publish(pic, black) ==
  /\ front' = [pic |-> pic, black |-> black] /\ fresh' = TRUE /\ turn' = "wake"

Hidden == threeD /\ (recent \/ ~vgaDirty)

(* on_refresh_done, unless the VGA surface is hidden.  A fill of one       *)
(* colour shortly after a mode change is shown black; anything else ends   *)
(* the grace, which stillGrace tells.                                      *)
RefreshUnless(hidden, stillGrace) ==
  /\ turn = "idle" /\ ~hidden
  /\ vgaDirty' = FALSE
  /\ Publish(back, uniform)
  /\ grace' = stillGrace
  /\ UNCHANGED <<drawn, back, uniform, threeD, recent, window, fx>>

(* A mutant: the VGA surface is only shown if there is no 3D. *)
RefreshOnlyWithout3D == RefreshUnless(threeD, uniform)

(* on_refresh_done: 3D hides the VGA surface unless no frame came for a    *)
(* second and the guest drew on the surface.                               *)
RefreshDone == RefreshUnless(Hidden, uniform)

(* on_3d_active *)
SetActive(on) ==
  /\ turn = "idle" /\ threeD # on
  /\ threeD' = on
  /\ UNCHANGED <<drawn, surface, recent, mailbox, window, fx>>

(* on_3d_frame, on_3d_frame_ready, note_3d_frame: published at once. *)
Frame3D ==
  /\ Draw
  /\ Publish(drawn', FALSE)
  /\ recent' = TRUE /\ fx' = drawn'
  /\ UNCHANGED <<surface, threeD, window>>

(* The waker, after Shared is unlocked. *)
Wake ==
  /\ turn = "wake" /\ turn' = "idle"
  /\ wake' = TRUE
  /\ UNCHANGED <<drawn, surface, threeD, recent, front, fresh, redraw, ui, shown,
                 skipped, fx>>

(* Time passes: VGA_FALLBACK, SWITCH_GRACE. *)
FallbackElapses ==
  /\ recent /\ recent' = FALSE
  /\ UNCHANGED <<drawn, surface, threeD, mailbox, window, fx>>

GraceElapses ==
  /\ grace /\ grace' = FALSE /\ uniform' = FALSE
  /\ UNCHANGED <<drawn, back, vgaDirty, threeD, recent, mailbox, window, fx>>

---------------------------------------------------------------------------
(* user_event: several wakes may have coalesced into this one. *)
UserEvent ==
  /\ ui = "idle" /\ wake
  /\ wake' = FALSE /\ redraw' = TRUE
  /\ UNCHANGED <<drawn, surface, threeD, recent, mailbox, ui, shown, skipped, fx>>

(* The window system wants a redraw. *)
Expose ==
  /\ ~redraw /\ redraw' = TRUE
  /\ UNCHANGED <<drawn, surface, threeD, recent, mailbox, wake, ui, shown, skipped, fx>>

(* RedrawRequested: acquire; without an image the handler returns. *)
Acquire(got) ==
  /\ ui = "idle" /\ redraw
  /\ redraw' = FALSE /\ skipped' = ~got
  /\ ui' = IF got THEN "redraw" ELSE "idle"
  /\ UNCHANGED <<drawn, surface, threeD, recent, mailbox, wake, shown, fx>>

(* RedrawRequested goes on: take_if_newer, and what was taken is drawn. *)
Present ==
  /\ ui = "redraw" /\ ui' = "idle"
  /\ fresh' = FALSE
  /\ shown' = IF ~fresh THEN shown ELSE IF front.black THEN Black ELSE front.pic
  /\ UNCHANGED <<drawn, surface, threeD, recent, front, turn, wake, redraw, skipped, fx>>

---------------------------------------------------------------------------
Guest ==
  \/ \E oneColour, modeChange \in BOOLEAN : VgaDraws(oneColour, modeChange)
  \/ \E on \in BOOLEAN : SetActive(on)
  \/ Frame3D

Time == FallbackElapses \/ GraceElapses

Ui == UserEvent \/ Present \/ \E got \in BOOLEAN : Acquire(got)

Next == Guest \/ RefreshDone \/ Wake \/ Time \/ Ui \/ Expose

(* The refresh timer ticks and time passes; a callback that has begun      *)
(* ends; the event loop reaches every event that is queued.                *)
Fairness ==
  /\ WF_vars(RefreshDone) /\ WF_vars(Wake)
  /\ WF_vars(FallbackElapses) /\ WF_vars(GraceElapses)
  /\ SF_vars(UserEvent) /\ SF_vars(\E got \in BOOLEAN : Acquire(got))
  /\ WF_vars(Present)

Spec == Init /\ [][Next]_vars
FairSpec == Spec /\ Fairness

---------------------------------------------------------------------------
(* qemu_vm.rs 413-419, main.rs 1422-1425: a published frame that the UI    *)
(* has not taken has somebody on the way to it, however the wakes of       *)
(* several frames coalesce; but for a redraw that got nothing to draw on.  *)
NoFrameForgotten ==
  fresh => turn = "wake" \/ wake \/ redraw \/ ui = "redraw" \/ skipped

(* qemu_vm.rs 506-525: what the guest drew on the VGA surface after its    *)
(* last 3D picture is published in the end, whether or not 3D is active.   *)
(* (A fill of one colour may stay black as long as 3D is active.)          *)
(* main.rs 854-880: a picture that stays the published one gets to the     *)
(* screen, if the window has an image to draw on.                          *)
PicturesArrive ==
  \A n \in Pictures :
    /\ back = n /\ n > fx ~>
         back # n \/ fx > n \/ (front.pic = n /\ (front.black => threeD))
    /\ front.pic = n /\ ~front.black ~>
         shown = n \/ front.pic # n \/ front.black \/ skipped
===========================================================================
