------------------------------ MODULE FrameRing ------------------------------
(***************************************************************************)
(* How the pixels of a frame get to the window: in a ring of buffers that  *)
(* QEMU's thread draws into and the UI's GPU imports, or as a copy.        *)
(*                                                                         *)
(*   embed/mglcntx_embed.c  zc_present: the ring (vCPU thread)             *)
(*   player/src/qemu_vm.rs  on_3d_dmabuf, on_3d_frame_ready, on_3d_frame,  *)
(*                          on_refresh_done, under Shared's mutex          *)
(*   player/src/main.rs     user_event, present_guest_frame (UI thread)    *)
(*                                                                         *)
(* The UI interleaves with the callbacks at Shared's mutex, which it takes *)
(* once for the offered buffers and once for the frame, and with the blit  *)
(* into a buffer it may be showing.  When the UI's handlers run is the     *)
(* subject of module FrameArbiter; here they may run at any time.          *)
(*                                                                         *)
(* A picture is the number of the frame that published it.                 *)
(***************************************************************************)
EXTENDS Integers, Sequences, SequencesExt

CONSTANTS
  ZC_SLOTS,     \* buffers of the ring
  ZeroCopy,     \* Shared.zero_copy: the UI's GPU can import buffers
  MaxFrames,    \* bound of the model: frames ever published
  MaxGen        \* bound of the model: allocations of a slot

ASSUME RingAssumption == ZC_SLOTS \in Nat \ {0}
ASSUME BoundAssumption ==
  MaxFrames \in Nat \ {0} /\ MaxGen \in Nat /\ ZeroCopy \in BOOLEAN

Slots     == 0..ZC_SLOTS - 1
NoSlot    == -1
NoGen     == 0
NoPicture == 0
Garbage   == -1      \* a buffer that is being drawn, or was never drawn

VARIABLES
  frames,       \* frames published so far
  blit,         \* a blit into slot zcNext is under way
  zcOn,         \* zc_state is not 0: zero-copy was not given up
  zcNext,       \* zc_next
  fit,          \* zc[i] is allocated, at the drawable's size
  gen,          \* how often zc[i] was allocated
  tex,          \* the picture in each allocation of each slot
  \* Shared
  front,        \* the published frame
  fresh,        \* front.seq differs from the UI's last_seq
  offers,       \* dmabufs
  \* the UI thread
  ui,           \* where the running handler is
  ext,          \* the allocation of each slot that is imported
  extCurrent,   \* ext_current
  fb,           \* the picture that was uploaded last
  \* history
  shown,        \* the picture rendered last
  taken,        \* the picture of the frame taken last
  lapped,       \* frames put into the ring since then, up to a round
  missed,       \* the slot of that frame was not imported when it was taken
  refused       \* slots whose last import failed

ring    == <<zcOn, zcNext, fit, gen, tex>>
mailbox == <<front, fresh, offers>>
window  == <<ui, ext, extCurrent, fb, shown, taken, missed, refused>>
frameVars    == <<frames, blit, ring, mailbox, window, lapped>>

FrameTypeOK ==
  /\ frames \in 1..MaxFrames /\ blit \in BOOLEAN
  /\ zcOn \in BOOLEAN /\ zcNext \in Slots
  /\ fit \in [Slots -> BOOLEAN] /\ gen \in [Slots -> 0..MaxGen]
  /\ tex \in [Slots -> [1..MaxGen -> Garbage..MaxFrames]]
  /\ front \in [pic : 1..MaxFrames, slot : Slots \cup {NoSlot}]
  /\ fresh \in BOOLEAN
  /\ offers \in Seq([slot : Slots, gen : 1..MaxGen])
  /\ ui \in {"idle", "frame", "render"}
  /\ ext \in [Slots -> 0..MaxGen]
  /\ extCurrent \in Slots \cup {NoSlot}
  /\ fb \in 0..MaxFrames /\ shown \in Garbage..MaxFrames
  /\ taken \in 0..MaxFrames
  /\ lapped \in 0..ZC_SLOTS
  /\ missed \in BOOLEAN /\ refused \in SUBSET Slots

FrameInit ==
  /\ frames = 1 /\ blit = FALSE
  /\ zcOn = TRUE /\ zcNext = 0
  /\ fit = [s \in Slots |-> FALSE] /\ gen = [s \in Slots |-> NoGen]
  /\ tex = [s \in Slots |-> [g \in 1..MaxGen |-> Garbage]]
  /\ front = [pic |-> 1, slot |-> NoSlot] /\ fresh = TRUE /\ offers = <<>>
  /\ ui = "idle" /\ ext = [s \in Slots |-> NoGen] /\ extCurrent = NoSlot
  /\ fb = NoPicture /\ shown = NoPicture /\ taken = NoPicture /\ lapped = 0
  /\ missed = FALSE /\ refused = {}

---------------------------------------------------------------------------
(* A frame the UI has not seen is put in front. *)
Publish(slot) ==
  /\ frames < MaxFrames /\ frames' = frames + 1
  /\ front' = [pic |-> frames', slot |-> slot] /\ fresh' = TRUE

(* A frame that is copied under the mutex: a refresh of the VGA surface    *)
(* (on_refresh_done), or one that was read back (on_3d_frame).             *)
CopyFrame ==
  /\ ~blit
  /\ Publish(NoSlot)
  /\ UNCHANGED <<blit, ring, offers, window, lapped>>

(* The drawable is resized (drawable_resize), or released and the slots    *)
(* with it: no slot has its size any more.                                 *)
LoseDrawable ==
  /\ ~blit /\ \E s \in Slots : fit[s]
  /\ fit' = [s \in Slots |-> FALSE]
  /\ UNCHANGED <<frames, blit, zcOn, zcNext, gen, tex, mailbox, window, lapped>>

(* zc_present, the slot has the right size: the blit begins. *)
BlitIntoSlot ==
  /\ ~blit /\ zcOn /\ fit[zcNext] /\ frames < MaxFrames
  /\ tex' = [tex EXCEPT ![zcNext][gen[zcNext]] = Garbage]
  /\ blit' = TRUE
  /\ UNCHANGED <<frames, zcOn, zcNext, fit, gen, mailbox, window, lapped>>

(* zc_present, zc_slot_ensure: a new buffer is allocated and offered       *)
(* (on_3d_dmabuf), and the blit into it begins.                            *)
OfferSlot ==
  /\ ~blit /\ zcOn /\ ~fit[zcNext] /\ ZeroCopy /\ frames < MaxFrames
  /\ gen[zcNext] < MaxGen
  /\ gen' = [gen EXCEPT ![zcNext] = @ + 1]
  /\ fit' = [fit EXCEPT ![zcNext] = TRUE]
  /\ offers' = Append(offers, [slot |-> zcNext, gen |-> gen'[zcNext]])
  /\ blit' = TRUE
  /\ UNCHANGED <<frames, zcOn, zcNext, tex, front, fresh, window, lapped>>

(* zc_off: the offer is declined, or no buffer can be had.  This frame and *)
(* all later ones are read back.                                           *)
NoZeroCopy ==
  /\ ~blit /\ zcOn /\ ~fit[zcNext]
  /\ zcOn' = FALSE
  /\ fit' = [s \in Slots |-> FALSE]
  /\ Publish(NoSlot)
  /\ UNCHANGED <<blit, zcNext, gen, tex, offers, window, lapped>>

(* zc_present, after glFinish: on_3d_frame_ready, and on to slot next. *)
FrameReadyThen(next) ==
  /\ blit /\ blit' = FALSE
  /\ Publish(zcNext)
  /\ tex' = [tex EXCEPT ![zcNext][gen[zcNext]] = frames']
  /\ zcNext' = next
  /\ lapped' = IF lapped < ZC_SLOTS THEN lapped + 1 ELSE lapped
  /\ UNCHANGED <<zcOn, fit, gen, offers, window>>

(* A mutant: the ring is not advanced. *)
FrameReadySameSlot == FrameReadyThen(zcNext)

FrameReady == FrameReadyThen((zcNext + 1) % ZC_SLOTS)

---------------------------------------------------------------------------
(* import_slot for each of the offers os, in their order: the last one of  *)
(* a slot counts.  An import may fail: those of the slots failing do.      *)
OffersOf(os, s) == {i \in DOMAIN os : os[i].slot = s}
LastOffer(os, s) == CHOOSE i \in OffersOf(os, s) : \A j \in OffersOf(os, s) : j <= i

Imports(os, failing) ==
  /\ ext' = [s \in Slots |-> IF OffersOf(os, s) = {} THEN ext[s]
                             ELSE IF s \in failing THEN NoGen
                             ELSE os[LastOffer(os, s)].gen]
  /\ refused' = {s \in Slots : s \in IF OffersOf(os, s) = {} THEN refused ELSE failing}

TakeOffers(os) ==
  /\ \E failing \in SUBSET {os[i].slot : i \in DOMAIN os} : Imports(os, failing)
  /\ offers' = <<>>

(* user_event: take_dmabufs, and the imports. *)
ImportOffersOf(os) ==
  /\ ui = "idle" /\ offers # <<>>
  /\ TakeOffers(os)
  /\ UNCHANGED <<frames, blit, ring, front, fresh, ui, extCurrent, fb, shown, taken,
                 missed, lapped>>

ImportOffers == ImportOffersOf(offers)

(* RedrawRequested, present_guest_frame: the offers. *)
RedrawImports ==
  /\ ui = "idle" /\ ui' = "frame"
  /\ TakeOffers(offers)
  /\ UNCHANGED <<frames, blit, ring, front, fresh, extCurrent, fb, shown, taken, missed,
                 lapped>>

(* present_guest_frame: take_if_newer, and use_slot; a frame without a     *)
(* slot is uploaded, and shows slot copyShows.                             *)
TakeFrameWith(copyShows) ==
  LET s == front.slot
  IN  /\ ui = "frame" /\ ui' = "render"
      /\ IF fresh
         THEN /\ fresh' = FALSE /\ lapped' = 0 /\ taken' = front.pic
              /\ missed' = (s # NoSlot /\ ext[s] # gen[s])
              /\ extCurrent' = IF s = NoSlot THEN copyShows
                               ELSE IF ext[s] = NoGen THEN NoSlot ELSE s
              /\ fb' = IF s = NoSlot THEN front.pic ELSE fb
         ELSE UNCHANGED <<fresh, lapped, taken, missed, extCurrent, fb>>
      /\ UNCHANGED <<frames, blit, ring, front, offers, ext, shown, refused>>

(* A mutant: a copied frame leaves the slot selected. *)
TakeFrameKeepsSlot == TakeFrameWith(extCurrent)

TakeFrame == TakeFrameWith(NoSlot)

(* render: what current() yields is drawn; a slot whose import failed      *)
(* since draws nothing.                                                    *)
Render ==
  /\ ui = "render" /\ ui' = "idle"
  /\ shown' = IF extCurrent = NoSlot THEN fb
              ELSE IF ext[extCurrent] = NoGen THEN shown
              ELSE tex[extCurrent][ext[extCurrent]]
  /\ UNCHANGED <<frames, blit, ring, mailbox, ext, extCurrent, fb, taken, missed,
                 refused, lapped>>

---------------------------------------------------------------------------
Qemu ==
  CopyFrame \/ LoseDrawable \/ BlitIntoSlot \/ OfferSlot \/ NoZeroCopy \/ FrameReady

FrameUi == ImportOffers \/ RedrawImports \/ TakeFrame \/ Render

FrameNext == Qemu \/ FrameUi

FrameSpec == FrameInit /\ [][FrameNext]_frameVars

---------------------------------------------------------------------------
(* main.rs 854-880: between redraws the window shows the frame taken last  *)
(* or a later picture, if its slot was imported when it was taken.         *)
NeverOlder == ui = "idle" => shown >= taken \/ missed \/ shown = Garbage

(* mglcntx_embed.c 1009-1018: a slot is intact on screen until the backend *)
(* comes round to it again: the UI may be ZC_SLOTS - 2 frames late.        *)
IntactUnlessLapped == shown = Garbage => ui = "render" \/ lapped >= ZC_SLOTS - 1
===========================================================================
