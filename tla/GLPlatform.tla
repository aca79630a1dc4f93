------------------------------- MODULE GLPlatform -------------------------------
(***************************************************************************)
(* embed/mglcntx_embed.c, the platform layer: what plat_*() does on Linux   *)
(* (EGL), macOS (CGL) and Windows (WGL).  The state is one record, and an   *)
(* operator gives the record after the call.                                *)
(*                                                                          *)
(* GL names (textures, framebuffers) mean something only in the context     *)
(* that made them, or in its share group.  On Linux and Windows a pbuffer   *)
(* plays the window; on macOS every context has a framebuffer of its own    *)
(* in place of framebuffer 0, and all attach the same two renderbuffers.    *)
(***************************************************************************)
EXTENDS Integers, FiniteSets, FiniteSetsExt

CONSTANTS
  MaxLevels,    \* MAX_LVLCNTX
  MaxPbuffers,  \* MAX_PBUFFER
  ZcSlots,      \* ZC_SLOTS
  Sizes, Default,  \* sizes of a picture; 640 x 480
  Platforms     \* a subset of {"linux", "macos", "windows"}

ASSUME PlatformAssumption ==
  /\ MaxLevels \in Nat \ {0, 1} /\ {MaxPbuffers, ZcSlots} \subseteq Nat \ {0}
  /\ Sizes \subseteq Nat \ {0} /\ Default \in Sizes
  /\ Platforms \subseteq {"linux", "macos", "windows"}

Levels   == 0..MaxLevels - 1
Pbuffers == 0..MaxPbuffers - 1
Slots    == 0..ZcSlots - 1
None     == 0
Gone     == -1   \* a context that was destroyed
Contexts == Nat \ {None}

NoSlot     == [owner |-> None, size |-> 0]
NoFbo      == [ctx |-> None, size |-> 0, attached |-> FALSE]
NoRb       == [named |-> FALSE, size |-> 0, groups |-> {}]
Ready(os) == [os |-> os,
  live |-> {}, group |-> [c \in {} |-> None],
  lost |-> {},         \* history: contexts whose handle was written over
  cur |-> None,        \* the current context
  onwin |-> FALSE,     \* ... and if it draws in the drawable
  win |-> 0,           \* the drawable's size; 0: there is none
  pb |-> [i \in Pbuffers |-> None],       \* PBRC; on macOS, where pb_fbo was made
  zc |-> os # "windows", ring |-> [i \in Slots |-> NoSlot], zc_next |-> 0,
  dfbo |-> [i \in Levels |-> NoFbo], cur_dfbo |-> None, dfbo_ok |-> FALSE,  \* macOS
  rb |-> NoRb]                                                            \* macOS

World(g) ==
  g \in [os : Platforms, live : SUBSET Contexts, group : [g.live -> Contexts], lost : SUBSET Contexts,
    cur : Contexts \cup {None, Gone}, onwin : BOOLEAN, win : Sizes \cup {0},
    pb : [Pbuffers -> Contexts \cup {None, Gone}],
    zc : BOOLEAN, ring : [Slots -> [owner : Contexts \cup {None, Gone}, size : Sizes \cup {0}]],
    zc_next : Slots,
    dfbo : [Levels -> [ctx : Contexts \cup {None}, size : Sizes \cup {0}, attached : BOOLEAN]],
    cur_dfbo : Contexts \cup {None, Gone}, dfbo_ok : BOOLEAN,
    rb : [named : BOOLEAN, size : Sizes \cup {0}, groups : SUBSET Contexts]]

---------------------------------------------------------------------------
(* Contexts *)

(* The new context, and the group whose objects it shares: share's, or its  *)
(* own.                                                                     *)
Fresh(g) ==
  LET used == g.live \cup {g.group[c] : c \in g.live}
  IN CHOOSE c \in 1..Cardinality(used) + 1 : c \notin used

CtxCreate(g, share) ==
  LET c == Fresh(g) IN
  [g EXCEPT !.live = @ \cup {c},
            !.group = [d \in g.live \cup {c} |->
              IF d # c THEN @[d] ELSE IF share \in g.live THEN @[share] ELSE c]]

Unbind(g) == [g EXCEPT !.cur = None, !.onwin = FALSE, !.cur_dfbo = None, !.dfbo_ok = FALSE]

(* The names go while a context is there to delete them in, or with theirs. *)
SlotFreed(g, i) == [g EXCEPT !.ring[i] = NoSlot]
RingFreed(g)    == [g EXCEPT !.ring = [i \in Slots |-> NoSlot]]

(* The handles in C mean nothing any more, and a group goes with its last. *)
Buried(g, C) ==
  LET left == g.live \ C
      Name(x) == IF x \in C THEN Gone ELSE x
  IN [g EXCEPT !.live = left, !.group = [d \in left |-> @[d]],
               !.pb = [i \in Pbuffers |-> Name(@[i])], !.cur_dfbo = Name(@),
               !.ring = [i \in Slots |-> [g.ring[i] EXCEPT !.owner = Name(@)]],
               !.rb.groups = @ \cap {g.group[d] : d \in left},
               !.dfbo = [i \in Levels |-> IF @[i].ctx \in C THEN NoFbo ELSE @[i]]]

(* macOS: the renderbuffers are taken to be gone with the main context.     *)
RbForgotten(g) ==
  [g EXCEPT !.rb = NoRb, !.dfbo = [i \in Levels |-> [@[i] EXCEPT !.attached = FALSE]],
            !.pb = [i \in Pbuffers |-> None]]

(* A mutant: the ring's buffers stay behind *)
CtxDestroyRingKept(g, C, main) ==
  LET n == IF main \in C /\ g.os = "macos" THEN RbForgotten(g) ELSE g
      d == Buried(n, C \ {None})
  IN IF g.cur \notin C THEN d
     ELSE IF g.os = "linux" THEN [d EXCEPT !.cur = IF @ = None THEN None ELSE Gone]
     ELSE Unbind(d)

(* The contexts in C are destroyed one after the other, the main one last. *)
CtxDestroy(g, C, main) ==
  LET f == IF main \in C /\ g.os # "windows" THEN RingFreed(g) ELSE g
      n == IF main \in C /\ g.os = "macos" THEN RbForgotten(f) ELSE f
      d == Buried(n, C \ {None})
  IN IF g.cur \notin C THEN d
     ELSE IF g.os = "linux" THEN [d EXCEPT !.cur = IF @ = None THEN None ELSE Gone]
     ELSE Unbind(d)

---------------------------------------------------------------------------
(* The drawable *)

(* macOS: an unused name is made where it is bound first, so the            *)
(* renderbuffers come to be in the group of the current context, and what   *)
(* is attached to them there follows their size.                            *)
RbEnsure(g, size) ==
  LET gr == g.group[g.cur] IN
  IF g.rb.named /\ g.rb.size = size THEN g
  ELSE [g EXCEPT !.rb = [named |-> TRUE, size |-> size, groups |-> @.groups \cup {gr}],
                 !.dfbo = [i \in Levels |->
                   IF @[i].attached /\ g.group[@[i].ctx] = gr THEN [@[i] EXCEPT !.size = size] ELSE @[i]]]

EglDrawable(g, size) == [g EXCEPT !.win = size]
WglDrawable(g, size) == [g EXCEPT !.win = size, !.onwin = g.cur # None]
CglDrawable(g, size) == IF g.cur \in g.live THEN RbEnsure(g, size) ELSE g

Drawable(g, size) ==
  IF g.os = "linux" THEN EglDrawable(g, size)
  ELSE IF g.os = "macos" THEN CglDrawable(g, size) ELSE WglDrawable(g, size)

(* macOS leaves its objects to the end of the main context.                 *)
EglRelease(g) == [RingFreed(g) EXCEPT !.win = 0]
WglRelease(g) == IF g.win # 0 THEN [Unbind(g) EXCEPT !.win = 0] ELSE g

DrawableRelease(g) ==
  IF g.os = "linux" THEN EglRelease(g) ELSE IF g.os = "macos" THEN g ELSE WglRelease(g)

(* macOS: the current context's stand-in for framebuffer 0.  It is complete *)
(* if the renderbuffers' names meant something when it attached them.       *)
DfboEnsure(g, size) ==
  LET n    == RbEnsure(g, size)
      mine == {i \in Levels : n.dfbo[i].ctx = n.cur}
      free == {i \in Levels : n.dfbo[i].ctx = None}
      there == n.group[n.cur] \in n.rb.groups
      In(w, i) == [w EXCEPT !.cur_dfbo = w.cur, !.dfbo_ok = w.dfbo[i].size # 0]
  IN IF mine # {} THEN In(n, Min(mine))
     ELSE IF free = {} THEN n
     ELSE In([n EXCEPT !.dfbo[Min(free)] =
                [ctx |-> n.cur, size |-> IF there THEN n.rb.size ELSE 0, attached |-> there]], Min(free))

(* EGL refuses a drawable with no context; WGL and CGL then unbind.         *)
EglMakeCurrent(g, c) ==
  IF c # None THEN [g EXCEPT !.cur = c, !.onwin = g.win # 0]
  ELSE IF g.win = 0 THEN Unbind(g) ELSE g
WglMakeCurrent(g, c) == IF c = None THEN Unbind(g) ELSE [g EXCEPT !.cur = c, !.onwin = TRUE]
CglMakeCurrent(g, c, size) ==
  LET n == [g EXCEPT !.cur = c, !.onwin = FALSE] IN
  IF c = None THEN n ELSE DfboEnsure(n, IF size = 0 THEN Default ELSE size)

MakeCurrent(g, c, size) ==
  IF g.os = "linux" THEN EglMakeCurrent(g, c)
  ELSE IF g.os = "macos" THEN CglMakeCurrent(g, c, size) ELSE WglMakeCurrent(g, c)

(* The size of the picture in the current framebuffer 0; 0: there is none.  *)
WindowPicture(g) == IF g.onwin THEN g.win ELSE 0
FboPicture(g) ==
  LET mine == {i \in Levels : g.dfbo[i].ctx = g.cur_dfbo} IN
  IF g.dfbo_ok /\ mine # {} THEN g.dfbo[Min(mine)].size ELSE 0
Picture(g) == IF g.os = "macos" THEN FboPicture(g) ELSE WindowPicture(g)

---------------------------------------------------------------------------
(* Zero-copy: a ring of buffers the frontend has imported.                  *)

(* zc_slot_ensure: the frontend may decline a new buffer, and then the ring *)
(* is given up for good.                                                    *)
SlotEnsured(g, i, size, taken) ==
  IF g.ring[i].owner # None /\ g.ring[i].size = size
  THEN g
  ELSE IF taken THEN [SlotFreed(g, i) EXCEPT !.ring[i] = [owner |-> g.cur, size |-> size]]
  ELSE [RingFreed(g) EXCEPT !.zc = FALSE]

(* The frame goes by the ring, or is read back.                             *)
Present(g, size, taken) ==
  IF ~g.zc THEN g
  ELSE LET n == SlotEnsured(g, g.zc_next, size, taken) IN
       IF n.zc THEN [n EXCEPT !.zc_next = (@ + 1) % ZcSlots] ELSE n

---------------------------------------------------------------------------
(* The guest's pbuffers: a context each, or on macOS a framebuffer in the   *)
(* current one.                                                             *)

PbufferFbo(g, i) == [g EXCEPT !.pb[i] = g.cur]

(* Linux asks for the surface and then for the context, and cleans nothing  *)
(* up: refused the surface, it keeps the context, and the handle is written *)
(* over when the slot is tried again, whatever is answered then.            *)
PbufferContext(g, i, how) ==
  LET c == IF how = "context" THEN None ELSE Fresh(g)
  IN [(IF how = "context" THEN g ELSE CtxCreate(g, g.cur))
        EXCEPT !.pb[i] = c, !.lost = @ \cup ({g.pb[i]} \ {None})]

(* What the host may answer: it refuses Linux one part or another, and the  *)
(* other platforms clean up what they have.                                 *)
Answers(g) == {"made"} \cup IF g.os = "linux" THEN {"config", "surface", "context"} ELSE {"pbuffer"}
PbufferCreate(g, i, how) ==
  IF how \in {"config", "pbuffer"} THEN g
  ELSE IF g.os = "macos" THEN PbufferFbo(g, i) ELSE PbufferContext(g, i, how)

PbufferDestroy(g, i) ==
  IF g.os = "macos" \/ g.pb[i] = None THEN [g EXCEPT !.pb[i] = None]
  ELSE [CtxDestroy(g, {g.pb[i]}, Gone) EXCEPT !.pb[i] = None]

PbufferCurrent(g, i) ==
  IF g.os = "macos" \/ (g.os = "windows" /\ g.pb[i] = None) THEN g
  ELSE [g EXCEPT !.cur = g.pb[i], !.onwin = FALSE]
=============================================================================
