------------------------------- MODULE Provider3D -------------------------------
(***************************************************************************)
(* The 3D provider of the embed library: the guest's OpenGL and its Glide   *)
(* draw into one offscreen drawable, and the frames go to the frontend.     *)
(*                                                                          *)
(*   embed/mglcntx_embed.c   what hw/mesa and the Glide wrapper call        *)
(*   embed/embedfx.c         the UI provider: the 3D edge, Glide's window   *)
(*                                                                          *)
(* Every call runs on the vCPU thread with the BQL held, so a call is one   *)
(* step.  The guest's programs decide which call comes next.                *)
(***************************************************************************)
EXTENDS GLPlatform

CONSTANTS
  Programs,  \* what a guest uses: sets of "levels", "pbuffers", "glide", beside OpenGL's main context
  Lists,     \* bound of the model: attribute lists of the guest
  MaxFaults  \* bound of the model: contexts, drawables and pbuffers the host refuses

ASSUME GuestAssumption ==
  Programs \subseteq SUBSET {"levels", "pbuffers", "glide"} /\ None \notin Lists /\ MaxFaults \in Nat

VARIABLES
  uses,         \* the guest's programs
  g,            \* the host's GL
  ctx,          \* the context levels; 0 is the main one
  glide_ctx,
  win_ready, win_size, readback,  \* win_w and win_h; the size of the buffer
  pbuffers,     \* the slots of hPbuffer in use
  attribs,      \* the guest's list, as CompareAttribArray has it
  fx_active,    \* the frontend shows 3D
  glide_res, glide_open,
  mode,         \* the size of the guest's 2D surface
  \* history
  frame,        \* the frame of the last step, if it handed one over
  shared,       \* Glide had a context beside OpenGL's, or lost the drawable to it; on macOS: it had one
  bare,         \* the host had refused the drawable while the current context was so
  faults

mesa  == <<ctx, attribs, pbuffers>>
glide == <<glide_ctx, glide_res, glide_open>>
vars  == <<uses, g, mesa, glide, win_ready, win_size, readback, fx_active, mode, frame, shared, bare, faults>>

NoFrame == [by |-> None, size |-> 0, picture |-> 0, into |-> 0, home |-> TRUE]

TypeOK ==
  /\ uses \in Programs /\ World(g) /\ ctx \in [Levels -> Contexts \cup {None}] /\ glide_ctx \in Contexts \cup {None}
  /\ {win_ready, fx_active, glide_open, shared, bare} \subseteq BOOLEAN
  /\ {win_size, readback, glide_res} \subseteq Sizes \cup {0} /\ mode \in Sizes
  /\ pbuffers \subseteq Pbuffers /\ attribs \in Lists \cup {None} /\ faults \in 0..MaxFaults
  /\ frame \in [by : Contexts \cup {None}, size : Sizes \cup {0}, picture : Sizes \cup {0},
                into : Sizes \cup {0}, home : BOOLEAN]

NoLevels == [n \in Levels |-> None]

Init ==
  /\ uses \in Programs /\ \E os \in Platforms : g = Ready(os)
  /\ ctx = NoLevels /\ attribs = None /\ pbuffers = {}
  /\ glide_ctx = None /\ glide_res = 0 /\ glide_open = FALSE
  /\ win_ready = FALSE /\ win_size = 0 /\ readback = 0
  /\ fx_active = FALSE /\ mode \in Sizes
  /\ frame = NoFrame /\ shared = FALSE /\ bare = FALSE /\ faults = 0

---------------------------------------------------------------------------
(* The drawable, the levels, a frame: on a bundle w of the state they share *)

Bundle == [g |-> g, ctx |-> ctx, ready |-> win_ready, size |-> win_size, readback |-> readback,
           frame |-> NoFrame]

Becomes(w) ==
  /\ g' = w.g /\ ctx' = w.ctx /\ win_ready' = w.ready /\ win_size' = w.size
  /\ readback' = w.readback /\ frame' = w.frame

\* What the host may do with a request; the macOS drawable is made later.
Outcomes  == IF faults < MaxFaults THEN BOOLEAN ELSE {TRUE}
Faulty(ok) == faults' = IF ok THEN faults ELSE faults + 1

(* A mutant: the buffer that pictures are read into keeps its size *)
ResizedAlone(w, size, ok) ==
  IF (w.ready /\ w.size = size) \/ ~(ok \/ w.g.os = "macos") THEN w
  ELSE [w EXCEPT !.g = Drawable(@, size), !.size = size,
                 !.readback = IF @ = 0 THEN size ELSE @]

Resized(w, size, ok) ==
  IF (w.ready /\ w.size = size) \/ ~(ok \/ w.g.os = "macos") THEN w
  ELSE [w EXCEPT !.g = Drawable(@, size), !.size = size, !.readback = size]

(* plat_ctx_destroy and the zero in the table, level by level from the top. *)
Destroyed(w, N) ==
  [w EXCEPT !.g = CtxDestroy(@, {w.ctx[n] : n \in N} \ {None}, w.ctx[0]),
            !.ctx = [n \in Levels |-> IF n \in N THEN None ELSE @[n]]]

Created(w, n, share, ok) ==
  IF ~ok THEN [w EXCEPT !.ctx[n] = None]
  ELSE [w EXCEPT !.ctx[n] = Fresh(w.g), !.g = CtxCreate(@, share)]

Unbound(w) == [w EXCEPT !.g = Unbind(@)]

(* publish_frame: by the ring, or by the buffer the picture is read into;   *)
(* macOS hands nothing over from an incomplete framebuffer.                 *)
Published(w, taken) ==
  IF ~w.ready \/ w.readback = 0 \/ (w.g.os = "macos" /\ ~w.g.dfbo_ok) THEN w
  ELSE LET n == Present(w.g, w.size, taken) IN
       [w EXCEPT !.g = n, !.frame =
         [by |-> w.g.cur, size |-> w.size, picture |-> Picture(w.g),
          into |-> IF n.zc THEN n.ring[w.g.zc_next].size ELSE w.readback,
          home |-> n.zc => n.ring[w.g.zc_next].owner = w.g.cur]]

(* present_frame: only the main context's picture is the screen's; then the *)
(* drawable follows the guest's 2D mode.                                    *)
Presented(w, taken, ok) ==
  LET n == IF w.g.cur = w.ctx[0] THEN Published(w, taken) ELSE w
  IN IF n.size = mode THEN n ELSE Resized(n, mode, ok)

---------------------------------------------------------------------------
(* OpenGL *)

(* MGLPresetPixelFormat, by whichever pixel format call comes first.  With  *)
(* SetPixelFormat, TmpContextPurge: the main context goes if no level above *)
(* 1 is there.                                                              *)
Preset(w, ok) == IF w.ready THEN w ELSE Resized([w EXCEPT !.ready = TRUE, !.size = 0], mode, ok)
Purged(w)     == IF \E n \in Levels : n > 1 /\ w.ctx[n] # None THEN w ELSE Destroyed(w, {0})

PixelFormat(set) ==
  \E ok \in Outcomes :
    /\ ~win_ready \/ set
    /\ LET w == Preset(Bundle, ok) IN Becomes(IF set THEN Purged(w) ELSE w)
    /\ Faulty(ok)
    /\ UNCHANGED <<attribs, pbuffers, glide, fx_active, mode, shared>>

(* A mutant: the levels above the main context stay *)
CreateContextAlone(ok) ==
  LET w == Unbound(Bundle) IN
  /\ win_ready
  /\ Becomes(IF w.ctx[0] = None THEN Created(w, 0, None, ok) ELSE w) /\ Faulty(ok)
  /\ UNCHANGED <<attribs, pbuffers, glide, fx_active, mode>>

(* MGLCreateContext, for the window: the levels start over.                 *)
CreateContext(ok) ==
  LET w == Destroyed(Unbound(Bundle), Levels \ {0}) IN
  /\ win_ready
  /\ Becomes(IF w.ctx[0] = None THEN Created(w, 0, None, ok) ELSE w) /\ Faulty(ok)
  /\ UNCHANGED <<attribs, pbuffers, glide, fx_active, mode>>

(* wglCreateContextAttribsARB with no context to share with: another list   *)
(* than the one the contexts were made for makes them all anew.             *)
CreateMain(list, ok) ==
  LET w == Unbound(Bundle) IN
  /\ Becomes(IF attribs = list THEN w ELSE Created(Destroyed(w, Levels), 0, None, ok))
  /\ Faulty(ok) /\ attribs' = list
  /\ fx_active' = (fx_active /\ attribs = list)
  /\ UNCHANGED <<pbuffers, glide, mode>>

(* A mutant: the level that makes room is only forgotten *)
ShiftedOnly(w) ==
  [w EXCEPT !.ctx = [n \in Levels |-> IF n \in 1..MaxLevels - 2 THEN w.ctx[n + 1] ELSE w.ctx[n]]]

(* ... and with one: the next level, in the place of level 1 if there is no *)
(* room.                                                                    *)
Shifted(w) ==
  [w EXCEPT !.g = CtxDestroy(@, {w.ctx[1]}, w.ctx[0]),
            !.ctx = [n \in Levels |-> IF n \in 1..MaxLevels - 2 THEN w.ctx[n + 1] ELSE w.ctx[n]]]

CreateLevel(ok) ==
  LET free == {n \in Levels : ctx[n] = None}
      n    == IF free = {} THEN MaxLevels - 1 ELSE Min(free)
      w    == IF free = {} THEN Shifted(Bundle) ELSE Bundle
  IN /\ ctx[0] # None
     /\ Becomes(Created(w, n, w.ctx[n - 1], ok)) /\ Faulty(ok)
     /\ UNCHANGED <<attribs, pbuffers, glide, fx_active, mode>>

(* MGLMakeCurrent: a level, in the drawable of the mode's size.             *)
MakeLevelCurrent(n, ok) ==
  LET w == Resized(Bundle, mode, ok) IN
  /\ win_ready
  /\ Becomes([w EXCEPT !.g = MakeCurrent(@, ctx[n], w.size)]) /\ Faulty(ok)
  /\ fx_active' = (fx_active \/ n = 0)
  /\ UNCHANGED <<attribs, pbuffers, glide, mode>>

(* hw/mesa swaps for a guest that has a context current.                    *)
SwapBuffers(taken, ok) ==
  /\ g.cur # None
  /\ Becomes(Presented(Bundle, taken, ok)) /\ Faulty(ok)
  /\ fx_active' = TRUE
  /\ UNCHANGED <<attribs, pbuffers, glide, mode>>

(* fx_glFlush, fx_glFinish: what was drawn in the front buffer is shown.    *)
(* The guest may have selected the front buffer whenever it likes.          *)
FlushFront(taken) ==
  /\ g.os = "macos" /\ g.cur # None
  /\ Becomes(Presented(Bundle, taken, TRUE))
  /\ UNCHANGED <<attribs, pbuffers, glide, fx_active, mode, faults>>

(* MGLDeleteContext keeps the main context itself.                          *)
DeleteContext(level) ==
  LET w == Unbound(Bundle) IN
  /\ Becomes(IF level = 0 THEN Destroyed(w, Levels \ {0})
             ELSE [w EXCEPT !.g = CtxDestroy(@, {ctx[level]}, ctx[0]), !.ctx[level] = None])
  /\ fx_active' = (fx_active /\ level # 0)
  /\ UNCHANGED <<attribs, pbuffers, glide, mode, faults>>

(* A mutant: the context stays current while its window goes *)
WndReleaseBound ==
  LET w == Destroyed(Bundle, {0}) IN
  /\ win_ready
  /\ Becomes([w EXCEPT !.g = DrawableRelease(@), !.size = 0, !.ready = FALSE])
  /\ attribs' = None /\ fx_active' = FALSE
  /\ UNCHANGED <<pbuffers, glide, mode, faults>>

WndRelease ==
  LET w == Destroyed(Unbound(Bundle), {0}) IN
  /\ win_ready
  /\ Becomes([w EXCEPT !.g = DrawableRelease(@), !.size = 0, !.ready = FALSE])
  /\ attribs' = None /\ fx_active' = FALSE
  /\ UNCHANGED <<pbuffers, glide, mode, faults>>

(* wglCreatePbufferARB.  A full table, and macOS with no context current,   *)
(* refuse and change nothing.                                               *)
CreatePbuffer(how) ==
  LET i == Min(Pbuffers \ pbuffers) IN
  /\ pbuffers # Pbuffers /\ g.cur # Gone /\ (g.os = "macos" => g.cur # None)
  /\ how \in Answers(g) /\ (how = "made") \in Outcomes /\ Faulty(how = "made")
  /\ Becomes([Bundle EXCEPT !.g = PbufferCreate(@, i, how)])
  /\ pbuffers' = IF how = "made" THEN pbuffers \cup {i} ELSE pbuffers
  /\ UNCHANGED <<attribs, glide, fx_active, mode>>

DestroyPbuffer(i) ==
  /\ i \in pbuffers /\ pbuffers' = pbuffers \ {i}
  /\ Becomes([Bundle EXCEPT !.g = PbufferDestroy(@, i)])
  /\ UNCHANGED <<attribs, glide, fx_active, mode, faults>>

MakePbufferCurrent(i) ==
  /\ win_ready /\ i \in pbuffers
  /\ Becomes([Bundle EXCEPT !.g = PbufferCurrent(@, i)])
  /\ UNCHANGED <<attribs, pbuffers, glide, fx_active, mode, faults>>

---------------------------------------------------------------------------
(* Glide *)

(* fx_glide_prepare_window: what grSstWinOpen asks for.                     *)
GlidePrepare(size) ==
  /\ ~glide_open /\ glide_res' = size
  /\ Becomes(Bundle) /\ UNCHANGED <<attribs, pbuffers, glide_ctx, glide_open, fx_active, mode, faults>>

(* embed_gl_fx_begin                                                        *)
Begun(ok, made) ==
  LET d == Resized(Bundle, glide_res, ok)
      r == [d EXCEPT !.ready = TRUE]
      c == IF glide_ctx # None THEN glide_ctx ELSE IF made THEN Fresh(r.g) ELSE None
      n == IF glide_ctx = None /\ made THEN CtxCreate(r.g, None) ELSE r.g
  IN [w |-> IF c = None THEN r ELSE [r EXCEPT !.g = MakeCurrent(n, c, r.size)], ctx |-> c]

(* fx_glide_window_stat, the guest's poll: it opens the window.             *)
GlideOpen(made) ==
  LET b == Begun(TRUE, made)
      opens == b.ctx # None /\ (g.os # "macos" \/ b.w.g.cur_dfbo = b.ctx) IN
  /\ ~glide_open /\ glide_res # 0
  /\ Becomes(b.w) /\ glide_ctx' = b.ctx /\ Faulty(made)
  /\ glide_open' = opens /\ fx_active' = (fx_active \/ opens)
  /\ UNCHANGED <<attribs, pbuffers, glide_res, mode>>

GlideRefused ==
  /\ ~glide_open /\ glide_res # 0 /\ g.os # "macos" /\ (win_ready => win_size # glide_res)
  /\ faults < MaxFaults /\ Faulty(FALSE)
  /\ Becomes(Bundle) /\ UNCHANGED <<attribs, pbuffers, glide, fx_active, mode>>

(* embed_gl_fx_present, for grBufferSwap                                    *)
GlideSwap(taken) ==
  /\ glide_open /\ g.cur = glide_ctx
  /\ Becomes(Published(Bundle, taken))
  /\ UNCHANGED <<attribs, pbuffers, glide, fx_active, mode, faults>>

(* fx_glide_release_window: grSstWinClose, and embed_gl_fx_end.             *)
GlideRelease ==
  LET d == CtxDestroy(Unbind(g), {glide_ctx}, ctx[0]) IN
  /\ glide_res # 0
  /\ Becomes(IF glide_ctx = None THEN Bundle
             ELSE IF ctx[0] # None THEN [Bundle EXCEPT !.g = d]
             ELSE [Bundle EXCEPT !.g = DrawableRelease(d), !.size = 0, !.ready = FALSE])
  /\ glide_ctx' = None /\ glide_open' = FALSE /\ fx_active' = FALSE
  /\ UNCHANGED <<attribs, pbuffers, glide_res, mode, faults>>

(* fx_glide_renderer_stat: grSstControl picks the 3D output or the desktop. *)
GlideControl(on) ==
  /\ glide_open /\ fx_active' = on
  /\ Becomes(Bundle) /\ UNCHANGED <<attribs, pbuffers, glide, mode, faults>>

---------------------------------------------------------------------------

SetMode(size) ==
  /\ mode' = size /\ Becomes(Bundle)
  /\ UNCHANGED <<attribs, pbuffers, glide, fx_active, faults>>

MesaCalls ==
  \/ \E set \in BOOLEAN : PixelFormat(set)
  \/ \E ok \in Outcomes : \/ CreateContext(ok) \/ MakeLevelCurrent(0, ok)
                          \/ \E list \in Lists : CreateMain(list, ok)
                          \/ \E taken \in BOOLEAN : SwapBuffers(taken, ok)
  \/ \E taken \in BOOLEAN : FlushFront(taken)
  \/ DeleteContext(0) \/ WndRelease

LevelCalls ==
  \/ \E ok \in Outcomes : CreateLevel(ok)
  \/ \E n \in Levels \ {0} : DeleteContext(n) \/ \E ok \in Outcomes : MakeLevelCurrent(n, ok)

PbufferCalls ==
  \/ \E how \in Answers(g) : CreatePbuffer(how)
  \/ \E i \in Pbuffers : DestroyPbuffer(i) \/ MakePbufferCurrent(i)

GlideCalls ==
  \/ \E size \in Sizes : GlidePrepare(size)
  \/ \E ok \in Outcomes : GlideOpen(ok)
  \/ GlideRefused \/ GlideRelease
  \/ \E taken \in BOOLEAN : GlideSwap(taken)
  \/ \E on \in BOOLEAN : GlideControl(on)

Next ==
  /\ \/ MesaCalls \/ \E size \in Sizes : SetMode(size)
     \/ "levels" \in uses /\ LevelCalls
     \/ "pbuffers" \in uses /\ PbufferCalls
     \/ "glide" \in uses /\ GlideCalls
  /\ UNCHANGED uses
  /\ shared' = (shared \/ (glide_ctx' # None /\ (g.os = "macos" \/ ctx'[0] # None \/ ~win_ready')))
  /\ bare' = (g'.cur # None /\ (win_size' = 0 \/ (bare /\ g'.cur = g.cur)))

Spec == Init /\ [][Next]_vars

---------------------------------------------------------------------------
(* Properties *)

(* Whatever contexts, pbuffers and modes came and went, and in whatever     *)
(* order OpenGL and Glide took turns: a frame the frontend is given is a    *)
(* whole picture of the drawable it was drawn in, and what it is copied to  *)
(* is of its size.  Not promised where the two had the drawable at once.    *)
FrameIsWhole ==
  ~shared /\ ~bare /\ frame.by # None => frame.size # 0 /\ frame.picture = frame.size /\ frame.into = frame.size

(* "the ring's GL objects belong to this context": a frame is drawn into a  *)
(* buffer of the ring by names the drawing context made itself, never by    *)
(* names left from a context that is gone or from another one.              *)
RingStaysHome == ~shared => frame.home

(* A guest's levels see the objects of its main context, also after levels  *)
(* were deleted, pushed out and made anew.                                  *)
LevelsShare ==
  \A n \in Levels : ctx[0] # None /\ ctx[n] # None => g.group[ctx[n]] = g.group[ctx[0]]

(* Every context of the host is held in one place, and no place holds one   *)
(* that was destroyed: none is destroyed twice, and none is lost, but on    *)
(* Linux, to a host that refused a part of a pbuffer.                       *)
Held == {<<"ctx", n>> : n \in Levels} \cup {<<"glide", 0>>} \cup {<<"pb", i>> : i \in Pbuffers}
HeldIn(p) ==
  IF p[1] = "ctx" THEN ctx[p[2]] ELSE IF p[1] = "glide" THEN glide_ctx
  ELSE IF g.os = "macos" THEN None ELSE g.pb[p[2]]
ContextsHeld ==
  /\ g.live \ g.lost = {HeldIn(p) : p \in Held} \ {None}
  /\ \A p, q \in Held : p # q /\ HeldIn(p) # None => HeldIn(p) # HeldIn(q)
  /\ g.os # "linux" \/ faults = 0 => g.lost = {}

(* The frontend shows 3D only while there is a drawable: when it goes, with *)
(* OpenGL's window or with Glide's, the guest's desktop comes back.         *)
DesktopComesBack == ~shared /\ fx_active => win_ready
=============================================================================
