---------------------------- MODULE SurfaceMirror ----------------------------
(***************************************************************************)
(* Surfaces in the guest's video memory, and their copies on the host.     *)
(*                                                                         *)
(*   guest-tools/src/d3dptvid/d3dptdisp.c  the display driver, called by   *)
(*                  DirectDraw and the Direct3D runtime, one call at a time *)
(*   d3dpt/exec/d3dpt_exec_ddi.cpp         the executor: runs a batch of   *)
(*                  records while the guest waits at the doorbell          *)
(*                                                                         *)
(* The program writes video memory at once, in a Lock or behind the        *)
(* driver's back; Direct3D's work is recorded and reaches the host with    *)
(* the next doorbell.  A picture has a value for each pixel, the number of *)
(* the write that put it there.                                            *)
(***************************************************************************)
EXTENDS Integers, Sequences, Functions

CONSTANTS
  Targets, Textures,  \* surf_is_target, DDSCAPS_TEXTURE; a surface may be both
  Px,                 \* pixels of a surface
  Contexts,           \* d3d_ctx
  NoSurface,
  EarlyClears,        \* Clear2 may begin a frame over writes nobody was told of
  LooksFirst,         \* a device is destroyed only once its frame was read back
  MaxWrites,          \* bound of the model: writes and drawings
  BatchLen            \* bound of the model: records before a doorbell

ASSUME SurfaceAssumption == NoSurface \notin Targets \cup Textures
ASSUME BoundAssumption ==
  MaxWrites \in Nat /\ BatchLen \in Nat /\ {EarlyClears, LooksFirst} \subseteq BOOLEAN

Handles == Targets \cup Textures
Values  == 0..MaxWrites
Pictures == [Px -> Values]

VARIABLES
  \* the guest
  writes,   \* writes and drawings so far
  vram,     \* the surfaces' memory
  live,     \* surfaces DirectDraw has created
  locked,   \* surfaces between Lock and Unlock
  ctx,      \* d3d_ctx[].rt, NoSurface while it is not used
  cur,      \* the target the runtime selected last
  batch,    \* records in the command window
  waiting,  \* the guest is at the doorbell
  \* the host
  surf,     \* Ddi.surfs
  hctx,     \* Ddi.ctxs[].rt
  stage,    \* Ddi.stage_tex[0]
  refused,  \* a batch was given up with an error
  \* history
  seen      \* what this step scans out, locks or samples

guest == <<writes, vram, live, locked, ctx, cur>>
host  == <<surf, hctx, stage, refused>>
vars  == <<guest, batch, waiting, host, seen>>

Surfs == [known : BOOLEAN, tex : Pictures, dirty : BOOLEAN, rendered : BOOLEAN,
          hasShadow : BOOLEAN, shadow : Pictures, checked : BOOLEAN]

Records ==
  [op : {"SURFACE", "RELEASE", "DIRTY"}, h : Handles]
    \cup [op : {"READBACK"}, h : Handles, look : BOOLEAN]
    \cup [op : {"CTX_CREATE", "CTX_SET_RT"}, c : Contexts, h : Handles]
    \cup [op : {"CTX_DESTROY", "DP2"}, c : Contexts]
    \cup [op : {"CLEAR"}, c : Contexts, h : Handles, v : Values]
    \cup [op : {"DP2_MAP", "DP2_TARGET"}, c : Contexts, h : Handles]
    \cup [op : {"DP2_DRAW"}, c : Contexts, S : SUBSET Px, v : Values]

TypeOK ==
  /\ writes \in Values /\ vram \in [Handles -> Pictures]
  /\ live \subseteq Handles /\ locked \subseteq live
  /\ ctx \in [Contexts -> Handles \cup {NoSurface}]
  /\ cur \in [Contexts -> Handles \cup {NoSurface}]
  /\ batch \in Seq(Records) /\ waiting \in BOOLEAN
  /\ surf \in [Handles -> Surfs]
  /\ hctx \in [Contexts -> Handles \cup {NoSurface}]
  /\ stage \in Handles \cup {NoSurface} /\ refused \in BOOLEAN

Nothing == [at |-> NoSurface]
Unseen  == seen' = Nothing

Black == [p \in Px |-> 0]

(* A VramSurf as it is made; its picture is whatever the host's memory has. *)
Fresh == [known |-> TRUE, tex |-> Black, dirty |-> TRUE, rendered |-> FALSE,
          hasShadow |-> FALSE, shadow |-> Black, checked |-> FALSE]
Unknown == [Fresh EXCEPT !.known = FALSE]

Init ==
  /\ writes = 0 /\ vram = [h \in Handles |-> Black]
  /\ live = {} /\ locked = {}
  /\ ctx = [c \in Contexts |-> NoSurface] /\ cur = ctx
  /\ batch = <<>> /\ waiting = FALSE
  /\ surf = [h \in Handles |-> Unknown]
  /\ hctx = [c \in Contexts |-> NoSurface]
  /\ stage = NoSurface /\ refused = FALSE
  /\ seen = Nothing

---------------------------------------------------------------------------
(* The command window: records are queued, and run at the doorbell. *)

Surface(h)  == [op |-> "SURFACE", h |-> h]
Dirty(h)    == [op |-> "DIRTY", h |-> h]
Readback(h, look) == [op |-> "READBACK", h |-> h, look |-> look]
ctx_live    == \E c \in Contexts : ctx[c] # NoSurface

Guest == ~waiting /\ UNCHANGED host

Queue(records) ==
  /\ Len(batch) + Len(records) <= BatchLen
  /\ batch' = batch \o records /\ UNCHANGED waiting

(* The same, and the guest waits for the answer. *)
Send(records) == batch' = batch \o records /\ waiting' = TRUE

(* The window is full, or somebody needs an answer: d3dpt_enc_flush. *)
Flush == 
  /\ Guest /\ batch # <<>>
  /\ waiting' = TRUE
  /\ UNCHANGED <<guest, batch>> /\ Unseen

---------------------------------------------------------------------------
(* DirectDraw. *)

CreateSurface(h) ==
  /\ Guest /\ h \notin live
  /\ live' = live \cup {h}
  /\ Queue(<<Surface(h)>>)
  /\ UNCHANGED <<writes, vram, locked, ctx, cur>> /\ Unseen

(* Released by the program, or lost in a mode switch while a context still *)
(* draws on it.                                                            *)
DestroySurface(h) ==
  /\ Guest /\ h \in live \ locked
  /\ live' = live \ {h}
  /\ Queue(<<[op |-> "RELEASE", h |-> h]>>)
  /\ UNCHANGED <<writes, vram, locked, ctx, cur>> /\ Unseen

(* The driver brings in what the host drew, if Direct3D is in use. *)
BringIn(h) ==
  IF ctx_live /\ h \in Targets
    THEN Send(<<Readback(h, TRUE)>>) /\ Unseen
    ELSE seen' = [at |-> h, px |-> vram[h]] /\ UNCHANGED <<batch, waiting>>

Lock(h) ==
  /\ Guest /\ h \in live \ locked
  /\ locked' = locked \cup {h}
  /\ BringIn(h)
  /\ UNCHANGED <<writes, vram, live, ctx, cur>>

Unlock(h) ==
  /\ Guest /\ h \in locked
  /\ locked' = locked \ {h}
  /\ IF h \in Textures \/ (ctx_live /\ h \in Targets)
       THEN Queue(<<Dirty(h)>>)
       ELSE UNCHANGED <<batch, waiting>>
  /\ UNCHANGED <<writes, vram, live, ctx, cur>> /\ Unseen

(* The page flip scans out h's memory. *)
Flip(h) ==
  /\ Guest /\ h \in (live \cap Targets) \ locked
  /\ BringIn(h)
  /\ UNCHANGED guest

---------------------------------------------------------------------------
(* The program's processor writes video memory: in a Lock, or with GDI on  *)
(* the surface's DC or a pointer it kept, of which the driver knows        *)
(* nothing.                                                                *)

Store(h, p) ==
  /\ writes < MaxWrites /\ writes' = writes + 1
  /\ vram' = [vram EXCEPT ![h][p] = writes']

ProgramWrites(h, p) ==
  /\ Guest /\ h \in locked \cup (live \cap (Targets \ Textures))
  /\ Store(h, p)
  /\ UNCHANGED <<live, locked, ctx, cur, batch, waiting>> /\ Unseen

---------------------------------------------------------------------------
(* The Direct3D runtime.  It refuses a context whose target is lost or     *)
(* locked before the driver hears of it.                                   *)

Ready(c) == cur[c] \in live \ locked

CreateContext(c, h) ==
  /\ Guest /\ ctx[c] = NoSurface /\ h \in (live \cap Targets) \ locked
  /\ ctx' = [ctx EXCEPT ![c] = h] /\ cur' = [cur EXCEPT ![c] = h]
  /\ Send(<<Surface(h), [op |-> "CTX_CREATE", c |-> c, h |-> h]>>)
  /\ UNCHANGED <<writes, vram, live, locked>> /\ Unseen

DestroyContext(c) ==
  /\ Guest /\ ctx[c] # NoSurface
  /\ LooksFirst => batch = <<>> /\ \A h \in Handles : ~surf[h].rendered
  /\ ctx' = [ctx EXCEPT ![c] = NoSurface] /\ cur' = [cur EXCEPT ![c] = NoSurface]
  /\ Send(<<[op |-> "CTX_DESTROY", c |-> c]>>)
  /\ UNCHANGED <<writes, vram, live, locked>> /\ Unseen

(* D3dSceneCapture: the frame into the target's memory. *)
EndScene(c) ==
  /\ Guest /\ ctx[c] # NoSurface /\ Ready(c)
  /\ Send(<<Readback(ctx[c], FALSE)>>)
  /\ UNCHANGED guest /\ Unseen

SetRenderTarget(c, h) ==
  /\ Guest /\ ctx[c] # NoSurface /\ h \in (live \cap Targets) \ locked
  /\ ctx' = [ctx EXCEPT ![c] = h] /\ cur' = [cur EXCEPT ![c] = h]
  /\ Queue(<<Surface(h), [op |-> "CTX_SET_RT", c |-> c, h |-> h]>>)
  /\ UNCHANGED <<writes, vram, live, locked>> /\ Unseen

(* Nothing was written behind the driver's back since the last frame. *)
Told(h) == surf[h].hasShadow /\ surf[h].shadow = vram[h]

(* The whole target, by the callback of before DirectX 7. *)
Clear2(c) ==
  /\ Guest /\ ctx[c] # NoSurface /\ Ready(c)
  /\ EarlyClears \/ (batch = <<>> /\ Told(cur[c]))
  /\ writes < MaxWrites /\ writes' = writes + 1
  /\ Queue(<<[op |-> "CLEAR", c |-> c, h |-> cur[c], v |-> writes']>>)
  /\ UNCHANGED <<vram, live, locked, ctx, cur>> /\ Unseen

(* A stream goes to the host at once; here it has one token, a record of   *)
(* its own.                                                                *)
Stream(c, records) ==
  /\ Guest /\ ctx[c] # NoSurface /\ Ready(c)
  /\ Send(<<[op |-> "DP2", c |-> c]>> \o records)
  /\ UNCHANGED <<live, locked, ctx>> /\ Unseen

StreamDraws(c, S) ==
  /\ stage # NoSurface => stage \in live \ (locked \cup {cur[c]})
  /\ writes < MaxWrites /\ writes' = writes + 1
  /\ Stream(c, <<[op |-> "DP2_DRAW", c |-> c, S |-> S, v |-> writes']>>)
  /\ UNCHANGED <<vram, cur>>

StreamMaps(c, t) ==
  /\ t \in (live \cap Textures) \ (locked \cup {cur[c]})
  /\ Stream(c, <<[op |-> "DP2_MAP", c |-> c, h |-> t]>>)
  /\ UNCHANGED <<writes, vram, cur>>

StreamSetsTarget(c, h) ==
  /\ h \in (live \cap Targets) \ (locked \cup {stage})
  /\ Stream(c, <<[op |-> "DP2_TARGET", c |-> c, h |-> h]>>)
  /\ cur' = [cur EXCEPT ![c] = h]
  /\ UNCHANGED <<writes, vram>>

(* TEXBLT is done here, in the first pass over the stream; not on a        *)
(* texture that Direct3D is drawing on.                                    *)
StreamBlits(c, t, p) ==
  /\ t \in (live \cap Textures) \ (locked \cup {cur[c]})
  /\ t \in Targets => batch = <<>> /\ ~surf[t].rendered
  /\ Store(t, p)
  /\ Guest /\ ctx[c] # NoSurface /\ Ready(c)
  /\ Send(<<Dirty(t), [op |-> "DP2", c |-> c]>>)
  /\ UNCHANGED <<live, locked, ctx, cur>> /\ Unseen

---------------------------------------------------------------------------
(* The executor runs the batch, while the guest waits. *)

Runs(op) == waiting /\ batch # <<>> /\ Head(batch).op = op

Done == batch' = Tail(batch) /\ UNCHANGED <<guest, waiting>>

(* An error ends the batch. *)
Fail == refused' = TRUE /\ batch' = <<>> /\ UNCHANGED <<guest, waiting, surf, hctx, stage>> /\ Unseen

RunSurface ==
  /\ Runs("SURFACE") /\ Done
  /\ surf' = [surf EXCEPT ![Head(batch).h] = IF @.known THEN @ ELSE Fresh]
  /\ UNCHANGED <<hctx, stage, refused>> /\ Unseen

RunRelease ==
  /\ Runs("RELEASE") /\ Done
  /\ surf' = [surf EXCEPT ![Head(batch).h] = Unknown]
  /\ stage' = IF stage = Head(batch).h THEN NoSurface ELSE stage
  /\ UNCHANGED <<hctx, refused>> /\ Unseen

RunDirty ==
  /\ Runs("DIRTY") /\ Done
  /\ surf' = [surf EXCEPT ![Head(batch).h] =
                IF @.known THEN [@ EXCEPT !.dirty = TRUE, !.rendered = FALSE] ELSE @]
  /\ UNCHANGED <<hctx, stage, refused>> /\ Unseen

(* The guest's memory to the host's object. *)
(* A mutant: the shadow is not taken. *)
UploadTargetAlone(h) == [surf[h] EXCEPT !.tex = vram[h], !.dirty = FALSE]

UploadTarget(h) == [surf[h] EXCEPT !.tex = vram[h], !.dirty = FALSE,
                                   !.hasShadow = TRUE, !.shadow = vram[h]]

UploadTexture(h) == [surf[h] EXCEPT !.tex = vram[h], !.dirty = FALSE]

(* Pixels the guest wrote since host and guest agreed. *)
shadow_diff(h) ==
  IF surf[h].hasShadow THEN {p \in Px : vram[h][p] # surf[h].shadow[p]} ELSE {}

(* readback: what the guest wrote stays over what the host drew. *)
RunReadback ==
  /\ Runs("READBACK")
  /\ batch' = Tail(batch)
  /\ LET h == Head(batch).h
         kept == shadow_diff(h)
     IN /\ IF surf[h].rendered
             THEN /\ vram' = [vram EXCEPT ![h] =
                       [p \in Px |-> IF p \in kept THEN @[p] ELSE surf[h].tex[p]]]
                  /\ surf' = [surf EXCEPT ![h] = [@ EXCEPT
                       !.hasShadow = TRUE, !.shadow = vram'[h], !.rendered = FALSE,
                       !.dirty = (kept # {}), !.checked = FALSE]]
             ELSE UNCHANGED <<vram, surf>>
        /\ seen' = IF Head(batch).look THEN [at |-> h, px |-> vram'[h]] ELSE Nothing
  /\ UNCHANGED <<writes, live, locked, ctx, cur, waiting, hctx, stage, refused>>

RunCtxCreate ==
  /\ Runs("CTX_CREATE")
  /\ LET r == Head(batch)
     IN IF surf[r.h].known
          THEN /\ hctx' = [hctx EXCEPT ![r.c] = r.h]
               /\ UNCHANGED <<ctx, cur>>
          ELSE /\ ctx' = [ctx EXCEPT ![r.c] = NoSurface]
               /\ cur' = [cur EXCEPT ![r.c] = NoSurface]
               /\ hctx' = [hctx EXCEPT ![r.c] = NoSurface]
  /\ batch' = Tail(batch)
  /\ UNCHANGED <<writes, vram, live, locked, waiting, surf, stage, refused>> /\ Unseen

RunCtxDestroy ==
  /\ Runs("CTX_DESTROY") /\ Done
  /\ hctx' = [hctx EXCEPT ![Head(batch).c] = NoSurface]
  /\ UNCHANGED <<surf, stage, refused>> /\ Unseen

RunCtxSetRt ==
  /\ Runs("CTX_SET_RT")
  /\ LET r == Head(batch)
     IN IF hctx[r.c] # NoSurface /\ surf[r.h].known
          THEN /\ Done
               /\ hctx' = [hctx EXCEPT ![r.c] = r.h]
               /\ UNCHANGED <<surf, stage, refused>> /\ Unseen
          ELSE Fail

(* bind_ctx for a drawing on h: once a frame the guest's own pixels are    *)
(* looked for, and what is newer in its memory is uploaded.                *)
BindTarget(h) ==
  [IF surf[h].dirty \/ (~surf[h].checked /\ shadow_diff(h) # {})
     THEN UploadTarget(h) ELSE surf[h]
   EXCEPT !.checked = TRUE, !.rendered = TRUE]

Drawn(s, S, v) == [s EXCEPT !.tex = [p \in Px |-> IF p \in S THEN v ELSE @[p]]]

Bindable(c) == hctx[c] # NoSurface /\ surf[hctx[c]].known

(* A clear of the whole target makes the guest's pixels moot: no upload. *)
RunClear ==
  /\ Runs("CLEAR")
  /\ LET c == Head(batch).c
         h == hctx[c]
     IN IF Bindable(c)
          THEN /\ Done
               /\ surf' = [surf EXCEPT ![h] = Drawn([@ EXCEPT
                    !.dirty = FALSE, !.checked = TRUE, !.rendered = TRUE], Px, Head(batch).v)]
               /\ UNCHANGED <<hctx, stage, refused>> /\ Unseen
          ELSE Fail

(* run: a stream binds its context's target first. *)
RunDp2 ==
  /\ Runs("DP2")
  /\ LET c == Head(batch).c
     IN IF Bindable(c)
          THEN /\ Done
               /\ surf' = [surf EXCEPT ![hctx[c]] = BindTarget(hctx[c])]
               /\ UNCHANGED <<hctx, stage, refused>> /\ Unseen
          ELSE Fail

(* bind_texture; pre_draw does it again for a texture that became dirty. *)
Bound(t) ==
  IF ~surf[t].dirty THEN surf[t]
  ELSE IF t \in Targets THEN UploadTarget(t) ELSE UploadTexture(t)

RunDp2Map ==
  /\ Runs("DP2_MAP") /\ Done
  /\ LET t == Head(batch).h
     IN /\ surf' = [surf EXCEPT ![t] = IF @.known THEN Bound(t) ELSE @]
        /\ stage' = IF surf[t].known THEN t ELSE NoSurface
  /\ UNCHANGED <<hctx, refused>> /\ Unseen

(* A draw samples the texture of stage 0. *)
RunDp2Draw ==
  /\ Runs("DP2_DRAW") /\ Done
  /\ LET r     == Head(batch)
         h     == hctx[r.c]
         drawn == [surf EXCEPT ![h] = Drawn(@, r.S, r.v)]
     IN IF stage = NoSurface
          THEN surf' = drawn /\ Unseen
          ELSE /\ surf' = [drawn EXCEPT ![stage] = Bound(stage)]
               /\ seen' = [at |-> stage, px |-> surf'[stage].tex]
  /\ UNCHANGED <<hctx, stage, refused>>

(* A mutant: the context keeps its target. *)
RunDp2TargetBinds ==
  /\ Runs("DP2_TARGET") /\ Done
  /\ LET h == Head(batch).h
     IN surf' = [surf EXCEPT ![h] = IF @.known THEN BindTarget(h) ELSE @]
  /\ UNCHANGED <<hctx, stage, refused>> /\ Unseen

RunDp2Target ==
  /\ Runs("DP2_TARGET") /\ Done
  /\ LET r == Head(batch)
     IN IF surf[r.h].known
          THEN /\ surf' = [surf EXCEPT ![r.h] = BindTarget(r.h)]
               /\ hctx' = [hctx EXCEPT ![r.c] = r.h]
          ELSE UNCHANGED <<surf, hctx>>
  /\ UNCHANGED <<stage, refused>> /\ Unseen

(* The batch is done and the guest goes on. *)
Return ==
  /\ waiting /\ batch = <<>> /\ waiting' = FALSE
  /\ UNCHANGED <<guest, batch, host>> /\ Unseen

---------------------------------------------------------------------------
DirectDraw ==
  \E h \in Handles :
     \/ CreateSurface(h) \/ DestroySurface(h) \/ Lock(h) \/ Unlock(h) \/ Flip(h)
     \/ \E p \in Px : ProgramWrites(h, p)

Direct3D ==
  \E c \in Contexts :
     \/ DestroyContext(c) \/ EndScene(c) \/ Clear2(c)
     \/ \E S \in SUBSET Px : StreamDraws(c, S)
     \/ \E h \in Handles :
          \/ CreateContext(c, h) \/ SetRenderTarget(c, h)
          \/ StreamMaps(c, h) \/ StreamSetsTarget(c, h)
          \/ \E p \in Px : StreamBlits(c, h, p)

Executor ==
  \/ RunSurface \/ RunRelease \/ RunDirty \/ RunReadback
  \/ RunCtxCreate \/ RunCtxDestroy \/ RunCtxSetRt \/ RunClear
  \/ RunDp2 \/ RunDp2Map \/ RunDp2Draw \/ RunDp2Target \/ Return

Next == DirectDraw \/ Direct3D \/ Flush \/ Executor

Spec == Init /\ [][Next]_vars

---------------------------------------------------------------------------
(* Surfaces the program has released, and the host does not know it yet. *)
Released == {h \in Handles : [op |-> "RELEASE", h |-> h] \in Range(batch)}

(* What a surface holds: the host's drawings, and over them what the guest *)
(* wrote since both agreed.                                                *)
Effective(h) ==
  IF surf[h].known /\ surf[h].rendered /\ h \notin Released
    THEN [p \in Px |-> IF p \in shadow_diff(h) THEN vram[h][p] ELSE surf[h].tex[p]]
    ELSE vram[h]

(* A frame has begun on h: its first drawing is on the host, or on its way. *)
Begun ==
  {h \in Handles \ Released :
     \/ \E r \in Range(batch) : r.op = "CLEAR" /\ r.h = h
     \/ surf[h].known /\ surf[h].checked /\ ~surf[h].dirty}

Memory == INSTANCE VideoMemory WITH
            mem   <- [h \in Handles |-> Effective(h)],
            over  <- [h \in Handles |-> IF h \in Begun THEN shadow_diff(h) ELSE {}],
            begun <- Begun

(* Whatever copies there are and whatever order they are made in, it is    *)
(* one memory: what is scanned out, locked or sampled is what was written  *)
(* or drawn there last, in the order the program did it; nothing the       *)
(* program wrote is lost under a frame, and nothing drawn under an upload. *)
ImplementsMemory == Memory!Spec

(* Once a batch is through, host and guest know the same surfaces and the  *)
(* same target for each context, through losses, restores and new devices; *)
(* and no batch was given up, whose records for other surfaces would be    *)
(* lost with it.                                                           *)
TablesAgree ==
  /\ ~refused
  /\ ~waiting /\ batch = <<>> =>
    /\ \A h \in Handles : surf[h].known = (h \in live)
    /\ hctx = cur

=============================================================================
