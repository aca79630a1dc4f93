----------------------------- MODULE DrawStream -----------------------------
(***************************************************************************)
(* A stream of drawing commands (the runtime's DrawPrimitives2) on its way *)
(* from the guest's display driver (src/guest-tools/src/d3dptvid/          *)
(* d3dptdisp.c) to the host's executor (src/d3dpt/exec/                    *)
(* d3dpt_exec_ddi.cpp).                                                    *)
(*                                                                         *)
(* The driver walks the stream twice.  The first pass measures what the    *)
(* host will get and does the blits; the second, from the same start,      *)
(* writes it: the draws of DirectX 8 name vertex and index buffers that    *)
(* the host cannot see, so each becomes a command that carries its         *)
(* vertices and indices, or names buffers in video memory; what binds them *)
(* stays in the driver, context by context.  The executor runs the rest on *)
(* one device, whichever context it is of: textures with their palettes    *)
(* and colour keys, DirectX 3 to 6 texture states, render states and state *)
(* sets are there once; only vertex shaders are the context's own.         *)
(*                                                                         *)
(* The runtime waits for the answer, so a request is one step, and Return  *)
(* is when it takes the answer.  Memory is counted in cells; module        *)
(* DrawDevice says what all this amounts to.                               *)
(***************************************************************************)
EXTENDS Integers, SequencesExt

CONSTANTS
  Contexts,       \* handles of contexts
  Buffers,        \* handles of vertex and index buffers
  InVram,         \* those of them in video memory
  Textures,       \* handles of textures
  Paletted,       \* those of them whose texels are palette indices
  Palettes,       \* handles of palettes
  VertexSize,     \* fvf_stride, stride_of_fvf: the width of each vertex format
  Shaders,        \* handles of vertex shaders
  Sets,           \* handles of state sets
  MaxVertices,    \* as many as one draw may name (0x10000)
  Programs        \* by name, what the runtime of each program asks

ASSUME BuffersAreLists ==
  \A p \in DOMAIN Programs : \A b \in Programs[p].buffers : b \in Seq({b[i] : i \in DOMAIN b})

VARIABLES
  program,        \* the name of the one of Programs that runs
  recorded,       \* the contexts whose runtime records a state set
  memory,         \* what buffers and textures hold; dxg's colour keys
  guest,          \* the driver: each context's D3DCTX
  ck,             \* the driver: the colour key last told of each texture (SURF.ck_*)
  host,           \* the executor: Ddi
  device,         \* the host's Direct3D device
  request,        \* the stream under way, or Idle
  drawn,          \* what its draws show
  answer,         \* ddrval, dwErrorOffset
  execute         \* the execute buffer under way: [buffer, at, vertices, done]

vars == <<program, recorded, memory, guest, ck, host, device, request, drawn, answer, execute>>

Idle   == [op |-> "idle"]
Silent == [ok |-> TRUE, stop |-> 0]
Unknown == -1         \* ck_on 0xff: never looked at
asks   == Programs[program]

D3DCTX == [fvf |-> "none", vb_um |-> FALSE, vb_handle |-> "none", vb_stride |-> 0,
           ib_handle |-> "none", ib_stride |-> 0]

(* A state set is a block, or one that is begun and not ended yet; d3d9    *)
(* has the block that is being recorded.                                   *)
Empty   == [f \in {} |-> 0]
Absent  == [begun |-> FALSE, block |-> Empty]
Pending == [begun |-> TRUE, block |-> Empty]
Off     == [on |-> FALSE, block |-> Empty]

VramSurf == [palette |-> "none", ckey |-> 0, dirty |-> TRUE, tex |-> <<>>]

Init ==
  /\ program \in DOMAIN Programs /\ recorded = {}
  /\ memory \in [cells : [Buffers -> {<<>>}], texels : [Textures -> {0}],
                 key : [Textures -> asks.keys]]
  /\ guest = [c \in Contexts |-> <<>>]
  /\ ck = [t \in Textures |-> Unknown]
  /\ host = [ctxs |-> [c \in Contexts |-> <<>>],
             surfs |-> [t \in Textures |-> VramSurf],
             palettes |-> [p \in Palettes |-> 0],
             stage_tex |-> "none", ckey_rs |-> FALSE, ckey_forced |-> FALSE,
             legacy_blend |-> FALSE, sblocks |-> [s \in Sets |-> Absent],
             recording |-> Off]
  /\ device = [format |-> <<"none", 0>>, texture |-> "none", value |-> 0,
               test |-> FALSE, ops |-> "own"]
  /\ request = Idle /\ drawn = <<>> /\ answer = Silent
  /\ execute \in [buffer : asks.buffers, at : {0}, vertices : {1}, done : {<<>>}]

-----------------------------------------------------------------------------
(* The driver's walk, a command at a time, on a record DP2WALK: the state  *)
(* of the context, the output, the blits and colour keys of pass 1.        *)

prim_verts(prim, count) ==
  IF prim = "points" THEN count ELSE IF prim = "strip" THEN count + 1 ELSE 0

Put(w, t) == [w EXCEPT !.out = Append(@, t)]

(* walk_draw: vs is where stream 0 is, and its cells. *)
WalkDraw(w, prim, count, voff, declared, ioff, nindices, min) ==
  LET vs     == IF w.vb_um THEN w.request.vertices
                ELSE IF w.vb_handle \in Buffers THEN w.memory.cells[w.vb_handle] ELSE <<>>
      ib     == IF w.ib_handle \in Buffers THEN w.memory.cells[w.ib_handle] ELSE <<>>
      vram   == ~w.vb_um /\ w.vb_handle \in InVram
      nverts == IF nindices = 0 THEN prim_verts(prim, count) ELSE declared
      bytes  == nverts * w.vb_stride
  IN  IF /\ w.fvf # "none" /\ w.vb_stride # 0 /\ vs # <<>> /\ prim_verts(prim, count) # 0
         /\ w.fvf \in Shaders \/ VertexSize[w.fvf] <= w.vb_stride
         /\ nverts <= MaxVertices /\ voff <= Len(vs) /\ bytes <= Len(vs) - voff
         /\ nindices # 0 => /\ ib # <<>> /\ w.ib_stride = 2
                            /\ ioff <= Len(ib) /\ nindices <= Len(ib) - ioff
      THEN Put(w, [op |-> "DRAW8", prim |-> prim, count |-> count, fvf |-> w.fvf,
                   stride |-> w.vb_stride, nverts |-> nverts, min |-> min,
                   nindices |-> nindices,
                   vertices |-> IF vram THEN <<w.vb_handle, voff>> ELSE <<>>,
                   copied |-> IF vram THEN <<>> ELSE SubSeq(vs, voff + 1, voff + bytes),
                   indices |-> IF w.ib_handle \in InVram THEN <<w.ib_handle, ioff>> ELSE <<>>,
                   icopied |-> IF w.ib_handle \in InVram THEN <<>>
                               ELSE SubSeq(ib, ioff + 1, ioff + nindices)])
      ELSE w

(* walk_bufferblt, walk_texblt, surf_colorkey_check. *)
WalkBufferBlt(w, t) ==
  LET src == w.memory.cells[t.src]
      dst == w.memory.cells[t.dst]
  IN  IF w.pass = 1 /\ src # <<>> /\ dst # <<>>
         /\ t.to <= Len(dst) /\ t.len <= Len(dst) - t.to
         /\ t.from <= Len(src) /\ t.len <= Len(src) - t.from
      THEN [w EXCEPT !.memory.cells[t.dst] =
              SubSeq(dst, 1, t.to) \o SubSeq(src, t.from + 1, t.from + t.len)
              \o SubSeq(dst, t.to + t.len + 1, Len(dst))]
      ELSE w

WalkTexBlt(w, t) ==
  IF w.pass = 1 THEN [w EXCEPT !.memory.texels[t.dst] = t.texels,
                               !.records = Append(@, [op |-> "VRAM_DIRTY", handle |-> t.dst])]
  ELSE w

ColorKeyCheck(w, h) ==
  IF w.pass = 2 \/ h = "none" \/ w.ck[h] = w.memory.key[h] THEN w
  ELSE LET key == w.memory.key[h]
           told == [w EXCEPT !.ck[h] = key]
       IN  IF w.ck[h] = Unknown /\ key = 0 THEN told
           ELSE [told EXCEPT !.records =
                   Append(@, [op |-> "VRAM_COLORKEY", handle |-> h, key |-> key])]

(* walk: one command. *)
Token(w, t) ==
  CASE t.op \in {"POINTS", "INDEXEDLINELIST2", "LINELIST_IMM"} ->
         [Put(w, t) EXCEPT !.needs_vb = TRUE]
    [] t.op = "TEXTUREMAP"        -> Put(ColorKeyCheck(w, t.texture), t)
    [] t.op = "TEXBLT"            -> WalkTexBlt(w, t)
    [] t.op = "BUFFERBLT"         -> WalkBufferBlt(w, t)
    [] t.op = "SETVERTEXSHADER"   -> Put([w EXCEPT !.fvf = t.format], t)
    [] t.op = "SETSTREAMSOURCE"   -> [w EXCEPT !.vb_handle = t.buffer, !.vb_um = FALSE,
                                               !.vb_stride = t.stride]
    [] t.op = "SETSTREAMSOURCEUM" -> [w EXCEPT !.vb_um = TRUE, !.vb_stride = t.stride]
    [] t.op = "SETINDICES"        -> [w EXCEPT !.ib_handle = t.buffer, !.ib_stride = t.stride]
    [] t.op = "DRAWPRIMITIVE"     ->
         WalkDraw(w, t.prim, t.count, t.first * w.vb_stride, 0, 0, 0, 0)
    [] t.op = "DRAWPRIMITIVE2"    -> WalkDraw(w, t.prim, t.count, t.at, 0, 0, 0, 0)
    [] t.op = "DRAWINDEXEDPRIMITIVE" ->
         WalkDraw(w, t.prim, t.count, (t.base + t.min) * w.vb_stride, t.number,
                  t.start, prim_verts(t.prim, t.count), t.min)
    [] t.op = "DRAWINDEXEDPRIMITIVE2" ->
         WalkDraw(w, t.prim, t.count, t.at + t.min * w.vb_stride, t.number,
                  t.start, prim_verts(t.prim, t.count), t.min)
    [] t.op = "alien"             -> w       \* the runtime's own parser knows its size
    [] OTHER                      -> Put(w, t)

Consumed == {"POINTS", "INDEXEDLINELIST2", "RENDERSTATE", "TEXTUREHANDLE", "TEXTUREMAPBLEND",
             "COLORKEYENABLE"}

(* A mutant: a skipped SPAN is not counted. *)
WalkStepSkips(w, t) ==
  IF w.over = "end" THEN w
  ELSE IF w.over = "verbatim" THEN Put(w, t)
  ELSE IF w.request.eb /\ t.op = "EXIT" THEN [w EXCEPT !.over = "end"]
  ELSE IF w.request.eb /\ t.op = "SPAN" THEN w
  ELSE IF w.request.eb /\ t.op \notin Consumed THEN [w EXCEPT !.over = "end", !.bounce = w.pos]
  ELSE IF t.op = "unknown" THEN [Put(w, t) EXCEPT !.over = "verbatim"]
  ELSE [Token(w, t) EXCEPT !.pos = @ + 1]

(* Where a walk ends: before what an execute buffer leaves to the runtime, *)
(* or at a command nobody knows, from which the host gets all that is left.*)
WalkStep(w, t) ==
  IF w.over = "end" THEN w
  ELSE IF w.over = "verbatim" THEN Put(w, t)
  ELSE IF w.request.eb /\ t.op = "EXIT" THEN [w EXCEPT !.over = "end"]
  ELSE IF w.request.eb /\ t.op = "SPAN" THEN [w EXCEPT !.pos = @ + 1]
  ELSE IF w.request.eb /\ t.op \notin Consumed THEN [w EXCEPT !.over = "end", !.bounce = w.pos]
  ELSE IF t.op = "unknown" THEN [Put(w, t) EXCEPT !.over = "verbatim"]
  ELSE [Token(w, t) EXCEPT !.pos = @ + 1]

Walk(w) == FoldLeft(WalkStep, w, w.request.stream)

NoBounce == -1

(* The start of both passes, out of the context's state. *)
DP2WALK(r) ==
  LET c == guest[r.ctx]
  IN  [request |-> r, pass |-> 1, pos |-> 0, bounce |-> NoBounce, over |-> "no",
       fvf |-> IF c.fvf # "none" THEN c.fvf ELSE r.type,
       vb_um |-> c.vb_um, vb_handle |-> c.vb_handle, vb_stride |-> c.vb_stride,
       ib_handle |-> c.ib_handle, ib_stride |-> c.ib_stride, needs_vb |-> FALSE,
       out |-> <<>>, records |-> <<>>, memory |-> memory, ck |-> ck]

(* A mutant: the second pass goes on from where the first one ended. *)
SecondGoesOn(r, w1) ==
  Walk([w1 EXCEPT !.pass = 2, !.pos = 0, !.over = "no", !.out = <<>>])

(* The second pass goes over what the first has blitted. *)
Second(r, w1) ==
  Walk([DP2WALK(r) EXCEPT !.pass = 2, !.memory = w1.memory])

Saved(w) ==
  [fvf |-> w.fvf, vb_um |-> w.vb_um, vb_handle |-> w.vb_handle, vb_stride |-> w.vb_stride,
   ib_handle |-> w.ib_handle, ib_stride |-> w.ib_stride]

-----------------------------------------------------------------------------
(* The executor, a command at a time, on a record Dp2: h is Ddi, d the     *)
(* device, cur the vertex shader that is known to be set.                  *)

(* The device keeps what it is told, or records it into a state block. *)
SetOn(x, field, v) ==
  IF x.h.recording.on THEN [x EXCEPT !.h.recording.block = (field :> v) @@ @]
  ELSE [x EXCEPT !.d[field] = v]

Shaders8(x) == x.h.ctxs[x.ctx]

(* A vertex's width: the format's, or what the shader's declaration reads. *)
Width(x, f) == IF f \in Shaders THEN Shaders8(x)[f] ELSE VertexSize[f]

apply_vs(x, f) ==
  IF f = x.cur THEN x
  ELSE IF f \in Shaders /\ Shaders8(x)[f] = 0 THEN x
  ELSE [SetOn(x, "format", <<f, Width(x, f)>>) EXCEPT !.cur = f]

create_vshader(x, t) ==
  [x EXCEPT !.h.ctxs[x.ctx][t.shader] = t.width,
            !.cur = IF @ = t.shader THEN "?" ELSE @]

delete_vshader(x, t) ==
  IF Shaders8(x)[t.shader] = 0 THEN x
  ELSE [(IF x.cur = t.shader THEN [SetOn(x, "format", <<"none", 0>>) EXCEPT !.cur = "?"] ELSE x)
        EXCEPT !.h.ctxs[x.ctx][t.shader] = 0]

apply_ckey(x) ==
  LET t    == x.h.stage_tex
      want == x.h.ckey_rs /\ t # "none" /\ x.h.surfs[t].ckey # 0
  IN  IF want = x.h.ckey_forced THEN x
      ELSE [SetOn(x, "test", want) EXCEPT !.h.ckey_forced = want]

(* upload_texture: the texels, the key and the palette as they are now. *)
Expanded(x, t) ==
  LET s == x.h.surfs[t]
  IN  <<x.m.texels[t], s.ckey,
        IF t \in Paletted /\ s.palette # "none" THEN x.h.palettes[s.palette] ELSE 0>>

bind_texture(x, t) ==
  LET stale == t # "none" /\ (x.h.surfs[t].tex = <<>> \/ x.h.surfs[t].dirty)
      y == IF stale THEN [x EXCEPT !.h.surfs[t].tex = Expanded(x, t), !.h.surfs[t].dirty = FALSE]
           ELSE x
  IN  apply_ckey([SetOn(y, "texture", t) EXCEPT !.h.stage_tex = t])

pre_draw(x) ==
  LET t == x.h.stage_tex
  IN  IF t = "none" \/ (~x.h.surfs[t].dirty /\ x.h.surfs[t].tex # <<>>) THEN x
      ELSE bind_texture(x, t)

apply_mapblend(x) ==
  SetOn(x, "ops", IF x.h.stage_tex = "none" THEN "plain" ELSE "textured")

(* The device draws what it has. *)
DeviceDraws(x, vertices) ==
  LET y == pre_draw(x)
      t == y.d.texture
  IN  [y EXCEPT !.drawn = Append(@,
        [format |-> y.d.format, vertices |-> vertices,
         picture |-> IF t = "none" THEN <<>> ELSE y.h.surfs[t].tex,
         keyed |-> y.d.test, blend |-> y.d.ops, value |-> y.d.value])]

draw8(x, t) ==
  LET vd == IF t.vertices # <<>>
            THEN SubSeq(x.m.cells[t.vertices[1]], t.vertices[2] + 1,
                        t.vertices[2] + t.nverts * t.stride)
            ELSE t.copied
      id == IF t.indices # <<>>
            THEN SubSeq(x.m.cells[t.indices[1]], t.indices[2] + 1, t.indices[2] + t.nindices)
            ELSE t.icopied
      nv == prim_verts(t.prim, t.count)
      width == Width(x, t.fvf)
      At(v) == SubSeq(vd, v * t.stride + 1, v * t.stride + width)
  IN  IF width = 0 \/ width > t.stride THEN x
      ELSE IF t.nindices = 0
      THEN IF nv > t.nverts THEN x
           ELSE DeviceDraws(apply_vs(x, t.fvf), [k \in 1..nv |-> At(k - 1)])
      ELSE IF nv > t.nindices \/ \E k \in 1..nv : id[k] < t.min \/ id[k] - t.min >= t.nverts
      THEN pre_draw(apply_vs(x, t.fvf))
      ELSE DeviceDraws(apply_vs(x, t.fvf), [k \in 1..nv |-> At(id[k] - t.min)])

(* draw, draw_indexed: out of the vertices that came with the record. *)
Legacy(x, used) ==
  LET stride == VertexSize[x.type]
      nverts == Len(x.vtx) \div stride
  IN  IF \E k \in DOMAIN used : used[k] >= nverts THEN x
      ELSE DeviceDraws(x, [k \in DOMAIN used |->
             SubSeq(x.vtx, used[k] * stride + 1, (used[k] + 1) * stride)])

(* d3d9 applies and captures no block while it records one. *)
StateSet(x, t) ==
  LET block == x.h.sblocks[t.set].block
  IN  CASE t.do = "begin"  -> [x EXCEPT !.h.recording = [on |-> TRUE, block |-> Empty],
                                        !.h.sblocks[t.set] = Pending]
        [] t.do = "all"    -> [x EXCEPT !.h.recording = Off,
                                        !.h.sblocks[t.set] = [begun |-> FALSE, block |-> x.d]]
        [] t.do = "end"    -> [x EXCEPT !.h.recording = Off,
             !.h.sblocks[t.set] = IF x.h.recording.on /\ @.begun
                                  THEN [begun |-> FALSE, block |-> x.h.recording.block] ELSE @]
        [] t.do = "delete" -> [x EXCEPT !.h.sblocks[t.set] = Absent]
        [] x.h.recording.on -> x
        [] t.do = "execute" -> [x EXCEPT !.d = block @@ @]
        [] t.do = "capture" -> [x EXCEPT !.h.sblocks[t.set].block =
             [f \in DOMAIN @ |-> x.d[f]]]

SetPalette(x, t) ==
  IF x.h.surfs[t.texture].palette = t.palette THEN x
  ELSE [x EXCEPT !.h.surfs[t.texture].palette = t.palette, !.h.surfs[t.texture].dirty = TRUE]

UpdatePalette(x, t) ==
  [x EXCEPT !.h.palettes[t.palette] = t.entries,
            !.h.surfs = [s \in Textures |->
               [@[s] EXCEPT !.dirty = @ \/ (x.h.surfs[s].palette = t.palette /\ s \in Paletted)]]]

(* Dp2::run: one command. *)
Run(x, t) ==
  IF x.failed THEN x ELSE
  CASE t.op = "DRAW8"              -> draw8(x, t)
    [] t.op = "POINTS"             -> Legacy(x, [k \in 1..t.count |-> t.first + k - 1])
    [] t.op = "INDEXEDLINELIST2"   -> Legacy(x, [k \in DOMAIN t.idx |-> t.base + t.idx[k]])
    [] t.op = "LINELIST_IMM"       -> DeviceDraws(x, <<SubSeq(t.cells, 1, VertexSize[x.type])>>)
    [] t.op = "SETVERTEXSHADER"    -> apply_vs(x, t.format)
    [] t.op = "CREATEVERTEXSHADER" -> create_vshader(x, t)
    [] t.op = "DELETEVERTEXSHADER" -> delete_vshader(x, t)
    [] t.op = "TEXTUREMAP"         -> LET y == bind_texture(x, t.texture)
                                      IN  IF y.h.legacy_blend THEN apply_mapblend(y) ELSE y
    [] t.op = "TEXTUREHANDLE"      -> apply_mapblend(bind_texture(x, t.texture))
    [] t.op = "TEXTUREMAPBLEND"    -> apply_mapblend([x EXCEPT !.h.legacy_blend = TRUE])
    [] t.op = "COLOROP"            -> SetOn([x EXCEPT !.h.legacy_blend = FALSE], "ops", "own")
    [] t.op = "COLORKEYENABLE"     -> apply_ckey([x EXCEPT !.h.ckey_rs = t.on])
    [] t.op = "RENDERSTATE"        -> SetOn(x, "value", t.value)
    [] t.op = "SETPALETTE"         -> SetPalette(x, t)
    [] t.op = "UPDATEPALETTE"      -> UpdatePalette(x, t)
    [] t.op = "STATESET"           -> StateSet(x, t)
    [] t.op = "unknown"            -> [x EXCEPT !.failed = TRUE]
    [] OTHER                       -> x

(* The records pass 1 put before the stream: VRAM_DIRTY, VRAM_COLORKEY. *)
refresh_object(h, t) ==
  [h EXCEPT !.surfs[t].dirty = TRUE,
            !.surfs[t].tex = IF t \in Paletted THEN @ ELSE <<>>]

ColorKey(h, t, key) ==
  IF h.surfs[t].ckey = key THEN h ELSE refresh_object([h EXCEPT !.surfs[t].ckey = key], t)

Record(h, r) ==
  IF r.op = "VRAM_DIRTY" THEN [h EXCEPT !.surfs[r.handle].dirty = TRUE]
  ELSE ColorKey(h, r.handle, r.key)

(* The record DP2, on the device as it is. *)
Dp2(r, w1, w2) ==
  [h |-> FoldLeft(Record, host, w1.records), d |-> device, cur |-> "?",
   ctx |-> r.ctx, type |-> r.type, m |-> w1.memory,
   vtx |-> IF w2.needs_vb THEN r.vertices ELSE <<>>,
   drawn |-> <<>>, failed |-> FALSE]

(* A record with vertices of its own starts with their format. *)
Submit(r, w1, w2) ==
  LET x == Dp2(r, w1, w2)
  IN  FoldLeft(Run,
        IF r.type = "none" THEN x
        ELSE [SetOn(x, "format", <<r.type, VertexSize[r.type]>>) EXCEPT !.cur = r.type],
        w2.out)

-----------------------------------------------------------------------------
(* What the runtime may put into a stream: it draws out of the vertices of *)
(* the request only in the format they have, and each context's runtime    *)
(* records a state set from its begin to its end.                          *)
Writes(a, t) ==
  CASE t.op \in {"POINTS", "INDEXEDLINELIST2", "LINELIST_IMM"} ->
         [a EXCEPT !.ok = @ /\ a.type # "none" /\ a.format \in {a.type, "none"}]
    [] t.op = "SETVERTEXSHADER" -> [a EXCEPT !.format = t.format]
    [] t.op = "STATESET" ->
         [a EXCEPT !.ok = @ /\ (a.recording <=> t.do = "end"),
                   !.recording = t.do = "begin"]
    [] OTHER -> a

Written(r) ==
  FoldLeft(Writes, [ok |-> TRUE, type |-> r.type,
                    format |-> IF asks.dx7 THEN "none" ELSE guest[r.ctx].fvf,
                    recording |-> r.ctx \in recorded], r.stream)

Current(c) == IF asks.dx7 THEN asks.types
              ELSE {"none"} \cup ({guest[c].fvf} \cap asks.types)

-----------------------------------------------------------------------------
Steady == UNCHANGED <<program, recorded, execute>>
Quiet  == UNCHANGED <<request, drawn, answer>>

(* D3dContextCreate and CTX_CREATE: both sides start afresh. *)
CreateContext(c) ==
  /\ request = Idle /\ c \in asks.contexts /\ guest[c] = <<>>
  /\ guest' = [guest EXCEPT ![c] = D3DCTX]
  /\ host' = [host EXCEPT !.ctxs[c] = [h \in Shaders |-> 0]]
  /\ UNCHANGED <<memory, ck, device>> /\ Quiet /\ Steady

(* ctx_destroy and CTX_DESTROY: the context's shaders go; what the device  *)
(* has of its states, and a state set it records, stay.                    *)
DestroyContext(c) ==
  /\ request = Idle /\ asks.reopens /\ guest[c] # <<>>
  /\ guest' = [guest EXCEPT ![c] = <<>>]
  /\ host' = [host EXCEPT !.ctxs[c] = <<>>]
  /\ device' = [device EXCEPT !.format =
       IF \A h \in Shaders : host.ctxs[c][h] = 0 THEN @ ELSE <<"none", 0>>]
  /\ recorded' = recorded \ {c}
  /\ UNCHANGED <<program, memory, ck, execute>> /\ Quiet

(* A buffer is created, locked and written, or destroyed. *)
WriteBuffer(b, cells) ==
  /\ request = Idle /\ memory.cells[b] # cells
  /\ memory' = [memory EXCEPT !.cells[b] = cells]
  /\ UNCHANGED <<guest, ck, host, device>> /\ Quiet /\ Steady

(* DdUnlock: the program wrote texels; VRAM_DIRTY. *)
Unlock(t, v) ==
  /\ request = Idle /\ memory.texels[t] # v
  /\ memory' = [memory EXCEPT !.texels[t] = v]
  /\ host' = [host EXCEPT !.surfs[t].dirty = TRUE]
  /\ UNCHANGED <<guest, ck, device>> /\ Quiet /\ Steady

(* DdSetColorKey; VRAM_COLORKEY. *)
SetColorKey(t, k) ==
  /\ request = Idle /\ k # 0 /\ memory.key[t] # k
  /\ memory' = [memory EXCEPT !.key[t] = k]
  /\ ck' = [ck EXCEPT ![t] = k]
  /\ host' = ColorKey(host, t, k)
  /\ UNCHANGED <<guest, device>> /\ Quiet /\ Steady

(* d3d_register_moved: the surface is elsewhere in video memory. *)
Move(t) ==
  /\ request = Idle /\ ck[t] # Unknown
  /\ ck' = [ck EXCEPT ![t] = Unknown]
  /\ host' = [host EXCEPT !.surfs[t].dirty = TRUE]
  /\ UNCHANGED <<memory, guest, device>> /\ Quiet /\ Steady

(* D3dDrawPrimitives2.  An execute buffer that starts with what only the   *)
(* runtime can do is given back at once.                                   *)
GivenBack(w1) == w1.bounce = 0

DrawPrimitives2(r) ==
  /\ request = Idle /\ guest[r.ctx] # <<>>
  /\ request' = r
  /\ \E w1 \in {Walk(DP2WALK(r))} :
       IF GivenBack(w1)
       THEN /\ answer' = [ok |-> FALSE, stop |-> 0]
            /\ UNCHANGED <<memory, guest, ck, host, device, drawn>>
       ELSE \E w2 \in {Second(r, w1)} : \E x \in {Submit(r, w1, w2)} :
              /\ memory' = w1.memory /\ ck' = w1.ck
              /\ guest' = [guest EXCEPT ![r.ctx] = Saved(w2)]
              /\ host' = x.h /\ device' = x.d /\ drawn' = x.drawn
              /\ answer' = IF x.failed \/ w2.bounce = NoBounce
                           THEN [ok |-> ~x.failed, stop |-> 0]
                           ELSE [ok |-> FALSE, stop |-> w2.bounce]

Stream(c) ==
  /\ request = Idle /\ c \in asks.contexts /\ guest[c] # <<>>
  /\ \E r \in [op : {"dp2"}, ctx : {c}, stream : asks.streams, type : Current(c),
              vertices : asks.vertices, eb : {FALSE}] :
       /\ Written(r).ok /\ DrawPrimitives2(r)
       /\ recorded' = IF Written(r).recording THEN recorded \cup {c} ELSE recorded \ {c}
  /\ UNCHANGED <<program, execute>>

(* The runtime takes the answer. *)
Return ==
  /\ request # Idle /\ ~request.eb
  /\ request' = Idle /\ drawn' = <<>> /\ answer' = Silent
  /\ UNCHANGED <<memory, guest, ck, host, device>> /\ Steady

-----------------------------------------------------------------------------
(* An execute buffer of DirectX 3: the runtime asks for what is left of    *)
(* it, does what the driver gave back, and asks again.                     *)
Left == SubSeq(execute.buffer, execute.at + 1, Len(execute.buffer))

ProcessedType == CHOOSE type \in asks.types : TRUE    \* of all its vertices

Execute(c) ==
  /\ request = Idle /\ c \in asks.contexts /\ Left # <<>>
  /\ \E r \in [op : {"dp2"}, ctx : {c}, stream : {Left}, type : {ProcessedType},
              vertices : {asks.processed[execute.vertices]}, eb : {TRUE}] :
       DrawPrimitives2(r)
  /\ Steady

(* PROCESSVERTICES fills the vertices anew. *)
Proceed ==
  /\ request # Idle /\ request.eb
  /\ execute' = IF answer.ok
       THEN [execute EXCEPT !.at = Len(execute.buffer), !.done = @ \o drawn]
       ELSE [execute EXCEPT !.at = @ + answer.stop + 1, !.done = @ \o drawn,
               !.vertices = IF Left[answer.stop + 1].op = "PROCESSVERTICES" THEN @ + 1 ELSE @]
  /\ request' = Idle /\ drawn' = <<>> /\ answer' = Silent
  /\ UNCHANGED <<program, recorded, memory, guest, ck, host, device>>

Next ==
  \/ \E c \in Contexts :
        CreateContext(c) \/ DestroyContext(c) \/ Stream(c) \/ Execute(c)
  \/ \E b \in Buffers, cells \in asks.cells : WriteBuffer(b, cells)
  \/ \E t \in asks.textures :
        \/ \E v \in asks.texels : Unlock(t, v)
        \/ \E k \in asks.keys : SetColorKey(t, k)
        \/ Move(t)
  \/ Return \/ Proceed

Spec == Init /\ [][Next]_vars

-----------------------------------------------------------------------------
(* Every stream does what Direct3D would do at once with its commands: the *)
(* draws show the vertices, the picture and the state that are current     *)
(* where they stand in the stream, whichever of the two sides keeps them   *)
(* and whichever context's stream came before, across the two passes of    *)
(* D3dDrawPrimitives2 and the run of Dp2::run.  A context's vertices,      *)
(* indices, format and shaders are its own; texture, states, keying and    *)
(* state sets are those of the one device that the executor runs all       *)
(* contexts on (another context's stream changes them).                    *)
Runtime(c) ==
  IF guest[c] = <<>> THEN <<>>
  ELSE [format |-> IF asks.dx7 THEN "none" ELSE guest[c].fvf,
        shaders |-> host.ctxs[c],
        source |-> IF guest[c].vb_um THEN "user" ELSE guest[c].vb_handle,
        stride |-> guest[c].vb_stride,
        indices |-> guest[c].ib_handle, index |-> guest[c].ib_stride]

Visible(block) == Restrict(block, DOMAIN block \cap {"texture", "value"})

OneDevice ==
  [state |-> [texture |-> host.stage_tex, value |-> device.value],
   keying |-> host.ckey_rs, blend |-> IF device.ops = "own" THEN "own" ELSE "legacy",
   recording |-> [host.recording EXCEPT !.block = Visible(@)],
   sets |-> [s \in Sets |-> [host.sblocks[s] EXCEPT !.block = Visible(@)]]]

Device == INSTANCE DrawDevice WITH
  contexts <- [c \in Contexts |-> Runtime(c)], device <- OneDevice,
  memory <- [cells |-> memory.cells, texels |-> memory.texels, key |-> memory.key,
             palette |-> [t \in Textures |-> host.surfs[t].palette],
             entries |-> host.palettes]

ImplementsDevice == Device!Spec

(* An execute buffer is executed once, instruction by instruction, by the  *)
(* driver or by the runtime: every draw before the place the runtime is at *)
(* was drawn, in order, out of the vertices that the PROCESSVERTICES       *)
(* before it left (the driver must not skip one, nor give back what is     *)
(* already drawn).                                                         *)
DrawOf(e, used) ==
  LET cells == e.processed[e.vertices]
      width == VertexSize[e.type]
  IN  IF \E k \in DOMAIN used : used[k] >= Len(cells) \div width THEN e
      ELSE [e EXCEPT !.drawn = Append(@,
              [k \in DOMAIN used |-> SubSeq(cells, used[k] * width + 1, (used[k] + 1) * width)])]

Instruction(e, t) ==
  IF e.over THEN e
  ELSE IF t.op = "PROCESSVERTICES" THEN [e EXCEPT !.vertices = @ + 1]
  ELSE IF t.op = "EXIT" THEN [e EXCEPT !.over = TRUE]
  ELSE IF t.op = "POINTS" THEN DrawOf(e, [k \in 1..t.count |-> t.first + k - 1])
  ELSE IF t.op = "INDEXEDLINELIST2" THEN DrawOf(e, [k \in DOMAIN t.idx |-> t.base + t.idx[k]])
  ELSE e

Begun == [over |-> FALSE, vertices |-> 1, processed |-> asks.processed, type |-> ProcessedType,
          drawn |-> <<>>]

InstructionsOnce ==
  FoldLeft(Instruction, Begun, SubSeq(execute.buffer, 1, execute.at)).drawn
    = [k \in DOMAIN execute.done |-> execute.done[k].vertices]
=============================================================================
