---------------------------- MODULE MCDrawStream ------------------------------
(* What the runtime asks, one program for each part of the stream's state. *)
EXTENDS DrawStream

Program(n) ==
  [contexts |-> {1}, commands |-> {}, length |-> n, buffers |-> {<<>>},
   cells |-> {<<>>}, vertices |-> {<<>>}, types |-> {"none"}, processed |-> <<<<>>>>,
   textures |-> {}, texels |-> {0}, keys |-> {0}, dx7 |-> FALSE, reopens |-> FALSE,
   streams |-> {}]

With(p) == [p EXCEPT !.streams = SeqOf(p.commands, p.length) \ {<<>>}]

Format(f)    == [op |-> "SETVERTEXSHADER", format |-> f]
Source(b, n) == [op |-> "SETSTREAMSOURCE", buffer |-> b, stride |-> n]
User(n)      == [op |-> "SETSTREAMSOURCEUM", stride |-> n]
Indices(b, n) == [op |-> "SETINDICES", buffer |-> b, stride |-> n]
Draw(p, n, f) == [op |-> "DRAWPRIMITIVE", prim |-> p, count |-> n, first |-> f]
DrawAt(p, n, f) == [op |-> "DRAWPRIMITIVE2", prim |-> p, count |-> n, at |-> f]
Indexed(base, min, number, start, n) ==
  [op |-> "DRAWINDEXEDPRIMITIVE", prim |-> "points", base |-> base, min |-> min,
   number |-> number, start |-> start, count |-> n]
IndexedAt(at, min, number, start, n) ==
  [op |-> "DRAWINDEXEDPRIMITIVE2", prim |-> "strip", at |-> at, min |-> min,
   number |-> number, start |-> start, count |-> n]
Points(f, n) == [op |-> "POINTS", first |-> f, count |-> n]
Texture(t)   == [op |-> "TEXTUREMAP", texture |-> t]
Value(v)     == [op |-> "RENDERSTATE", value |-> v]
Set(do)      == [op |-> "STATESET", do |-> do, set |-> "s"]
Op(op)       == [op |-> op]

Vertices == [Program(2) EXCEPT
  !.cells = {<<>>, <<1, 2, 3>>, <<4, 5>>}, !.vertices = {<<6, 7>>},
  !.types = {"f1"},
  !.commands = {Format("f1"), Format("f2"), Source("v", 1), Source("s", 2), User(1),
                Draw("points", 2, 0), DrawAt("strip", 1, 1), Points(1, 1), Op("unknown"),
                [op |-> "BUFFERBLT", dst |-> "v", src |-> "s", to |-> 1, from |-> 0, len |-> 1]}]

(* Indices from a buffer of either kind, absolute, and the range they lie in. *)
IndexedDraws == [Program(2) EXCEPT
  !.cells = {<<>>, <<1, 2, 3, 0>>, <<2, 0, 1>>},
  !.commands = {Format("f1"), Source("v", 1), Indices("s", 2), Indices("v", 2), Indices("v", 4),
                Source("s", 1), Indexed(0, 0, 4, 0, 3),
                Indexed(0, 0, 3, 0, 3), Indexed(0, 1, 2, 1, 1), Indexed(1, 0, 2, 1, 2),
                IndexedAt(0, 1, 2, 0, 1), IndexedAt(1, 0, 2, 1, 1)}]

(* Two contexts that come and go, each with a shader of the same handle. *)
TwoShaders == [Program(2) EXCEPT
  !.contexts = {1, 2}, !.vertices = {<<6, 7>>}, !.types = {"f1"}, !.reopens = TRUE,
  !.commands = {Format("f1"), Format("h"), User(2), Draw("points", 1, 0),
                [op |-> "CREATEVERTEXSHADER", shader |-> "h", width |-> 1],
                [op |-> "CREATEVERTEXSHADER", shader |-> "h", width |-> 2],
                [op |-> "DELETEVERTEXSHADER", shader |-> "h"]}]

(* Two contexts of DirectX 7, which know only the vertices of the request. *)
PlainDraws == [Program(2) EXCEPT
  !.contexts = {1, 2}, !.vertices = {<<6, 7, 8>>, <<9>>}, !.types = {"f1", "f2"},
  !.dx7 = TRUE, !.reopens = TRUE,
  !.commands = {Points(0, 1), Points(1, 2), [op |-> "INDEXEDLINELIST2", base |-> 1, idx |-> <<1, 0>>],
                [op |-> "LINELIST_IMM", cells |-> <<4, 5>>], Op("alien"), Op("unknown")}]

(* Two contexts on the one device. *)
Textured(n) == [Program(n) EXCEPT
  !.contexts = {1, 2}, !.textures = {"t", "p"}, !.vertices = {<<6>>}, !.types = {"f1"}, !.dx7 = TRUE]

Palette(t) == [op |-> "SETPALETTE", palette |-> "a", texture |-> t]
Entries(n) == [op |-> "UPDATEPALETTE", palette |-> "a", entries |-> n]

PalettedDraws == [Textured(2) EXCEPT
  !.textures = {"p"}, !.texels = {0, 1},
  !.commands = {Texture("p"), Texture("none"), Palette("p"), Entries(1), Points(0, 1),
                [op |-> "TEXBLT", dst |-> "p", texels |-> 2]}]

(* The key of one texture changes, beside one whose key stays. *)
KeyedDraws == [Textured(2) EXCEPT
  !.textures = {"t"}, !.keys = {0, 1, 2},
  !.commands = {Texture("t"), Texture("p"), Texture("none"), Points(0, 1),
                [op |-> "COLORKEYENABLE", on |-> TRUE], [op |-> "COLORKEYENABLE", on |-> FALSE]}]

BlendedDraws == [Textured(2) EXCEPT
  !.commands = {Texture("t"), Texture("p"), Texture("none"), Points(0, 1),
                Op("TEXTUREMAPBLEND"), Op("COLOROP")}]

StateSets == [Textured(2) EXCEPT
  !.commands = {Value(1), Value(2), Points(0, 1)} \cup
               {Set(do) : do \in {"begin", "all", "end", "delete", "execute", "capture"}}]

(* Execute buffers: draws, what the runtime does, states, its end. *)
ExecuteBuffers == [Textured(0) EXCEPT
  !.contexts = {1},
  !.processed = <<<<1, 2>>, <<3, 4>>, <<5, 6>>, <<7, 8>>>>,
  !.commands = {Points(0, 1), Points(1, 1), Value(1), Op("PROCESSVERTICES"), Op("SPAN"), Op("EXIT"),
                Op("TEXTURELOAD"), [op |-> "INDEXEDLINELIST2", base |-> 0, idx |-> <<1, 0>>],
                [op |-> "TEXTUREHANDLE", texture |-> "t"]}]

(* Two that are skipped, a draw, and one that is given back: a place that  *)
(* did not count the skipped ones would be before the draw.                *)
Skipping == <<Op("SPAN"), Op("SPAN"), Points(0, 1), Op("PROCESSVERTICES"), Points(1, 1)>>

MCVertexSize == [f1 |-> 1, f2 |-> 2]

Everything ==
  [vertices |-> With(Vertices), indices |-> With(IndexedDraws), shaders |-> With(TwoShaders),
   plain |-> With(PlainDraws), palettes |-> With(PalettedDraws), keys |-> With(KeyedDraws),
   blend |-> With(BlendedDraws), sets |-> With(StateSets),
   execute |-> [ExecuteBuffers EXCEPT !.buffers = {Skipping} \cup SeqOf(ExecuteBuffers.commands, 3)]]
=============================================================================
