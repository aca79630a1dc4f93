----------------------------- MODULE DrawDevice -----------------------------
(***************************************************************************)
(* What the guest's display driver and the host's executor promise         *)
(* together of a stream of drawing commands: the blits of a stream are     *)
(* done, then each command acts at once, and a draw shows the vertices,    *)
(* the picture and the state that are current where it stands.  A stream's *)
(* context has its own vertex format, shaders, vertices and indices; the   *)
(* texture, the states, the keying and the state sets are those of the one *)
(* device that all contexts share.  Module DrawStream has the two passes   *)
(* of the driver and the run of the executor that do it.                   *)
(*                                                                         *)
(* Memory is counted in cells; a vertex format is so many cells wide.      *)
(* What the runtime asks and what programs write is not restricted here.   *)
(***************************************************************************)
EXTENDS Integers, SequencesExt

CONSTANTS
  Contexts, Buffers, Textures, Palettes,
  VertexSize,     \* the width of each flexible vertex format
  Shaders,        \* handles of vertex shaders, whose width their creator says
  Sets,           \* handles of state sets
  MaxVertices,    \* as many as one draw may name
  Paletted        \* the textures whose texels are palette indices

VARIABLES
  memory,         \* buffers, textures, their colour keys and palettes
  contexts,       \* the state of each context
  device,         \* what they share
  request,        \* the stream under way, or Idle
  drawn,          \* what its draws show
  answer          \* whether it was taken as far as it goes, and how far

vars == <<memory, contexts, device, request, drawn, answer>>

Idle   == [op |-> "idle"]
Silent == [ok |-> TRUE, stop |-> 0]

Fresh == [format |-> "none", shaders |-> [h \in Shaders |-> 0],
          source |-> "none", stride |-> 0, indices |-> "none", index |-> 0]

(* A state set that is begun gets what is recorded until it ends. *)
Empty   == [f \in {} |-> 0]
Absent  == [begun |-> FALSE, block |-> Empty]
Pending == [begun |-> TRUE, block |-> Empty]
Off     == [on |-> FALSE, block |-> Empty]

One == [state |-> [texture |-> "none", value |-> 0], keying |-> FALSE, blend |-> "own",
        recording |-> Off, sets |-> [s \in Sets |-> Absent]]

Init ==
  /\ memory.cells = [b \in Buffers |-> <<>>]
  /\ memory.texels = [t \in Textures |-> 0]
  /\ DOMAIN memory.key = Textures
  /\ memory.palette = [t \in Textures |-> "none"]
  /\ memory.entries = [p \in Palettes |-> 0]
  /\ contexts = [c \in Contexts |-> <<>>] /\ device = One
  /\ request = Idle /\ drawn = <<>> /\ answer = Silent

-----------------------------------------------------------------------------
(* The blits of a stream. *)
Blit(m, t) ==
  IF t.op = "BUFFERBLT"
  THEN LET src == m.cells[t.src]
           dst == m.cells[t.dst]
       IN  IF src # <<>> /\ t.to + t.len <= Len(dst) /\ t.from + t.len <= Len(src)
           THEN [m EXCEPT !.cells[t.dst] = [i \in DOMAIN dst |->
                   IF i - t.to \in 1..t.len THEN src[t.from + i - t.to] ELSE dst[i]]]
           ELSE m
  ELSE IF t.op = "TEXBLT" THEN [m EXCEPT !.texels[t.dst] = t.texels] ELSE m

(* A stream under way: memory, the context, the device, what is drawn, and *)
(* the request it came with.                                               *)
Width(c, f) ==
  IF f \in Shaders THEN c.shaders[f]
  ELSE IF f \in DOMAIN VertexSize THEN VertexSize[f] ELSE 0

Cells(s) ==
  IF s.c.source = "user" THEN s.request.vertices
  ELSE IF s.c.source \in Buffers THEN s.m.cells[s.c.source] ELSE <<>>

Corners(t) == IF t.prim = "points" THEN t.count ELSE t.count + 1

(* What a draw shows of vertices that start at the given cells. *)
Show(s, format, width, cells, starts) ==
  LET texture == s.d.state.texture
      bound   == texture # "none"
  IN  [s EXCEPT !.drawn = Append(@,
         [format   |-> format,
          vertices |-> [k \in DOMAIN starts |->
                          SubSeq(cells, starts[k] + 1, starts[k] + width)],
          picture  |-> IF ~bound THEN <<>>
                       ELSE <<s.m.texels[texture], s.m.key[texture],
                              IF texture \in Paletted /\ s.m.palette[texture] # "none"
                              THEN s.m.entries[s.m.palette[texture]] ELSE 0>>,
          keyed    |-> s.d.keying /\ bound /\ s.m.key[texture] # 0,
          blend    |-> IF s.d.blend = "own" THEN "own"
                       ELSE IF bound THEN "textured" ELSE "plain",
          value    |-> s.d.state.value])]

(* A draw out of stream 0. *)
Draw(s, first, number, starts) ==
  LET format == s.c.format
      width  == Width(s.c, format)
      cells  == Cells(s)
  IN  IF width # 0 /\ width <= s.c.stride /\ starts # <<>> /\ number <= MaxVertices
         /\ first + number * s.c.stride <= Len(cells)
      THEN Show(s, <<format, width>>, width, cells, starts) ELSE s

Indexed(s, t, base) ==
  LET all  == IF s.c.indices \in Buffers THEN s.m.cells[s.c.indices] ELSE <<>>
      used == SubSeq(all, t.start + 1, t.start + Corners(t))
  IN  IF s.c.index = 2 /\ t.start + Corners(t) <= Len(all)
         /\ \A k \in DOMAIN used : used[k] \in t.min..(t.min + t.number - 1)
      THEN Draw(s, base + t.min * s.c.stride, t.number,
                [k \in DOMAIN used |-> base + used[k] * s.c.stride])
      ELSE s

(* A draw out of the vertices that came with the stream. *)
Plain(s, used) ==
  LET type  == s.request.type
      width == VertexSize[type]
  IN  IF \A k \in DOMAIN used : (used[k] + 1) * width <= Len(s.request.vertices)
      THEN Show(s, <<type, width>>, width, s.request.vertices,
                [k \in DOMAIN used |-> used[k] * width])
      ELSE s

(* State goes into the state set that is being recorded, if one is. *)
Put(s, field, v) ==
  IF s.d.recording.on THEN [s EXCEPT !.d.recording.block = (field :> v) @@ @]
  ELSE [s EXCEPT !.d.state[field] = v]

StateSet(s, t) ==
  LET set == s.d.sets[t.set]
  IN  CASE t.do = "begin"  -> [s EXCEPT !.d.recording = [on |-> TRUE, block |-> Empty],
                                        !.d.sets[t.set] = Pending]
        [] t.do = "all"    -> [s EXCEPT !.d.recording = Off,
                                        !.d.sets[t.set] = [begun |-> FALSE, block |-> s.d.state]]
        [] t.do = "end"    -> [s EXCEPT !.d.recording = Off,
             !.d.sets[t.set] = IF s.d.recording.on /\ @.begun
                               THEN [begun |-> FALSE, block |-> s.d.recording.block] ELSE @]
        [] t.do = "delete" -> [s EXCEPT !.d.sets[t.set] = Absent]
        [] s.d.recording.on -> s
        [] t.do = "execute" -> [s EXCEPT !.d.state = set.block @@ @]
        [] t.do = "capture" -> [s EXCEPT !.d.sets[t.set].block =
             [f \in DOMAIN @ |-> s.d.state[f]]]

Do(s, t) ==
  CASE t.op = "SETVERTEXSHADER"     -> [s EXCEPT !.c.format = t.format]
    [] t.op = "CREATEVERTEXSHADER"  -> [s EXCEPT !.c.shaders[t.shader] = t.width]
    [] t.op = "DELETEVERTEXSHADER"  -> [s EXCEPT !.c.shaders[t.shader] = 0]
    [] t.op = "SETSTREAMSOURCE"     -> [s EXCEPT !.c.source = t.buffer, !.c.stride = t.stride]
    [] t.op = "SETSTREAMSOURCEUM"   -> [s EXCEPT !.c.source = "user", !.c.stride = t.stride]
    [] t.op = "SETINDICES"          -> [s EXCEPT !.c.indices = t.buffer, !.c.index = t.stride]
    [] t.op = "DRAWPRIMITIVE"       -> Draw(s, t.first * s.c.stride, Corners(t),
                  [k \in 1..Corners(t) |-> (t.first + k - 1) * s.c.stride])
    [] t.op = "DRAWPRIMITIVE2"      -> Draw(s, t.at, Corners(t),
                  [k \in 1..Corners(t) |-> t.at + (k - 1) * s.c.stride])
    [] t.op = "DRAWINDEXEDPRIMITIVE"  -> Indexed(s, t, t.base * s.c.stride)
    [] t.op = "DRAWINDEXEDPRIMITIVE2" -> Indexed(s, t, t.at)
    [] t.op = "POINTS"              -> Plain(s, [k \in 1..t.count |-> t.first + k - 1])
    [] t.op = "INDEXEDLINELIST2"    -> Plain(s, [k \in DOMAIN t.idx |-> t.base + t.idx[k]])
    [] t.op = "LINELIST_IMM"        -> Show(s, <<s.request.type, VertexSize[s.request.type]>>,
                                            VertexSize[s.request.type], t.cells, <<0>>)
    [] t.op = "TEXTUREMAP"          -> Put(s, "texture", t.texture)
    [] t.op = "TEXTUREHANDLE"       -> [Put(s, "texture", t.texture) EXCEPT !.d.blend = "legacy"]
    [] t.op = "TEXTUREMAPBLEND"     -> [s EXCEPT !.d.blend = "legacy"]
    [] t.op = "COLOROP"             -> [s EXCEPT !.d.blend = "own"]
    [] t.op = "COLORKEYENABLE"      -> [s EXCEPT !.d.keying = t.on]
    [] t.op = "RENDERSTATE"         -> Put(s, "value", t.value)
    [] t.op = "SETPALETTE"          -> [s EXCEPT !.m.palette[t.texture] = t.palette]
    [] t.op = "UPDATEPALETTE"       -> [s EXCEPT !.m.entries[t.palette] = t.entries]
    [] t.op = "STATESET"            -> StateSet(s, t)
    [] OTHER                        -> s

(* A command nobody knows ends the stream; what only the runtime can do    *)
(* ends an execute buffer before it, and so does its end.                  *)
Known(t) == t.op # "unknown"
Ours(t)  == t.op \notin {"PROCESSVERTICES", "TEXTURELOAD", "EXIT"}

Taken(r) ==
  LET ends == {i \in DOMAIN r.stream : IF r.eb THEN ~Ours(r.stream[i]) ELSE ~Known(r.stream[i])}
  IN  IF ends = {} THEN Len(r.stream)
      ELSE (CHOOSE i \in ends : \A j \in ends : i <= j) - 1

Answered(r) ==
  LET n  == Taken(r)
      ok == n = Len(r.stream) \/ r.stream[n + 1].op = "EXIT"
  IN  [ok |-> ok, stop |-> IF r.eb /\ ~ok THEN n ELSE 0]

-----------------------------------------------------------------------------
CreateContext(c)  == contexts[c] = <<>> /\ contexts' = [contexts EXCEPT ![c] = Fresh]
DestroyContext(c) == contexts[c] # <<>> /\ contexts' = [contexts EXCEPT ![c] = <<>>]

Write(b, cells) ==
  memory' = [memory EXCEPT !.cells[b] = cells]
Paint(t, v, k) ==
  memory' = [memory EXCEPT !.texels[t] = v, !.key[t] = k]

Stream(r) ==
  /\ request = Idle /\ contexts[r.ctx] # <<>>
  /\ \E stream \in {SubSeq(r.stream, 1, Taken(r))} :
     \E end \in {FoldLeft(Do, [m |-> FoldLeft(Blit, memory, stream),
                              c |-> contexts[r.ctx], d |-> device, drawn |-> <<>>,
                              request |-> r],
                         stream)} :
       /\ memory' = end.m
       /\ contexts' = [contexts EXCEPT ![r.ctx] = end.c]
       /\ device' = end.d
       /\ drawn' = end.drawn
  /\ request' = r
  /\ answer' = Answered(r)

Return ==
  /\ request # Idle
  /\ request' = Idle /\ drawn' = <<>> /\ answer' = Silent
  /\ UNCHANGED <<memory, contexts, device>>

Next ==
  \/ \E c \in Contexts : CreateContext(c) /\ UNCHANGED <<memory, device, request, drawn, answer>>
  \/ \E c \in Contexts : DestroyContext(c) /\ UNCHANGED <<memory, device, request, drawn, answer>>
  \/ \E b \in Buffers :
        Write(b, memory'.cells[b]) /\ UNCHANGED <<contexts, device, request, drawn, answer>>
  \/ \E t \in Textures :
        Paint(t, memory'.texels[t], memory'.key[t])
        /\ UNCHANGED <<contexts, device, request, drawn, answer>>
  \/ Stream(request')
  \/ Return

Spec == Init /\ [][Next]_vars
=============================================================================
