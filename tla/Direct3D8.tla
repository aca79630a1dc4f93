------------------------------ MODULE Direct3D8 -------------------------------
(***************************************************************************)
(* Direct3D 8 over the Direct3D 9 objects of Passthrough.                  *)
(*                                                                         *)
(*   guest-tools/src/d3dpt/d3d8.c   one wrapper for each object the        *)
(*        program gets, for as long as the object lives; the device with   *)
(*        its tables of vertex shaders, pixel shaders and state blocks,    *)
(*        which a Direct3D 8 program knows by number                       *)
(*                                                                         *)
(* A wrapper is known by the object in it.  A vertex shader is known by    *)
(* its declaration: its number is one slot of the table, as the            *)
(* declaration's is one of the heap.  The other tables' entries are known  *)
(* by their objects.  "app" of Passthrough is what this layer holds.       *)
(***************************************************************************)
EXTENDS Passthrough

CONSTANT MaxWrapped  \* bound of the model: references the program has to a wrapper

ASSUME WrapperAssumption == MaxWrapped \in Nat \ {0}

VARIABLES
  w8,   \* for each object, its wrapper's count: the program's references
  dev8  \* the device: its count and those of the program's references, the device in it, the
        \* tables (a vertex shader's declaration and its function, or none), and the current shaders

vars8 == <<vars, w8, dev8>>

NoWrappers == [h \in Objects |-> 0]
NoShaders  == [h \in {} |-> None]
NoDevice8  == [ref |-> 0, app |-> 0, dev |-> None, vs |-> NoShaders, ps |-> {}, sb |-> {},
               cur_vs |-> None, cur_ps |-> None]

World8 == [heap |-> heap, pending |-> pending, status |-> status, host |-> host,
           refused |-> refused, calls |-> <<>>, w8 |-> w8, dev8 |-> dev8]

\* What the layer holds of an object: one reference from a wrapper in use, one from the device on
\* the device in it, and one from each entry of a table.
Layer(w, h) ==
  Cardinality({x \in {"wrapper"} : w.w8[h] > 0} \cup {x \in {"device"} : w.dev8.dev = h}
    \cup {x \in {"declaration"} : h \in DOMAIN w.dev8.vs} \cup {x \in {"pixel"} : h \in w.dev8.ps}
    \cup {x \in {"block"} : h \in w.dev8.sb} \cup {v \in DOMAIN w.dev8.vs : w.dev8.vs[v] = h})

Becomes8(w) ==
  /\ Becomes(w) /\ w8' = w.w8 /\ dev8' = w.dev8
  /\ app' = [h \in Objects |-> Layer(w, h)]

TypeOK8 ==
  /\ TypeOK /\ w8 \in [Objects -> 0..MaxWrapped]
  /\ dev8.ref \in Nat /\ dev8.app \in 0..MaxWrapped /\ dev8.dev \in Handles
  /\ DOMAIN dev8.vs \subseteq Objects /\ Range(dev8.vs) \subseteq Handles
  /\ dev8.ps \subseteq Objects /\ dev8.sb \subseteq Objects
  /\ {dev8.cur_vs, dev8.cur_ps} \subseteq Handles

Init8 == Init /\ w8 = NoWrappers /\ dev8 = NoDevice8

-----------------------------------------------------------------------------
(* Wrappers and the device *)

(* A mutant: the reference that comes with a wrapped object is kept *)
WrapKeeps(w, h) ==
  IF w.w8[h] > 0 THEN [w EXCEPT !.w8[h] = @ + 1]
  ELSE [w EXCEPT !.w8[h] = 1, !.dev8.ref = @ + 1]

\* w8_new, with a reference on the object: a wrapper in use has one already.
Wrap(w, h) ==
  IF w.w8[h] > 0 THEN Drop([w EXCEPT !.w8[h] = @ + 1], h)
  ELSE [w EXCEPT !.w8[h] = 1, !.dev8.ref = @ + 1]

FreeVertexShader(w, v) == Drop(Drop(w, v), w.dev8.vs[v])

\* The tables, then the device.
Teardown(w) ==
  LET FreeVs(v, n)  == FreeVertexShader(n, v)
      FreeOne(h, n) == Drop(n, h)
      shaders == FoldSet(FreeVs, w, DOMAIN w.dev8.vs)
      tables  == FoldSet(FreeOne, shaders, w.dev8.ps \cup w.dev8.sb)
  IN  [Drop(tables, w.dev8.dev) EXCEPT !.dev8 = NoDevice8]

DropDevice8(w) ==
  IF w.dev8.ref > 1 THEN [w EXCEPT !.dev8.ref = @ - 1] ELSE Teardown(w)

\* w8_release: the wrapper in use had one reference on the object, and one on the device.
Unwrap(w, h) ==
  IF w.w8[h] > 1 THEN [w EXCEPT !.w8[h] = @ - 1]
  ELSE DropDevice8(Drop([w EXCEPT !.w8[h] = 0], h))

-----------------------------------------------------------------------------
(* What the program does *)

Device8   == running /\ dev8.app > 0 /\ ~host.lost
Wraps(h)  == running /\ w8[h] > 0 /\ ~host.lost
WrapsA(h, kind) == Wraps(h) /\ heap[h].kind = kind
Room8(h)  == w8[h] < MaxWrapped
Same8(w)  == Becomes8(w) /\ SameRun
Only8(w)  == Same8(w) /\ UNCHANGED next
Send8(op, h) == Only8(Cmd(World8, [op |-> op, h |-> h]))
Ask8(op, h)  == Only8(Sync(World8, [op |-> op, h |-> h]))

CreateDevice8(how) ==
  LET t == TryDevice(World8, how)
      d == [NoDevice8 EXCEPT !.ref = 1, !.app = 1, !.dev = next]
  IN  /\ running /\ program.api = 8 /\ dev8 = NoDevice8 /\ Fresh
      /\ Same8(IF t.done THEN [t.w EXCEPT !.dev8 = d] ELSE t.w)

\* AddRef and Release of the device; any wrapper gives it too (GetDevice).
AddRefDevice8 ==
  /\ running /\ (dev8.app > 0 \/ \E h \in Objects : w8[h] > 0) /\ dev8.app < MaxWrapped
  /\ Only8([World8 EXCEPT !.dev8.app = @ + 1, !.dev8.ref = @ + 1])

ReleaseDevice8 ==
  running /\ dev8.app > 0 /\ Only8(DropDevice8([World8 EXCEPT !.dev8.app = @ - 1]))

\* Of a wrapper the program has.
AddRef8(h)  == Wraps(h) /\ Room8(h) /\ Only8([World8 EXCEPT !.w8[h] = @ + 1])
Release8(h) == running /\ w8[h] > 0 /\ Only8(Unwrap(World8, h))

\* A texture, cube texture, buffer, render target or depth surface.
Create8(kind, ok) ==
  LET t == TryCreate(World8, next, kind, dev8.dev, ok)
  IN  /\ Makes(kind) /\ kind \in {"texture", "buffer", "surface"} /\ Device8 /\ Fresh
      /\ Same8(IF t.done THEN Wrap(t.w, next) ELSE t.w)

CreateImageSurface8 ==
  /\ Makes("memory") /\ Device8 /\ Fresh
  /\ Same8(Wrap(Unname(Make(World8, next, "memory", dev8.dev), next), next))

\* Objects that there are, by whatever way: a reference of the caller's, and the wrapper.
Take8(h) == Room8(h) /\ Only8(Wrap(Add(World8, h), h))

\* One that the host may fail to give.
TakeNew8(t) == Fresh /\ Same8(IF t.done THEN Wrap(t.w, next) ELSE t.w)

GetSurfaceLevel8(t) ==
  /\ WrapsA(t, "texture")
  /\ \/ heap[t].peer # None /\ Take8(heap[t].peer)
     \/ heap[t].peer = None /\ \E ok \in BOOLEAN : TakeNew8(TryLevel(World8, t, ok))

GetContainer8(s) == WrapsA(s, "level") /\ Take8(heap[s].peer)

GetBackBuffer8 ==
  LET d == dev8.dev IN
  /\ Device8
  /\ \/ heap[d].peer # None /\ Take8(heap[d].peer)
     \/ heap[d].peer = None /\ \E ok \in BOOLEAN : TakeNew8(TryBackBuffer(World8, d, ok))

GetBound8(slot) ==
  LET h == heap[dev8.dev].bound[slot] IN Device8 /\ h # None /\ Take8(h)

GetTexture8      == GetBound8("stage")
GetStreamSource8 == GetBound8("stream")
GetRenderTarget8 == GetBound8("target")

SetBound8(slot, kind, h) ==
  /\ Makes(kind) /\ Device8 /\ (h # None => WrapsA(h, kind))
  /\ Only8(PutMarked(World8, dev8.dev, slot, h))

SetTexture8(h)      == SetBound8("stage", "texture", h)
SetStreamSource8(h) == SetBound8("stream", "buffer", h)

\* A surface of another owner may be used after its last Release.
SetRenderTarget8(s) ==
  /\ Device8 /\ heap[s].kind \in {"level", "backbuffer", "surface"}
  /\ heap[s].dev = dev8.dev /\ heap[s].named /\ Lives(s)
  /\ Only8(PutObject(World8, dev8.dev, "target", s))

\* SetRenderState, SetVertexShaderConstant, SetViewport
SetState8(part, v) ==
  <<part, v>> \in program.sets /\ Device8 /\ Only8(PutValue(World8, dev8.dev, part, v))

Draw8        == Device8 /\ Send8("DRAW", dev8.dev)
Present8     == Device8 /\ Ask8("DRAW", dev8.dev)
UnlockRect8(t) == WrapsA(t, "texture") /\ Send8("UPDATE", t)
Unlock8(b)     == WrapsA(b, "buffer") /\ Send8("UPDATE", b)

\* Between two of the host's, from the system's memory, or into it.
CopyRects8(s, o) ==
  /\ WrapsA(s, "surface") /\ Wraps(o)
  /\ \/ heap[o].kind = "surface" /\ Send8("SURFACE", s)
     \/ heap[o].kind = "memory" /\ (Send8("UPDATE", s) \/ Ask8("SURFACE", s))

Reset8(how) ==
  running /\ dev8.app > 0 /\ Only8(TryReset(World8, dev8.dev, how))

-----------------------------------------------------------------------------
(* Shaders and state blocks, by number *)

SetSlot(w, slot, h) == PutMarked(w, w.dev8.dev, slot, h)

\* A declaration, and a function for it if the program has one; neither stays without the other.
DeclarationAlone(t) ==
  Same8(IF t.done THEN [t.w EXCEPT !.dev8.vs = (next :> None) @@ @] ELSE t.w) /\ Fresh

WithFunction(t, ok) ==
  LET f == TryCreate(t.w, next + 1, "shader", dev8.dev, ok) IN
  /\ t.done /\ next < program.handles /\ next' = next + 2
  /\ Same8(IF f.done THEN [f.w EXCEPT !.dev8.vs = (next :> next + 1) @@ @] ELSE Drop(f.w, next))

CreateVertexShader8(ok, function) ==
  LET t == TryCreate(World8, next, "declaration", dev8.dev, ok) IN
  /\ Makes("declaration") /\ Device8 /\ next =< program.handles
  /\ \/ DeclarationAlone(t)
     \/ Makes("shader") /\ WithFunction(t, function)

\* A shader of the table, or a vertex format without one.
SetVertexShader8(v) ==
  LET w == [World8 EXCEPT !.dev8.cur_vs = v] IN
  /\ Device8 /\ v \in DOMAIN dev8.vs
  /\ Only8(SetSlot(SetSlot(w, "declaration", v), "shader", dev8.vs[v]))

SetVertexFormat8(format) ==
  LET w == [World8 EXCEPT !.dev8.cur_vs = None] IN
  /\ <<"format", format>> \in program.sets /\ Device8
  /\ Only8(PutValue(SetSlot(w, "shader", None), dev8.dev, "format", format))

DeleteVertexShader8(v) ==
  LET unset == SetSlot(SetSlot(World8, "shader", None), "declaration", None)
      w == IF dev8.cur_vs = v THEN [unset EXCEPT !.dev8.cur_vs = None] ELSE World8
  IN  /\ Device8 /\ v \in DOMAIN dev8.vs
      /\ Only8([FreeVertexShader(w, v) EXCEPT
                  !.dev8.vs = [x \in DOMAIN dev8.vs \ {v} |-> dev8.vs[x]]])

CreatePixelShader8(ok) ==
  LET t == TryCreate(World8, next, "pixel", dev8.dev, ok)
  IN  /\ Makes("pixel") /\ Device8 /\ Fresh
      /\ Same8(IF t.done THEN [t.w EXCEPT !.dev8.ps = @ \cup {next}] ELSE t.w)

SetPixelShader8(p) ==
  /\ Makes("pixel") /\ Device8 /\ p \in dev8.ps \cup {None}
  /\ Only8(SetSlot([World8 EXCEPT !.dev8.cur_ps = p], "pixel", p))

DeletePixelShader8(p) ==
  LET w == IF dev8.cur_ps = p
           THEN [SetSlot(World8, "pixel", None) EXCEPT !.dev8.cur_ps = None] ELSE World8
  IN  /\ Device8 /\ p \in dev8.ps
      /\ Only8([Drop(w, p) EXCEPT !.dev8.ps = @ \ {p}])

NotRecording == Device8 /\ heap[dev8.dev].recording = None

CreateStateBlock8(type) ==
  LET new == [NewBlock(World8, dev8.dev) EXCEPT !.heap[next].marks = Marks(type)] IN
  /\ NoBlock /\ NotRecording /\ Fresh
  /\ Same8([CopyState(new, dev8.dev, next) EXCEPT !.dev8.sb = @ \cup {next}])

BeginStateBlock8 ==
  /\ NoBlock /\ NotRecording /\ Fresh
  /\ Same8([NewBlock(World8, dev8.dev) EXCEPT !.heap[dev8.dev].recording = next])

EndStateBlock8 ==
  LET d == dev8.dev
      b == heap[d].recording
  IN  /\ Device8 /\ b # None
      /\ Only8([CopyState([World8 EXCEPT !.heap[d].recording = None], d, b) EXCEPT
                  !.dev8.sb = @ \cup {b}])

CaptureStateBlock8(b) == NotRecording /\ b \in dev8.sb /\ Only8(CopyState(World8, dev8.dev, b))
ApplyStateBlock8(b)   == NotRecording /\ b \in dev8.sb /\ Only8(ApplyState(World8, dev8.dev, b))
DeleteStateBlock8(b)  ==
  Device8 /\ b \in dev8.sb /\ Only8([Drop(World8, b) EXCEPT !.dev8.sb = @ \ {b}])

-----------------------------------------------------------------------------

DeviceCalls8 ==
  \/ AddRefDevice8 \/ ReleaseDevice8 \/ CreateImageSurface8 \/ GetBackBuffer8
  \/ GetTexture8 \/ GetStreamSource8 \/ GetRenderTarget8
  \/ Draw8 \/ Present8 \/ BeginStateBlock8 \/ EndStateBlock8
  \/ \E ok \in BOOLEAN : \/ CreatePixelShader8(ok)
                         \/ \E kind \in Kinds : Create8(kind, ok)
                         \/ \E function \in BOOLEAN : CreateVertexShader8(ok, function)
  \/ \E how \in Outcomes : CreateDevice8(how) \/ Reset8(how)
  \/ \E v \in Values : \/ SetVertexFormat8(v)
                       \/ \E part \in States \ {"format"} : SetState8(part, v)
  \/ \E type \in BlockTypes : CreateStateBlock8(type)

ObjectCalls8(h) ==
  \/ AddRef8(h) \/ Release8(h) \/ GetSurfaceLevel8(h) \/ GetContainer8(h)
  \/ SetRenderTarget8(h) \/ UnlockRect8(h) \/ Unlock8(h) \/ \E o \in Objects : CopyRects8(h, o)
  \/ DeleteVertexShader8(h) \/ DeletePixelShader8(h)
  \/ CaptureStateBlock8(h) \/ ApplyStateBlock8(h) \/ DeleteStateBlock8(h)

SlotCalls8(h) ==
  SetTexture8(h) \/ SetStreamSource8(h) \/ SetVertexShader8(h) \/ SetPixelShader8(h)

Calls8 ==
  \/ DeviceCalls8
  \/ \E h \in Objects : ObjectCalls8(h)
  \/ \E h \in Handles : SlotCalls8(h)

Next8 ==
  \/ Runs /\ w8' = NoWrappers /\ dev8' = NoDevice8
  \/ Calls /\ UNCHANGED <<w8, dev8>>
  \/ Calls8

Spec8 == Init8 /\ [][Next8]_vars8

-----------------------------------------------------------------------------
(* Properties *)

\* Every object's count is the number of references there are, where a Direct3D 8 program's are
\* those of the layer: wrappers the program has, revived, shared and released in whatever
\* order, and tables of shaders and blocks, never hold an object that is gone, nor keep one
\* they no longer name. The device lives for the program's references and the last wrapper.
CountsExact ==
  /\ RefsExact
  /\ dev8.ref = dev8.app + Cardinality({h \in Objects : w8[h] > 0})
=============================================================================
