----------------------------- MODULE Passthrough ------------------------------
(***************************************************************************)
(* Direct3D of a guest program, passed through to the host.                *)
(*                                                                         *)
(*   guest-tools/src/d3dpt/d3d9.c, d3d9_res.h, d3d9_p3.h   the DLL in the  *)
(*        program: the COM objects with their reference counts, a shadow   *)
(*        of the device's state, and the window's encoder (d3dpt_enc.h)    *)
(*   d3dpt/hw/d3dpt_mm.c        the device: attach, doorbell, reset        *)
(*   d3dpt/exec/d3dpt_exec.cpp  the executor: objects by handle, a batch   *)
(*        of records run while the guest waits at the doorbell             *)
(*                                                                         *)
(* One program at a time has the device (FXPTL is exclusive) and calls the *)
(* DLL from one thread; programs exit, are killed, and the machine is      *)
(* rebooted.  An object is known by the handle res_init took for it.  Each *)
(* slot of the device's state stands for the slots of its kind, and so do  *)
(* the four parts of it that are no objects.                               *)
(***************************************************************************)
EXTENDS Integers, Sequences, FiniteSets, SequencesExt, FiniteSetsExt

CONSTANTS
  Programs,    \* the programs to choose from, for each of the runs one after the other:
               \* the Direct3D it uses, the kinds of object it creates and the states it
               \* sets, and (bound of the model) how many objects
  MaxRefs,     \* bound of the model: references the program has to one object
  BatchLen     \* records that fit in the command area

Kinds     == {"texture", "buffer", "shader", "pixel", "declaration", "query", "surface",
              "memory", "block"}
MaxRuns   == Len(Programs)
MaxHandle == Max({p.handles : p \in UNION Range(Programs)})

Objects == 1..MaxHandle
None    == 0
Handles == Objects \cup {None}
Values  == {0, 1}  \* 0 is the default
Content == {"stage", "stream", "shader", "declaration", "pixel"}  \* the slots a state block knows
Slots   == Content \cup {"target"}
\* What is no object: render states, transforms, lights and their like; shader constants and
\* clip planes; the vertex format; the viewport and the scissor rectangle.
States  == {"state", "constant", "format", "view"}
Parts   == Content \cup States  \* what a state block can mark
Unbound == [s \in Slots |-> None]
Unset   == [p \in States |-> 0]

ASSUME ProgramAssumption ==
  Programs \in Seq(SUBSET [api : {8, 9}, kinds : SUBSET Kinds, sets : SUBSET (States \X Values),
                           handles : Nat \ {0}])
    /\ {} \notin Range(Programs)
ASSUME BoundAssumption == {MaxRefs, BatchLen} \subseteq Nat \ {0}
ASSUME HandleAssumption ==
  MaxHandle \in Nat /\ \A run \in Range(Programs) : \A p \in run : p.handles =< MaxHandle

VARIABLES
  \* the program, and the DLL in it
  program,  \* what it creates
  running,  \* the program has the DLL
  runs,     \* programs so far
  next,     \* enc.next_handle
  app,      \* references the program has
  heap,     \* the DLL's objects
  \* the window
  pending,  \* the records between two doorbells
  status,   \* enc.last_status: the last batch was run to its end
  \* the host
  host,     \* Exec
  attach,   \* Exec.attach, and the device's own count
  refused   \* history: a batch was given up with an error

vars == <<program, running, runs, next, app, heap, pending, status, host, attach, refused>>

\* What the operators below change; "stop" while a batch is given up.
\* "calls": what the call that is under way has sent, and the window has not yet taken.
World == [heap |-> heap, pending |-> pending, status |-> status, host |-> host,
          refused |-> refused, calls |-> <<>>]

\* res_hdr with what the kinds add: "named" while the host has the handle,
\* "peer" is a level's texture, a texture's cached level, a device's back buffer;
\* "bound", "value": a device's shadow state, a block's contents.
Gone == [kind |-> "none", ref |-> 0, named |-> FALSE, dev |-> None, peer |-> None,
         bound |-> Unbound, value |-> Unset, marks |-> {}, recording |-> None]

\* "apart": a history, the parts of the state that are not set again since the shadow lost sight
\* of them: dev_Reset, dev_SetFVF and dev_SetVertexDeclaration do not take them along.
HostGone == [objs |-> {}, dev |-> None, bound |-> Unbound, value |-> Unset, lost |-> FALSE,
             apart |-> {}]

NoProgram == [api |-> 9, kinds |-> {}, sets |-> {}, handles |-> 0]

TypeOK ==
  /\ program \in UNION Range(Programs) \cup {NoProgram}
  /\ running \in BOOLEAN /\ runs \in 0..MaxRuns /\ next \in 1..MaxHandle + 1
  /\ app \in [Objects -> 0..MaxRefs]
  /\ heap \in [Objects -> [kind : {"none", "device", "level", "backbuffer"} \cup Kinds,
                           ref : Nat, named : BOOLEAN, dev : Handles, peer : Handles,
                           bound : [Slots -> Handles], value : [States -> Values],
                           marks : SUBSET Parts, recording : Handles]]
  /\ Len(pending) =< BatchLen /\ {status, refused} \subseteq BOOLEAN
  /\ host \in [objs : SUBSET Objects, dev : Handles, bound : [Slots -> Handles],
               value : [States -> Values], lost : BOOLEAN, apart : SUBSET (Slots \cup States)]
  /\ attach \in 0..MaxRuns

Init ==
  /\ program = NoProgram /\ running = FALSE /\ runs = 0 /\ next = 1 /\ app = [h \in Objects |-> 0]
  /\ heap = [h \in Objects |-> Gone] /\ pending = <<>> /\ status = TRUE
  /\ host = HostGone /\ attach = 0 /\ refused = FALSE

-----------------------------------------------------------------------------
(* The executor *)

Refuse(w)   == [w EXCEPT !.status = FALSE, !.refused = TRUE]
Put(w, h)   == IF h \in w.host.objs THEN Refuse(w) ELSE [w EXCEPT !.host.objs = @ \cup {h}]
Known(w, h) == h \in w.host.objs

\* A size it refuses, before it looks at the device; and what Direct3D makes of the others.
Outcomes == {"ok", "refused", "failed"}

\* One device at a time: the one there is goes first, with all its objects.
RunCreateDevice(w, r) ==
  IF r.how = "refused" THEN w
  ELSE [w EXCEPT !.host = IF r.how = "ok" THEN [HostGone EXCEPT !.dev = r.h, !.objs = {r.h}]
                          ELSE IF @.dev # None THEN HostGone ELSE @]

\* What a Reset that is refused leaves to the host, the DLL having unbound it; and what the DLL
\* keeps over one that is not.
Left(x) == x.apart \cup {s \in Slots : x.bound[s] # None}
Kept(x) == {p \in {"constant"} : x.lost \/ p \in x.apart \/ x.value[p] # 0}

\* Direct3D forgets its state with a Reset; a device it cannot reset is lost.
RunReset(w, r) ==
  IF r.how = "refused" THEN [w EXCEPT !.host.apart = Left(w.host)]
  ELSE IF w.host.dev = None \/ r.h # w.host.dev THEN Refuse(w)
  ELSE [w EXCEPT !.host =
          IF r.how = "ok" THEN [@ EXCEPT !.bound = Unbound, !.value = Unset, !.lost = FALSE,
                                         !.apart = Kept(w.host)]
          ELSE [@ EXCEPT !.lost = TRUE]]

RunRelease(w, r) ==
  IF ~Known(w, r.h) THEN Refuse(w)
  ELSE IF r.h = w.host.dev THEN [w EXCEPT !.host = HostGone]
  ELSE [w EXCEPT !.host.objs = @ \ {r.h}]

\* What Direct3D sets back with what is bound: a declaration takes the place of a vertex format,
\* and a render target brings its own viewport.
Beside(slot) ==
  CASE slot = "declaration" -> {"format"} [] slot = "target" -> {"view"} [] OTHER -> {}
Cleared(value, parts) == [p \in States |-> IF p \in parts THEN 0 ELSE value[p]]

HostBind(x, slot, h) ==
  LET bound == [x EXCEPT !.bound[slot] = h, !.value = Cleared(@, Beside(slot))] IN
  IF slot # "declaration" \/ h # None THEN [bound EXCEPT !.apart = @ \ {slot}]
  ELSE IF x.value["format"] # 0 THEN [bound EXCEPT !.apart = @ \cup {slot}]  \* the DLL keeps it
  ELSE bound

\* A vertex format takes the place of a declaration (which the DLL keeps); no format changes nothing.
HostFormat(x, v) ==
  IF v # 0 THEN [x EXCEPT !.value["format"] = v, !.bound["declaration"] = None,
                          !.apart = @ \ {"declaration"}]
  ELSE IF x.value["format"] # 0 THEN [x EXCEPT !.apart = @ \cup {"declaration"}]
  ELSE x

HostSet(x, part, v) ==
  IF part = "format" THEN HostFormat(x, v)
  ELSE [x EXCEPT !.value[part] = v, !.apart = @ \ {part}]

RunBind(w, r) ==
  IF w.host.dev = None \/ (r.h # None /\ ~Known(w, r.h)) THEN Refuse(w)
  ELSE [w EXCEPT !.host = HostBind(@, r.slot, r.h)]

RunValue(w, r) ==
  IF w.host.dev = None THEN Refuse(w) ELSE [w EXCEPT !.host = HostSet(@, r.part, r.v)]

RunCreate(w, r) ==
  IF w.host.dev = None THEN Refuse(w) ELSE IF r.ok THEN Put(w, r.h) ELSE w

RunGetSurface(w, r) ==
  IF w.host.dev = None \/ (r.of # None /\ ~Known(w, r.of)) THEN Refuse(w)
  ELSE IF r.ok THEN Put(w, r.h) ELSE w

RunDraw(w, r)    == IF w.host.dev = None THEN Refuse(w) ELSE w
RunUpdate(w, r)  == IF ~Known(w, r.h) THEN Refuse(w) ELSE w
RunQuery(w, r)   == IF ~Known(w, r.h) THEN Refuse(w) ELSE w
RunSurface(w, r) == IF w.host.dev = None \/ ~Known(w, r.h) THEN Refuse(w) ELSE w

RunRecord(w, r) ==
  CASE ~w.status              -> w        \* the rest of a refused batch
    [] r.op = "CREATE_DEVICE" -> RunCreateDevice(w, r)
    [] r.op = "RESET_DEVICE"  -> RunReset(w, r)
    [] r.op = "RELEASE"       -> RunRelease(w, r)
    [] r.op = "SET_OBJECT"    -> RunBind(w, r)
    [] r.op = "SET_STATE"     -> RunValue(w, r)
    [] r.op = "CREATE"        -> RunCreate(w, r)
    [] r.op = "GET_SURFACE"   -> RunGetSurface(w, r)
    [] r.op = "DRAW"          -> RunDraw(w, r)
    [] r.op = "UPDATE"        -> RunUpdate(w, r)
    [] r.op = "QUERY"         -> RunQuery(w, r)
    [] r.op = "SURFACE"       -> RunSurface(w, r)
    [] OTHER                  -> Refuse(w)

-----------------------------------------------------------------------------
(* The window *)

\* The executor never looks at the DLL's objects.
Exec(w)       == [status |-> TRUE, host |-> w.host, refused |-> w.refused]
WithExec(w, x) == [w EXCEPT !.status = x.status, !.host = x.host, !.refused = x.refused]

Flush(w) ==
  IF w.pending = <<>> THEN w
  ELSE [WithExec(w, FoldLeft(RunRecord, Exec(w), w.pending)) EXCEPT !.pending = <<>>]

Doorbell == [op |-> "DOORBELL"]

Record(w, r) ==
  LET room == IF Len(w.pending) = BatchLen THEN Flush(w) ELSE w
  IN  IF r = Doorbell THEN Flush(w) ELSE [room EXCEPT !.pending = Append(@, r)]

\* What a call sends reaches the window, in order, when the call needs a result, and at its end.
Window(w) == FoldLeft(Record, [w EXCEPT !.calls = <<>>], w.calls)

Cmd(w, r)        == [w EXCEPT !.calls = Append(@, r)]
CmdAndFlush(w, r) == Cmd(Cmd(w, r), Doorbell)

\* A record whose result the guest waits for.
Sync(w, r) == Window(CmdAndFlush(w, r))

Becomes(w) ==
  LET n == Window(w) IN
  /\ heap' = n.heap /\ pending' = n.pending /\ status' = n.status
  /\ host' = n.host /\ refused' = n.refused

-----------------------------------------------------------------------------
(* The objects *)

\* res_init: the next handle, one reference, and one on the device.
Make(w, h, kind, d) ==
  [w EXCEPT !.heap[h] = [Gone EXCEPT !.kind = kind, !.ref = 1, !.dev = d, !.named = TRUE],
            !.heap[d].ref = @ + 1]

Unname(w, h) == [w EXCEPT !.heap[h].named = FALSE]

HostRelease(w, h) ==
  LET o == w.heap[h] IN
  IF ~o.named \/ ~w.heap[o.dev].named THEN w
  ELSE Unname(Cmd(w, [op |-> "RELEASE", h |-> h]), h)

Lower(w, h) == [w EXCEPT !.heap[h].ref = @ - 1]
Free(w, h)  == [w EXCEPT !.heap[h] = Gone]

\* A back buffer has no reference on the device, and goes with its last one.
DropBack(w, s) ==
  IF w.heap[s].ref > 1 THEN Lower(w, s) ELSE Free(HostRelease(w, s), s)

\* The last reference of the device: its bindings, its back buffer, and the host's.
\* Every other object has a reference on it: what is bound can only be a back buffer.
UnbindTarget(w, d) ==
  LET t == w.heap[d].bound["target"] IN
  IF t = None THEN w ELSE DropBack([w EXCEPT !.heap[d].bound["target"] = None], t)

DropBackBuffer(w, d) ==
  LET s == w.heap[d].peer IN
  IF s = None THEN w ELSE DropBack([w EXCEPT !.heap[d].peer = None], s)

FreeDevice(w, d) ==
  LET u == DropBackBuffer(UnbindTarget(w, d), d)
  IN  Free(CmdAndFlush(u, [op |-> "RELEASE", h |-> d]), d)

DropDevice(w, d) == IF w.heap[d].ref > 1 THEN Lower(w, d) ELSE FreeDevice(Lower(w, d), d)

\* res_free: the memory, then the reference on the device.
FreeObject(w, h) == DropDevice(Free(w, h), w.heap[h].dev)
Destroy(w, h)    == FreeObject(HostRelease(w, h), h)

Plain == {"buffer", "shader", "pixel", "declaration", "query"}
DropPlain(w, h) == IF w.heap[h].ref > 1 THEN Lower(w, h) ELSE Destroy(w, h)

(* A mutant: a level surface is freed with its texture, its handle is forgotten *)
DropTextureAlone(w, t) ==
  LET s == w.heap[t].peer
      n == HostRelease(Lower(w, t), t)
  IN  IF w.heap[t].ref > 1 THEN Lower(w, t)
      ELSE FreeObject(IF s = None THEN n ELSE FreeObject(n, s), t)

\* A texture takes the level surface it caches along: the program released that.
DropTexture(w, t) ==
  LET s == w.heap[t].peer
      n == HostRelease(Lower(w, t), t)
  IN  IF w.heap[t].ref > 1 THEN Lower(w, t)
      ELSE FreeObject(IF s = None THEN n ELSE Destroy(n, s), t)

\* A level surface stays with its texture at reference 0.
DropSurface(w, s) ==
  LET o == w.heap[s] IN
  CASE o.kind \in {"surface", "memory"} -> DropPlain(w, s)
    [] o.kind = "backbuffer" -> DropBack(w, s)
    [] o.kind = "level" /\ o.ref > 1 -> Lower(w, s)
    [] OTHER -> DropTexture(Lower(w, s), o.peer)

DropContent(w, h) ==
  IF h = None THEN w ELSE IF w.heap[h].kind = "texture" THEN DropTexture(w, h) ELSE DropPlain(w, h)

\* What is done with the slots a state block knows, one after the other.
EachSlot(Do(_, _), w) ==
  Do(Do(Do(Do(Do(w, "stage"), "stream"), "shader"), "declaration"), "pixel")

\* And with the states, but for the vertex format.
EachState(Do(_, _), w) == Do(Do(Do(w, "state"), "view"), "constant")

DropContents(w, b) ==
  LET DropSlot(n, s) == DropContent(n, w.heap[b].bound[s]) IN EachSlot(DropSlot, w)

DropBlock(w, b) ==
  IF w.heap[b].ref > 1 THEN Lower(w, b) ELSE FreeObject(DropContents(w, b), b)

DropObject(w, h) ==
  CASE w.heap[h].kind = "device"  -> DropDevice(w, h)
    [] w.heap[h].kind = "texture" -> DropTexture(w, h)
    [] w.heap[h].kind \in Plain   -> DropPlain(w, h)
    [] w.heap[h].kind = "block"   -> DropBlock(w, h)
    [] OTHER                      -> DropSurface(w, h)

Drop(w, h) == IF h = None THEN w ELSE DropObject(w, h)

\* A level surface has a reference on its texture only while somebody has one on it.
Raise(w, h) == [w EXCEPT !.heap[h].ref = @ + 1]
Add(w, h) ==
  IF h = None THEN w
  ELSE IF w.heap[h].kind = "level" /\ w.heap[h].ref = 0 THEN Raise(Raise(w, h), w.heap[h].peer)
  ELSE Raise(w, h)

\* Add the new, then drop the old.
Bind(w, o, s, h) == [Drop(Add(w, h), w.heap[o].bound[s]) EXCEPT !.heap[o].bound[s] = h]

-----------------------------------------------------------------------------
(* The device's state *)

\* SB_MARK: a state block that is being recorded notes what is set.
Mark(w, d, part) ==
  LET b == w.heap[d].recording
  IN  IF b = None THEN w ELSE [w EXCEPT !.heap[b].marks = @ \cup {part}]

(* A mutant: the shadow keeps its viewport with a new render target, its format with a declaration *)
PutObjectOnly(w, d, slot, h) ==
  Bind(Cmd(w, [op |-> "SET_OBJECT", slot |-> slot, h |-> h]), d, slot, h)

\* A declaration takes the vertex format away, a render target resets the viewport.
Brought(value, slot, h) == IF h = None THEN value ELSE Cleared(value, Beside(slot))

PutObject(w, d, slot, h) ==
  LET n == Bind(Cmd(w, [op |-> "SET_OBJECT", slot |-> slot, h |-> h]), d, slot, h)
  IN  [n EXCEPT !.heap[d].value = Brought(@, slot, h)]

PutValue(w, d, part, v) ==
  LET n == [w EXCEPT !.heap[d].value[part] = v]
  IN  Mark(Cmd(n, [op |-> "SET_STATE", part |-> part, v |-> v]), d, part)

PutMarked(w, d, slot, h) == Mark(PutObject(w, d, slot, h), d, slot)

CopyValues(w, d, b) ==
  [w EXCEPT !.heap[b].value =
     [p \in States |-> IF p \in w.heap[b].marks THEN w.heap[d].value[p] ELSE @[p]]]

(* A mutant: the block keeps what it captures without a reference *)
CopyStateOnly(w, d, b) ==
  LET CopySlot(n, s) == IF s \in w.heap[b].marks
                        THEN [n EXCEPT !.heap[b].bound[s] = w.heap[d].bound[s]] ELSE n
  IN  CopyValues(EachSlot(CopySlot, w), d, b)

\* sb_copy: the marked parts of the device's state, with references of the block's own.
CopyState(w, d, b) ==
  LET CopySlot(n, s) == IF s \in w.heap[b].marks THEN Bind(n, b, s, w.heap[d].bound[s]) ELSE n
  IN  CopyValues(EachSlot(CopySlot, w), d, b)

(* A mutant: the states go back into the device's shadow, the host is not told *)
ApplyStateAlone(w, d, b) ==
  LET ApplySlot(n, s)  == IF s \in w.heap[b].marks THEN PutMarked(n, d, s, w.heap[b].bound[s]) ELSE n
      ApplyValue(n, p) == IF p \in w.heap[b].marks
                          THEN [n EXCEPT !.heap[d].value[p] = w.heap[b].value[p]] ELSE n
  IN  ApplyValue(EachSlot(ApplySlot, EachState(ApplyValue, w)), "format")

\* sb_apply: the marked parts once more through the device's setters, the vertex format after
\* the declaration.
ApplyState(w, d, b) ==
  LET ApplySlot(n, s)  == IF s \in w.heap[b].marks THEN PutMarked(n, d, s, w.heap[b].bound[s]) ELSE n
      ApplyValue(n, p) == IF p \in w.heap[b].marks THEN PutValue(n, d, p, w.heap[b].value[p]) ELSE n
  IN  ApplyValue(EachSlot(ApplySlot, EachState(ApplyValue, w)), "format")

\* device_unbind_all, as a Reset does it: the host forgets its bindings by itself.
UnbindAll(w, d) ==
  LET UnbindSlot(n, s) == Bind(n, d, s, None)
  IN  DropBackBuffer(UnbindSlot(EachSlot(UnbindSlot, w), "target"), d)

-----------------------------------------------------------------------------
(* What the program does *)

Holds(h)  == running /\ app[h] > 0
IsA(h, k) == Holds(h) /\ heap[h].kind = k
Device(d) == IsA(d, "device") /\ ~host.lost  \* after a Reset that failed only a Reset is allowed
Makes(k)  == k \in program.kinds
Fresh     == next =< program.handles /\ next' = next + 1
SameRun   == UNCHANGED <<program, running, runs, attach>>
Only(w)   == Becomes(w) /\ UNCHANGED <<next, app>> /\ SameRun
Given(h)  == app[h] < MaxRefs /\ app' = [app EXCEPT ![h] = @ + 1]

\* transport_init
Start ==
  /\ ~running /\ runs < MaxRuns
  /\ program' \in Programs[runs + 1]
  /\ running' = TRUE /\ runs' = runs + 1 /\ attach' = attach + 1
  /\ next' = 1 /\ pending' = <<>> /\ status' = TRUE
  /\ UNCHANGED <<app, heap, host, refused>>

SendCreate(w, op, d, how) == Sync(w, [op |-> op, h |-> d, how |-> how])

\* What may fail: the call returns an object, or takes back what it did.
Tried(done, w, failed) == [done |-> done, w |-> IF done THEN w ELSE failed]
Takes(t, h) == Becomes(t.w) /\ IF t.done THEN Given(h) ELSE UNCHANGED app

\* A program creates its next device when it has nothing left of the last one.
TryDevice(w, how) ==
  LET new == [Gone EXCEPT !.kind = "device", !.ref = 1]
      n   == SendCreate([w EXCEPT !.heap[next] = new], "CREATE_DEVICE", next, how)
  IN  Tried(how = "ok" /\ n.status, [n EXCEPT !.heap[next].named = TRUE], Free(n, next))

CreateDevice(how) ==
  LET t == TryDevice(World, how)
  IN  running /\ Fresh /\ (\A h \in Objects : app[h] = 0) /\ Takes(t, next) /\ SameRun

\* An object that the host may fail to create.
TryCreate(w, h, kind, d, ok) ==
  LET n == Sync(Make(w, h, kind, d), [op |-> "CREATE", h |-> h, ok |-> ok])
  IN  Tried(ok /\ n.status, n, FreeObject(n, h))

Create(kind, d, ok) ==
  LET t == TryCreate(World, next, kind, d, ok)
  IN  Makes(kind) /\ Device(d) /\ Fresh /\ Takes(t, next) /\ SameRun

CreateTexture(d, ok)           == Create("texture", d, ok)
CreateBuffer(d, ok)            == Create("buffer", d, ok)
CreateShader(d, ok)            == Create("shader", d, ok)
CreateVertexDeclaration(d, ok) == Create("declaration", d, ok)
CreateQuery(d, ok)             == Create("query", d, ok)
CreateRenderTarget(d, ok)      == Create("surface", d, ok)

\* A surface in system memory takes a handle it never tells the host.
CreateOffscreenPlainSurface(d) ==
  /\ Makes("memory") /\ Device(d) /\ Fresh /\ Given(next)
  /\ Becomes(Unname(Make(World, next, "memory", d), next)) /\ SameRun

GetHostSurface(w, h, of, ok) == Sync(w, [op |-> "GET_SURFACE", h |-> h, of |-> of, ok |-> ok])

\* A level surface is made once; one the host does not give stays, with its device.
TryLevel(w, t, ok) ==
  LET made == Make(w, next, "level", w.heap[t].dev)
      n == GetHostSurface(Raise([made EXCEPT !.heap[next].peer = t], t), next, t, ok)
  IN  Tried(ok /\ n.status, [n EXCEPT !.heap[t].peer = next], DropSurface(Unname(n, next), next))

NewLevel(t, ok) == heap[t].peer = None /\ Fresh /\ Takes(TryLevel(World, t, ok), next)

OldLevel(t) ==
  /\ heap[t].peer # None /\ Given(heap[t].peer)
  /\ Becomes(Add(World, heap[t].peer)) /\ UNCHANGED next

GetSurfaceLevel(t) ==
  IsA(t, "texture") /\ ~host.lost /\ (OldLevel(t) \/ \E ok \in BOOLEAN : NewLevel(t, ok)) /\ SameRun

\* The back buffer has no reference on the device, the device keeps one on it.
TryBackBuffer(w, d, ok) ==
  LET made == Lower(Make(w, next, "backbuffer", d), d)
      n == GetHostSurface(made, next, None, ok)
  IN  Tried(ok /\ n.status, [Raise(n, next) EXCEPT !.heap[d].peer = next],
            DropSurface(Unname(n, next), next))

NewBackBuffer(d, ok) ==
  heap[d].peer = None /\ Fresh /\ Takes(TryBackBuffer(World, d, ok), next)

OldBackBuffer(d) ==
  /\ heap[d].peer # None /\ Given(heap[d].peer)
  /\ Becomes(Raise(World, heap[d].peer)) /\ UNCHANGED next

GetBackBuffer(d) ==
  Device(d) /\ (OldBackBuffer(d) \/ \E ok \in BOOLEAN : NewBackBuffer(d, ok)) /\ SameRun

\* AddRef, GetDevice, GetContainer, GetTexture, GetRenderTarget: one more reference to an
\* object the program has, or to what such an object refers to.
Refers(o) ==
  {o, heap[o].dev} \cup (IF heap[o].kind = "level" THEN {heap[o].peer} ELSE {})
    \cup (IF heap[o].kind = "device" THEN Range(heap[o].bound) ELSE {})
Get(o, h) ==
  /\ Holds(o) /\ h \in Refers(o) \ {None}
  /\ Given(h) /\ Becomes(Add(World, h)) /\ UNCHANGED next /\ SameRun

\* A program gives its back buffers back before it loses the device.
InOrder(w, h) ==
  \A s \in Objects \ {h} : heap[s].kind = "backbuffer" /\ app[s] > 0 =>
    w.heap[heap[s].dev].kind = "device"

Release(h) ==
  LET w == Drop(World, h)
  IN  /\ Holds(h) /\ InOrder(w, h)
      /\ app' = [app EXCEPT ![h] = @ - 1]
      /\ Becomes(w) /\ UNCHANGED next /\ SameRun

\* A texture, buffer or shader the program has, or none.
SetObject(d, slot, kind, h) ==
  /\ Makes(kind) /\ Device(d) /\ (h # None => IsA(h, kind) /\ heap[h].dev = d)
  /\ Only(PutMarked(World, d, slot, h))

SetTexture(d, h)      == SetObject(d, "stage", "texture", h)
SetStreamSource(d, h) == SetObject(d, "stream", "buffer", h)
SetShader(d, h)       == SetObject(d, "shader", "shader", h)
SetVertexDeclaration(d, h) == SetObject(d, "declaration", "declaration", h)

\* A surface of another owner may be used after its last Release (Vice City does).
Lives(s) == Holds(s) \/ \E o \in Objects : heap[o].kind # "level" /\ heap[o].peer = s
SetRenderTarget(d, s) ==
  /\ Device(d) /\ heap[s].kind \in {"level", "backbuffer", "surface"}
  /\ heap[s].dev = d /\ heap[s].named /\ Lives(s)
  /\ Only(PutObject(World, d, "target", s))

SetState(d, part, v) ==
  <<part, v>> \in program.sets /\ Device(d) /\ Only(PutValue(World, d, part, v))

SetRenderState(d, v)          == SetState(d, "state", v)
SetVertexShaderConstant(d, v) == SetState(d, "constant", v)
SetFVF(d, v)                  == SetState(d, "format", v)
SetViewport(d, v)             == SetState(d, "view", v)

\* Records about an object that change no object.
About(h, kind, op) == IsA(h, kind) /\ ~host.lost /\ Only(Cmd(World, [op |-> op, h |-> h]))
Asks(h, kind, op)  == IsA(h, kind) /\ ~host.lost /\ Only(Sync(World, [op |-> op, h |-> h]))

Draw(d)       == About(d, "device", "DRAW")
Unlock(b)     == About(b, "buffer", "UPDATE")
UnlockRect(t) == About(t, "texture", "UPDATE")
Issue(q)      == About(q, "query", "QUERY")
ColorFill(s)  == About(s, "surface", "SURFACE")
Present(d)    == Asks(d, "device", "DRAW")
GetData(q)    == Asks(q, "query", "QUERY")
\* Into a surface in system memory.
GetRenderTargetData(s) == (\E m \in Objects : IsA(m, "memory")) /\ Asks(s, "surface", "SURFACE")

\* shadow_defaults: not the constants.
Defaults(w, d) == [w EXCEPT !.heap[d].value = Cleared(@, States \ {"constant"})]

TryReset(w, d, how) ==
  LET n == SendCreate(UnbindAll(w, d), "RESET_DEVICE", d, how)
  IN  IF how = "ok" /\ n.status THEN Defaults(n, d) ELSE n

Reset(d, how) == IsA(d, "device") /\ Only(TryReset(World, d, how))

\* A block takes a handle it never tells the host. (Bound of the model: one at a time.)
NoBlock == Makes("block") /\ \A h \in Objects : heap[h].kind # "block"
NewBlock(w, d) == Unname(Make(w, next, "block", d), next)

\* D3DSBT_ALL; D3DSBT_VERTEXSTATE, without textures, streams, pixel shader and viewport.
BlockTypes  == {"ALL", "VERTEXSTATE"}
Marks(type) == IF type = "ALL" THEN Parts ELSE Parts \ {"stage", "stream", "pixel", "view"}

CreateStateBlock(d, type) ==
  /\ NoBlock /\ Device(d) /\ heap[d].recording = None /\ Fresh /\ Given(next)
  /\ Becomes(CopyState([NewBlock(World, d) EXCEPT !.heap[next].marks = Marks(type)], d, next))
  /\ SameRun

BeginStateBlock(d) ==
  /\ NoBlock /\ Device(d) /\ heap[d].recording = None /\ Fresh
  /\ Becomes([NewBlock(World, d) EXCEPT !.heap[d].recording = next])
  /\ UNCHANGED app /\ SameRun

EndStateBlock(d) ==
  LET b == heap[d].recording
  IN  /\ Device(d) /\ b # None /\ Given(b)
      /\ Becomes(CopyState([World EXCEPT !.heap[d].recording = None], d, b))
      /\ UNCHANGED next /\ SameRun

Capture(b) ==
  LET d == heap[b].dev
  IN  IsA(b, "block") /\ ~host.lost /\ heap[d].recording = None /\ Only(CopyState(World, d, b))

Apply(b) ==
  LET d == heap[b].dev
  IN  IsA(b, "block") /\ ~host.lost /\ heap[d].recording = None /\ Only(ApplyState(World, d, b))

-----------------------------------------------------------------------------
(* Programs end, and so does the machine *)

Detached(x) == IF attach = 1 THEN HostGone ELSE x

\* The program's memory is gone, whatever the DLL did.
Vanish ==
  /\ program' = NoProgram /\ running' = FALSE /\ next' = 1
  /\ app' = [h \in Objects |-> 0] /\ heap' = [h \in Objects |-> Gone]

\* DLL_PROCESS_DETACH: transport_fini
Exit ==
  LET w == Flush(World)
  IN  /\ running /\ Vanish /\ attach' = attach - 1
      /\ host' = Detached(w.host)
      /\ pending' = w.pending /\ status' = w.status /\ refused' = w.refused
      /\ UNCHANGED runs

\* Terminated: nobody detaches, and what it had recorded stays in the window.
Kill == running /\ Vanish /\ UNCHANGED <<runs, pending, status, host, attach, refused>>

\* d3dpt_reset
Reboot ==
  /\ Vanish /\ attach' = 0 /\ pending' = <<>>
  /\ host' = IF attach = 0 THEN host ELSE HostGone
  /\ UNCHANGED <<runs, status, refused>>

DeviceCalls(d) ==
  \/ \E ok \in BOOLEAN :
       \/ CreateTexture(d, ok) \/ CreateBuffer(d, ok) \/ CreateShader(d, ok) \/ CreateQuery(d, ok)
       \/ CreateVertexDeclaration(d, ok) \/ CreateRenderTarget(d, ok)
  \/ \E how \in Outcomes : Reset(d, how)
  \/ CreateOffscreenPlainSurface(d) \/ GetBackBuffer(d) \/ Draw(d) \/ Present(d)
  \/ BeginStateBlock(d) \/ EndStateBlock(d)
  \/ \E type \in BlockTypes : CreateStateBlock(d, type)
  \/ \E h \in Handles : \/ SetTexture(d, h) \/ SetStreamSource(d, h) \/ SetShader(d, h)
                        \/ SetVertexDeclaration(d, h)
  \/ \E s \in Objects : SetRenderTarget(d, s)
  \/ \E v \in Values : \/ SetRenderState(d, v) \/ SetVertexShaderConstant(d, v)
                       \/ SetFVF(d, v) \/ SetViewport(d, v)

ObjectCalls(h) ==
  \/ Release(h) \/ GetSurfaceLevel(h) \/ Capture(h) \/ Apply(h)
  \/ Unlock(h) \/ UnlockRect(h) \/ Issue(h) \/ GetData(h) \/ ColorFill(h) \/ GetRenderTargetData(h)
  \/ \E o \in Objects : Get(o, h)

Runs  == Start \/ Exit \/ Kill \/ Reboot
Calls ==
  program.api = 9 /\ (\/ \E how \in Outcomes : CreateDevice(how)
                      \/ \E h \in Objects : DeviceCalls(h) \/ ObjectCalls(h))

Next == Runs \/ Calls

Spec == Init /\ [][Next]_vars

-----------------------------------------------------------------------------
(* Properties *)

\* The devices the program can still reach, itself or by an object of theirs.
Reachable == {d \in Objects : heap[d].kind = "device" /\ heap[d].named
                /\ \E h \in Objects : app[h] > 0 /\ d \in {h, heap[h].dev}}

\* Whatever objects a program creates, shares and releases in whatever order, in whatever
\* order the releases cascade, and whoever had the device before it: the executor knows
\* every handle it is sent and takes every handle it is given, and gives up no batch. Once
\* the records in the window are run, the host's objects are those the DLL still has a name
\* for: nothing of a device the program uses is lost or left behind on the host.
HandlesAgree ==
  LET w == Flush(World) IN
  /\ ~refused
  /\ \A d \in Reachable :
       /\ w.host.dev = d
       /\ w.host.objs = {h \in Objects : w.heap[h].named /\ d \in {h, w.heap[h].dev}}

\* What the Get methods answer from, and state blocks capture, is the state the host's
\* device is in after those records, unless that device is lost: every slot and every state,
\* through setters that set back one another's, recording, captures and blocks applied. Of the
\* vertices' layout it is the format, or, while there is none, the declaration. Excepted until
\* they are set again are the parts "apart" names.
ShadowAgrees ==
  LET w == Flush(World) IN
  \A d \in Reachable : ~w.host.lost =>
    LET here  == w.heap[d]
        apart == w.host.apart
    IN  /\ \A s \in Slots \ {"declaration"} : s \notin apart => w.host.bound[s] = here.bound[s]
        /\ \A p \in States \ {"format"} : p \notin apart => w.host.value[p] = here.value[p]
        /\ "declaration" \notin apart =>
             /\ w.host.value["format"] = here.value["format"]
             /\ here.value["format"] = 0 => w.host.bound["declaration"] = here.bound["declaration"]

\* Every object's count is the number of references there are: the program's, the slots of
\* devices and blocks, a device on its back buffer and its recording, a level surface in use on its
\* texture, and every object but the back buffer on its device. No reference is to a freed one.
Fields == Slots \cup {"recording", "peer", "dev"}
Link(o, f) ==
  CASE f = "recording" -> o.recording
    [] f = "peer" -> IF o.kind = "device" \/ (o.kind = "level" /\ o.ref > 0) THEN o.peer ELSE None
    [] f = "dev"  -> IF o.kind = "backbuffer" THEN None ELSE o.dev
    [] OTHER      -> o.bound[f]
References(h) == app[h] + Cardinality({l \in Objects \X Fields : Link(heap[l[1]], l[2]) = h})
RefsExact == \A h \in Objects : References(h) = heap[h].ref
=============================================================================
