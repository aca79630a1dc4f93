------------------------- MODULE SurfaceMirrorProofs -------------------------
(***************************************************************************)
(* Proofs about SurfaceMirror for every set of surfaces, contexts and      *)
(* pixels and every length of a batch.                                     *)
(*                                                                         *)
(* The guest's tables (surfaces, contexts and their targets) and the       *)
(* host's differ by what is still in the batch.  TablesMeet says so: there *)
(* is a trail of tables, one for each record, that leads from the host's   *)
(* to the guest's, and no record of it is one the executor would refuse.   *)
(* The guest makes the trail longer at its end, the executor shorter at    *)
(* its beginning.                                                          *)
(*                                                                         *)
(* That the copies are one memory needs what MemInv has: the order of the  *)
(* records in a batch, that no drawing is on its way to a surface which    *)
(* the program may write, and which copies agree.  Each step of either     *)
(* side is then looked at one surface at a time (Moves), and is one step   *)
(* of VideoMemory or none.                                                 *)
(***************************************************************************)
EXTENDS SurfaceMirror, SequenceTheorems, TLAPS

(* What the fields of a record are. *)
Named   == {"SURFACE", "RELEASE", "DIRTY", "READBACK", "CTX_CREATE", "CTX_SET_RT", "CLEAR",
            "DP2_MAP", "DP2_TARGET"}
OfContext == {"CTX_CREATE", "CTX_SET_RT", "CTX_DESTROY", "DP2", "CLEAR", "DP2_MAP",
              "DP2_TARGET", "DP2_DRAW"}

LEMMA Constants ==
  /\ NoSurface \notin Handles /\ NoSurface \notin Targets /\ NoSurface \notin Textures
  /\ Targets \subseteq Handles /\ Textures \subseteq Handles
  /\ MaxWrites \in Nat /\ BatchLen \in Nat /\ 0 \in Values
  /\ LooksFirst \in BOOLEAN /\ EarlyClears \in BOOLEAN
BY SurfaceAssumption, BoundAssumption DEF Handles, Values

LEMMA RecordType ==
  ASSUME NEW r \in Records
  PROVE  /\ r.op \in Named \cup OfContext
         /\ r.op \in Named => r.h \in Handles
         /\ r.op \in OfContext => r.c \in Contexts
         /\ r.op \in {"CLEAR", "DP2_DRAW"} => r.v \in Values
         /\ r.op = "DP2_DRAW" => r.S \in SUBSET Px
         /\ r.op = "READBACK" => r.look \in BOOLEAN
<1>1. CASE r \in [op : {"SURFACE", "RELEASE", "DIRTY"}, h : Handles]
  BY <1>1 DEF Named, OfContext
<1>2. CASE r \in [op : {"READBACK"}, h : Handles, look : BOOLEAN]
  BY <1>2 DEF Named, OfContext
<1>3. CASE r \in [op : {"CTX_CREATE", "CTX_SET_RT"}, c : Contexts, h : Handles]
  BY <1>3 DEF Named, OfContext
<1>4. CASE r \in [op : {"CTX_DESTROY", "DP2"}, c : Contexts]
  BY <1>4 DEF Named, OfContext
<1>5. CASE r \in [op : {"CLEAR"}, c : Contexts, h : Handles, v : Values]
  BY <1>5 DEF Named, OfContext
<1>6. CASE r \in [op : {"DP2_MAP", "DP2_TARGET"}, c : Contexts, h : Handles]
  BY <1>6 DEF Named, OfContext
<1>7. CASE r \in [op : {"DP2_DRAW"}, c : Contexts, S : SUBSET Px, v : Values]
  BY <1>7 DEF Named, OfContext
<1> QED
  BY <1>1, <1>2, <1>3, <1>4, <1>5, <1>6, <1>7 DEF Records

(* A record more, a record less. *)
LEMMA Longer ==
  ASSUME NEW R, NEW b \in Seq(R), NEW r \in R
  PROVE  /\ b \o <<r>> \in Seq(R) /\ Len(b) \in Nat /\ Len(b \o <<r>>) = Len(b) + 1
         /\ \A i \in 1..Len(b) : (b \o <<r>>)[i] = b[i]
         /\ (b \o <<r>>)[Len(b) + 1] = r
         /\ Range(b \o <<r>>) = Range(b) \cup {r}
         /\ b \o <<r>> # <<>>
<1>1. /\ b \o <<r>> \in Seq(R) /\ Len(b) \in Nat /\ Len(b \o <<r>>) = Len(b) + 1
      /\ \A i \in 1..Len(b) : (b \o <<r>>)[i] = b[i]
      /\ (b \o <<r>>)[Len(b) + 1] = r
  OBVIOUS
<1>2. DOMAIN b = 1..Len(b) /\ DOMAIN (b \o <<r>>) = 1..Len(b) + 1
  BY <1>1
<1>3. Range(b \o <<r>>) = Range(b) \cup {r}
  BY <1>1, <1>2 DEF Range
<1> QED
  BY <1>1, <1>3

LEMMA LongerByTwo ==
  ASSUME NEW R, NEW b \in Seq(R), NEW r \in R, NEW s \in R
  PROVE  b \o <<r, s>> = (b \o <<r>>) \o <<s>>
<1>1. <<r>> \in Seq(R) /\ <<s>> \in Seq(R) /\ <<r, s>> \in Seq(R)
  OBVIOUS
<1>2. <<r>> \o <<s>> \in Seq(R) /\ Len(<<r>> \o <<s>>) = 2 /\ Len(<<r, s>>) = 2
  BY <1>1, ConcatProperties
<1>3. (<<r>> \o <<s>>)[1] = r /\ (<<r>> \o <<s>>)[2] = s
  BY <1>1, ConcatProperties, Len(<<r>>) = 1, Len(<<s>>) = 1
<1>4. \A i \in 1..2 : (<<r>> \o <<s>>)[i] = <<r, s>>[i]
  BY <1>3
<1>5. <<r>> \o <<s>> = <<r, s>>
  BY <1>1, <1>2, <1>4, SeqEqual
<1>6. (b \o <<r>>) \o <<s>> = b \o (<<r>> \o <<s>>)
  BY <1>1, ConcatAssociative
<1> QED
  BY <1>5, <1>6, Zenon

LEMMA RangeByTwo ==
  ASSUME NEW R, NEW b \in Seq(R), NEW r \in R, NEW s \in R
  PROVE  Range(b \o <<r, s>>) = Range(b) \cup {r, s}
<1> DEFINE e == b \o <<r>>
<1>1. e \in Seq(R) /\ Range(e) = Range(b) \cup {r} /\ b \o <<r, s>> = e \o <<s>>
  BY Longer, LongerByTwo
<1> HIDE DEF e
<1>2. Range(e \o <<s>>) = Range(e) \cup {s}
  BY <1>1, Longer
<1>3. Range(b \o <<r, s>>) = Range(e \o <<s>>)
  BY <1>1
<1> QED
  BY <1>1, <1>2, <1>3

LEMMA Shorter ==
  ASSUME NEW R, NEW b \in Seq(R), b # <<>>
  PROVE  /\ Head(b) \in R /\ Head(b) = b[1] /\ Tail(b) \in Seq(R)
         /\ Len(b) \in Nat \ {0} /\ Len(Tail(b)) = Len(b) - 1
         /\ \A i \in 1..Len(b) - 1 : Tail(b)[i] = b[i + 1]
         /\ Range(b) = {Head(b)} \cup Range(Tail(b))
         /\ Tail(b) = <<>> <=> Len(b) = 1
<1>1. /\ Head(b) \in R /\ Head(b) = b[1] /\ Tail(b) \in Seq(R)
      /\ Len(b) \in Nat \ {0} /\ Len(Tail(b)) = Len(b) - 1
      /\ \A i \in 1..Len(b) - 1 : Tail(b)[i] = b[i + 1]
      /\ Tail(b) = <<>> <=> Len(b) = 1
  <2>1. Len(b) \in Nat \ {0}
    BY EmptySeq, LenProperties
  <2>2. /\ Head(b) \in R /\ Head(b) = b[1] /\ Tail(b) \in Seq(R)
        /\ Len(Tail(b)) = Len(b) - 1
        /\ \A i \in 1..Len(b) - 1 : Tail(b)[i] = b[i + 1]
    BY HeadTailProperties, <2>1, ElementOfSeq
  <2>3. Tail(b) = <<>> <=> Len(b) = 1
    BY <2>1, <2>2, EmptySeq
  <2> QED
    BY <2>1, <2>2, <2>3
<1>2. DOMAIN b = 1..Len(b) /\ DOMAIN Tail(b) = 1..Len(b) - 1
  BY <1>1
<1>3. Range(b) \subseteq {Head(b)} \cup Range(Tail(b))
  <2> SUFFICES ASSUME NEW i \in 1..Len(b) PROVE b[i] \in {Head(b)} \cup Range(Tail(b))
    BY <1>2 DEF Range
  <2>1. CASE i = 1
    BY <1>1, <2>1
  <2>2. CASE i # 1
    <3>1. i - 1 \in 1..Len(b) - 1 /\ (i - 1) + 1 = i
      BY <1>1, <2>2
    <3> QED
      BY <1>1, <1>2, <3>1 DEF Range
  <2> QED
    BY <2>1, <2>2
<1>4. {Head(b)} \cup Range(Tail(b)) \subseteq Range(b)
  BY <1>1, <1>2 DEF Range
<1> QED
  BY <1>1, <1>3, <1>4
---------------------------------------------------------------------------
(* Types *)

LEMMA SurfaceTypes ==
  ASSUME TypeOK, NEW h \in Handles
  PROVE  /\ vram[h] \in Pictures /\ surf[h] \in Surfs
         /\ surf[h].tex \in Pictures /\ surf[h].shadow \in Pictures
         /\ surf[h].known \in BOOLEAN /\ surf[h].dirty \in BOOLEAN /\ surf[h].rendered \in BOOLEAN
         /\ surf[h].hasShadow \in BOOLEAN /\ surf[h].checked \in BOOLEAN
         /\ {Fresh, Unknown, UploadTarget(h), UploadTexture(h), BindTarget(h), Bound(h)} \subseteq Surfs
<1>1. vram[h] \in Pictures /\ surf[h] \in Surfs
  BY DEF TypeOK
<1>2. /\ surf[h].tex \in Pictures /\ surf[h].shadow \in Pictures
      /\ surf[h].known \in BOOLEAN /\ surf[h].dirty \in BOOLEAN /\ surf[h].rendered \in BOOLEAN
      /\ surf[h].hasShadow \in BOOLEAN /\ surf[h].checked \in BOOLEAN
  BY <1>1 DEF Surfs
<1>3. Black \in Pictures
  BY Constants DEF Black, Pictures
<1>4. Fresh \in Surfs /\ Unknown \in Surfs
  BY <1>3 DEF Fresh, Unknown, Surfs
<1>5. UploadTarget(h) \in Surfs /\ UploadTexture(h) \in Surfs
  BY <1>1 DEF UploadTarget, UploadTexture, Surfs
<1>6. BindTarget(h) \in Surfs
  BY <1>1, <1>5 DEF BindTarget, Surfs
<1>7. Bound(h) \in Surfs
  BY <1>1, <1>5 DEF Bound
<1> QED
  BY <1>1, <1>2, <1>4, <1>5, <1>6, <1>7

LEMMA DrawnType ==
  ASSUME NEW s \in Surfs, NEW S, NEW v \in Values
  PROVE  Drawn(s, S, v) \in Surfs
<1>1. s.tex \in Pictures
  BY DEF Surfs
<1>2. [p \in Px |-> IF p \in S THEN v ELSE s.tex[p]] \in Pictures
  BY <1>1 DEF Pictures
<1> QED
  BY <1>2 DEF Drawn, Surfs

LEMMA BatchTypes ==
  ASSUME TypeOK, batch # <<>>
  PROVE  Head(batch) \in Records /\ Tail(batch) \in Seq(Records)
BY Shorter DEF TypeOK

LEMMA InitTypeOK == Init => TypeOK
<1> SUFFICES ASSUME Init PROVE TypeOK
  OBVIOUS
<1>1. Black \in Pictures
  BY Constants DEF Black, Pictures
<1>2. Unknown \in Surfs
  BY <1>1 DEF Fresh, Unknown, Surfs
<1>3. batch \in Seq(Records)
  BY DEF Init
<1>4. vram \in [Handles -> Pictures] /\ surf \in [Handles -> Surfs] /\ writes \in Values
  BY <1>1, <1>2, Constants DEF Init
<1> QED
  BY <1>3, <1>4 DEF Init, TypeOK

(* What the program does reaches the batch only. *)
LEMMA GuestTypes ==
  ASSUME TypeOK, UNCHANGED host, writes' \in Values, vram' \in [Handles -> Pictures],
         live' \subseteq Handles, locked' \subseteq live',
         ctx' \in [Contexts -> Handles \cup {NoSurface}], cur' \in [Contexts -> Handles \cup {NoSurface}],
         batch' \in Seq(Records), waiting' \in BOOLEAN
  PROVE  TypeOK'
BY DEF TypeOK, host

(* What the host does, but for the answer to a failed creation. *)
LEMMA HostTypes ==
  ASSUME TypeOK, UNCHANGED <<writes, live, locked, ctx, cur, waiting>>,
         vram' \in [Handles -> Pictures], batch' \in Seq(Records),
         surf' \in [Handles -> Surfs], hctx' \in [Contexts -> Handles \cup {NoSurface}],
         stage' \in Handles \cup {NoSurface}, refused' \in BOOLEAN
  PROVE  TypeOK'
BY DEF TypeOK

LEMMA BatchOfOne ==
  ASSUME TypeOK, NEW r \in Records PROVE batch \o <<r>> \in Seq(Records)
BY Longer DEF TypeOK

LEMMA BatchOfTwo ==
  ASSUME TypeOK, NEW r \in Records, NEW s \in Records PROVE batch \o <<r, s>> \in Seq(Records)
BY Longer, LongerByTwo DEF TypeOK

LEMMA StoreTypes ==
  ASSUME TypeOK, NEW h \in Handles, NEW p \in Px, Store(h, p)
  PROVE  writes' \in Values /\ vram' \in [Handles -> Pictures]
<1>1. writes' \in Values
  BY Constants DEF TypeOK, Store, Values
<1>2. [vram[h] EXCEPT ![p] = writes'] \in Pictures
  BY <1>1 DEF TypeOK, Pictures
<1> QED
  BY <1>1, <1>2 DEF TypeOK, Store

LEMMA NextWrite ==
  ASSUME TypeOK, writes < MaxWrites, writes' = writes + 1 PROVE writes' \in Values
BY Constants DEF TypeOK, Values
LEMMA DirectDrawTypes ==
  ASSUME TypeOK, NEW h \in Handles,
         \/ CreateSurface(h) \/ DestroySurface(h) \/ Lock(h) \/ Unlock(h) \/ Flip(h)
         \/ \E p \in Px : ProgramWrites(h, p)
  PROVE  TypeOK'
<1> USE DEF Guest
<1>1. CASE CreateSurface(h)
  BY <1>1, BatchOfOne, Surface(h) \in Records, GuestTypes DEF CreateSurface, Queue, TypeOK, Records, Surface
<1>2. CASE DestroySurface(h)
  BY <1>2, BatchOfOne, [op |-> "RELEASE", h |-> h] \in Records, GuestTypes
     DEF DestroySurface, Queue, TypeOK, Records
<1>3. batch \o <<Readback(h, TRUE)>> \in Seq(Records) /\ batch \o <<Dirty(h)>> \in Seq(Records)
  BY BatchOfOne, Readback(h, TRUE) \in Records, Dirty(h) \in Records DEF Records, Readback, Dirty
<1>4. CASE Lock(h)
  BY <1>3, <1>4, GuestTypes DEF Lock, BringIn, Send, TypeOK
<1>5. CASE Unlock(h)
  BY <1>3, <1>5, GuestTypes DEF Unlock, Queue, TypeOK
<1>6. CASE Flip(h)
  BY <1>3, <1>6, GuestTypes DEF Flip, BringIn, Send, TypeOK, guest
<1>7. ASSUME NEW p \in Px, ProgramWrites(h, p) PROVE TypeOK'
  <2>1. writes' \in Values /\ vram' \in [Handles -> Pictures]
    BY <1>7, StoreTypes DEF ProgramWrites
  <2> QED
    BY <1>7, <2>1, GuestTypes DEF ProgramWrites, TypeOK
<1> QED
  BY <1>1, <1>2, <1>4, <1>5, <1>6, <1>7

LEMMA Direct3DTypes ==
  ASSUME TypeOK, Direct3D \/ Flush
  PROVE  TypeOK'
<1> USE DEF Guest
<1>1. ASSUME NEW c \in Contexts, DestroyContext(c) PROVE TypeOK'
  BY <1>1, BatchOfOne, [op |-> "CTX_DESTROY", c |-> c] \in Records, GuestTypes
     DEF DestroyContext, Send, TypeOK, Records
<1>2. ASSUME NEW c \in Contexts, EndScene(c) PROVE TypeOK'
  <2>1. ctx[c] \in Handles
    BY <1>2 DEF EndScene, TypeOK
  <2> QED
    BY <1>2, <2>1, BatchOfOne, Readback(ctx[c], FALSE) \in Records, GuestTypes
       DEF EndScene, Send, TypeOK, Records, Readback, guest
<1>3. ASSUME NEW c \in Contexts, Clear2(c) PROVE TypeOK'
  <2>1. writes' \in Values /\ cur[c] \in Handles
    BY <1>3, NextWrite DEF Clear2, Ready, TypeOK
  <2>2. [op |-> "CLEAR", c |-> c, h |-> cur[c], v |-> writes'] \in Records
    BY <2>1 DEF Records
  <2> QED
    BY <1>3, <2>1, <2>2, BatchOfOne, GuestTypes DEF Clear2, Queue, TypeOK
<1>4. ASSUME NEW c \in Contexts, NEW S \in SUBSET Px, StreamDraws(c, S) PROVE TypeOK'
  <2>1. writes' \in Values
    BY <1>4, NextWrite DEF StreamDraws
  <2>2. {[op |-> "DP2", c |-> c], [op |-> "DP2_DRAW", c |-> c, S |-> S, v |-> writes']} \subseteq Records
    BY <2>1 DEF Records
  <2>3. batch \o <<[op |-> "DP2", c |-> c], [op |-> "DP2_DRAW", c |-> c, S |-> S, v |-> writes']>> \in Seq(Records)
    BY <2>2, BatchOfTwo
  <2>4. batch' = batch \o <<[op |-> "DP2", c |-> c], [op |-> "DP2_DRAW", c |-> c, S |-> S, v |-> writes']>>
    BY <1>4 DEF StreamDraws, Stream, Send
  <2> QED
    BY <1>4, <2>1, <2>3, <2>4, GuestTypes DEF StreamDraws, Stream, Send, TypeOK
<1>5. ASSUME NEW c \in Contexts, NEW h \in Handles, CreateContext(c, h) PROVE TypeOK'
  <2>1. batch \o <<Surface(h), [op |-> "CTX_CREATE", c |-> c, h |-> h]>> \in Seq(Records)
    BY BatchOfTwo, Surface(h) \in Records, [op |-> "CTX_CREATE", c |-> c, h |-> h] \in Records DEF Records, Surface
  <2> QED
    BY <1>5, <2>1, GuestTypes DEF CreateContext, Send, TypeOK
<1>6. ASSUME NEW c \in Contexts, NEW h \in Handles, SetRenderTarget(c, h) PROVE TypeOK'
  <2>1. batch \o <<Surface(h), [op |-> "CTX_SET_RT", c |-> c, h |-> h]>> \in Seq(Records)
    BY BatchOfTwo, Surface(h) \in Records, [op |-> "CTX_SET_RT", c |-> c, h |-> h] \in Records DEF Records, Surface
  <2> QED
    BY <1>6, <2>1, GuestTypes DEF SetRenderTarget, Queue, TypeOK
<1>7. ASSUME NEW c \in Contexts, NEW t \in Handles, StreamMaps(c, t) PROVE TypeOK'
  <2>1. {[op |-> "DP2", c |-> c], [op |-> "DP2_MAP", c |-> c, h |-> t]} \subseteq Records
    BY DEF Records
  <2>2. batch' \in Seq(Records)
    BY <1>7, <2>1, BatchOfTwo, LongerByTwo DEF StreamMaps, Stream, Send
  <2> QED
    BY <1>7, <2>2, GuestTypes DEF StreamMaps, Stream, Send, TypeOK
<1>8. ASSUME NEW c \in Contexts, NEW h \in Handles, StreamSetsTarget(c, h) PROVE TypeOK'
  <2>1. {[op |-> "DP2", c |-> c], [op |-> "DP2_TARGET", c |-> c, h |-> h]} \subseteq Records
    BY DEF Records
  <2>2. batch' \in Seq(Records)
    BY <1>8, <2>1, BatchOfTwo, LongerByTwo DEF StreamSetsTarget, Stream, Send
  <2> QED
    BY <1>8, <2>2, GuestTypes DEF StreamSetsTarget, Stream, Send, TypeOK
<1>9. ASSUME NEW c \in Contexts, NEW t \in Handles, NEW p \in Px, StreamBlits(c, t, p) PROVE TypeOK'
  <2>1. writes' \in Values /\ vram' \in [Handles -> Pictures]
    BY <1>9, StoreTypes DEF StreamBlits
  <2>2. batch \o <<Dirty(t), [op |-> "DP2", c |-> c]>> \in Seq(Records)
    BY BatchOfTwo, Dirty(t) \in Records, [op |-> "DP2", c |-> c] \in Records DEF Records, Dirty
  <2> QED
    BY <1>9, <2>1, <2>2, GuestTypes DEF StreamBlits, Send, TypeOK
<1>10. CASE Flush
  BY <1>10, GuestTypes DEF Flush, TypeOK, guest
<1> QED
  BY <1>1, <1>2, <1>3, <1>4, <1>5, <1>6, <1>7, <1>8, <1>9, <1>10 DEF Direct3D
LEMMA ExecutorTypes ==
  ASSUME TypeOK, Executor
  PROVE  TypeOK'
<1> DEFINE r == Head(batch)
<1>1. batch # <<>> => /\ r \in Records /\ Tail(batch) \in Seq(Records)
                      /\ r.op \in Named => r.h \in Handles
                      /\ r.op \in OfContext => r.c \in Contexts
                      /\ r.op \in {"CLEAR", "DP2_DRAW"} => r.v \in Values
  <2> SUFFICES ASSUME batch # <<>>
               PROVE  /\ r \in Records /\ Tail(batch) \in Seq(Records)
                      /\ r.op \in Named => r.h \in Handles
                      /\ r.op \in OfContext => r.c \in Contexts
                      /\ r.op \in {"CLEAR", "DP2_DRAW"} => r.v \in Values
    OBVIOUS
  <2>1. r \in Records /\ Tail(batch) \in Seq(Records)
    BY BatchTypes
  <2> QED
    BY <2>1, RecordType
<1>2. <<>> \in Seq(Records)
  OBVIOUS
<1>3. \A h \in Handles : /\ {Fresh, Unknown, BindTarget(h), Bound(h), surf[h]} \subseteq Surfs
  BY SurfaceTypes
<1> USE DEF Runs, Done, guest
<1>4. CASE RunSurface
  BY <1>1, <1>3, <1>4, HostTypes DEF RunSurface, TypeOK, Named
<1>5. CASE RunRelease
  BY <1>1, <1>3, <1>5, HostTypes DEF RunRelease, TypeOK, Named
<1>6. CASE RunDirty
  <2>1. r.h \in Handles
    BY <1>1, <1>6 DEF RunDirty, Named
  <2>2. [surf[r.h] EXCEPT !.dirty = TRUE, !.rendered = FALSE] \in Surfs
    BY <1>3, <2>1 DEF Surfs
  <2>3. surf' \in [Handles -> Surfs]
    BY <1>3, <1>6, <2>1, <2>2 DEF RunDirty, TypeOK
  <2> QED
    BY <1>1, <1>6, <2>3, HostTypes DEF RunDirty, TypeOK
<1>7. CASE RunReadback
  <2>1. r.h \in Handles
    BY <1>1, <1>7 DEF RunReadback, Named
  <2>2. vram[r.h] \in Pictures /\ surf[r.h].tex \in Pictures
    BY <2>1, SurfaceTypes
  <2> DEFINE merged == [p \in Px |-> IF p \in shadow_diff(r.h) THEN vram[r.h][p] ELSE surf[r.h].tex[p]]
  <2>8. merged \in Pictures
    BY <2>2 DEF Pictures
  <2>9. vram' = vram \/ vram' = [vram EXCEPT ![r.h] = merged]
    BY <1>7, <2>1 DEF RunReadback, TypeOK
  <2>3. vram' \in [Handles -> Pictures]
    BY <2>1, <2>8, <2>9 DEF TypeOK
  <2>4. vram'[r.h] \in Pictures
    BY <2>1, <2>3
  <2>5. \A d \in BOOLEAN : [surf[r.h] EXCEPT !.hasShadow = TRUE, !.shadow = vram'[r.h], !.rendered = FALSE,
                              !.dirty = d, !.checked = FALSE] \in Surfs
    BY <1>3, <2>1, <2>4 DEF Surfs
  <2>6. surf' \in [Handles -> Surfs]
    BY <1>7, <2>1, <2>5 DEF RunReadback, TypeOK
  <2> QED
    BY <1>1, <1>7, <2>3, <2>6, HostTypes DEF RunReadback, TypeOK
<1>8. CASE RunCtxCreate
  BY <1>1, <1>8 DEF RunCtxCreate, TypeOK, Named, OfContext
<1>9. CASE RunCtxDestroy
  BY <1>1, <1>9, HostTypes DEF RunCtxDestroy, TypeOK, Named, OfContext
<1>10. CASE RunCtxSetRt
  BY <1>1, <1>2, <1>10, HostTypes DEF RunCtxSetRt, Fail, TypeOK, Named, OfContext
<1>11. CASE RunClear
  <2>1. r.c \in Contexts /\ r.v \in Values
    BY <1>1, <1>11 DEF RunClear, OfContext
  <2>2. CASE Bindable(r.c)
    <3>1. hctx[r.c] \in Handles
      BY <2>1, <2>2 DEF Bindable, TypeOK
    <3>2. [surf[hctx[r.c]] EXCEPT !.dirty = FALSE, !.checked = TRUE, !.rendered = TRUE] \in Surfs
      BY <1>3, <3>1 DEF Surfs
    <3>3. surf' \in [Handles -> Surfs]
      BY <1>11, <2>1, <2>2, <3>1, <3>2, DrawnType DEF RunClear, TypeOK
    <3> QED
      BY <1>1, <1>11, <2>2, <3>3, HostTypes DEF RunClear, TypeOK
  <2> QED
    BY <1>2, <1>11, <2>2, HostTypes DEF RunClear, Fail, TypeOK
<1>12. CASE RunDp2
  <2>1. r.c \in Contexts
    BY <1>1, <1>12 DEF RunDp2, OfContext
  <2> QED
    BY <1>1, <1>2, <1>3, <1>12, <2>1, HostTypes DEF RunDp2, Bindable, Fail, TypeOK
<1>13. CASE RunDp2Map
  BY <1>1, <1>3, <1>13, HostTypes DEF RunDp2Map, TypeOK, Named
<1>14. CASE RunDp2Draw
  <2>1. r.c \in Contexts /\ r.v \in Values
    BY <1>1, <1>14 DEF RunDp2Draw, OfContext
  <2> DEFINE drawn == [surf EXCEPT ![hctx[r.c]] = Drawn(@, r.S, r.v)]
  <2>2. drawn \in [Handles -> Surfs]
    BY <1>3, <2>1, DrawnType DEF TypeOK
  <2>3. surf' \in [Handles -> Surfs]
    BY <1>3, <1>14, <2>2 DEF RunDp2Draw, TypeOK
  <2> QED
    BY <1>1, <1>14, <2>3, HostTypes DEF RunDp2Draw, TypeOK
<1>15. CASE RunDp2Target
  BY <1>1, <1>3, <1>15, HostTypes DEF RunDp2Target, TypeOK, Named, OfContext
<1>16. CASE Return
  BY <1>16 DEF Return, TypeOK, host
<1> QED
  BY <1>4, <1>5, <1>6, <1>7, <1>8, <1>9, <1>10, <1>11, <1>12, <1>13, <1>14, <1>15, <1>16 DEF Executor

LEMMA NextTypeOK == TypeOK /\ [Next]_vars => TypeOK'
<1> SUFFICES ASSUME TypeOK, [Next]_vars PROVE TypeOK'
  OBVIOUS
<1>1. CASE DirectDraw
  BY <1>1, DirectDrawTypes DEF DirectDraw
<1>2. CASE UNCHANGED vars
  BY <1>2 DEF vars, guest, host, TypeOK
<1> QED
  BY <1>1, <1>2, Direct3DTypes, ExecutorTypes DEF Next

(* Guest and host keep their types, and only what is alive is locked. *)
THEOREM TypeCorrect == Spec => []TypeOK
BY InitTypeOK, NextTypeOK, PTL DEF Spec
---------------------------------------------------------------------------
(* The tables: what the host will know, once the batch is through *)

Tables == [known : SUBSET Handles, rt : [Contexts -> Handles \cup {NoSurface}]]

HostTables  == [known |-> {h \in Handles : surf[h].known}, rt |-> hctx]
GuestTables == [known |-> live, rt |-> cur]

(* The tables t after the record r ... *)
After(t, r) ==
  CASE r.op = "SURFACE" -> [t EXCEPT !.known = @ \cup {r.h}]
    [] r.op = "RELEASE" -> [t EXCEPT !.known = @ \ {r.h}]
    [] r.op \in {"CTX_CREATE", "CTX_SET_RT", "DP2_TARGET"} -> [t EXCEPT !.rt[r.c] = r.h]
    [] r.op = "CTX_DESTROY" -> [t EXCEPT !.rt[r.c] = NoSurface]
    [] OTHER -> t

(* ... which the executor accepts, with the surfaces L locked. *)
Sound(t, r, L) ==
  /\ r.op \in {"CTX_CREATE", "CTX_SET_RT", "DP2_TARGET"} => r.h \in t.known
  /\ r.op = "CTX_SET_RT" => t.rt[r.c] # NoSurface
  /\ r.op \in {"CLEAR", "DP2"} => t.rt[r.c] \in t.known
  /\ r.op = "DP2" => t.rt[r.c] \notin L
  /\ r.op = "DP2_TARGET" => r.h \notin L

Leads(b, from, to, L) ==
  \E T \in [0..Len(b) -> Tables] :
    /\ T[0] = from /\ T[Len(b)] = to
    /\ \A i \in 1..Len(b) : T[i] = After(T[i - 1], b[i]) /\ Sound(T[i - 1], b[i], L)

TablesMeet == Leads(batch, HostTables, GuestTables, locked)

LEMMA AfterType ==
  ASSUME NEW t \in Tables, NEW r \in Records
  PROVE  After(t, r) \in Tables
<1>1. r.op \in Named => r.h \in Handles
  BY RecordType
<1>2. r.op \in OfContext => r.c \in Contexts
  BY RecordType
<1>3. CASE r.op = "SURFACE"
  BY <1>1, <1>3 DEF After, Tables, Named
<1>4. CASE r.op = "RELEASE"
  BY <1>1, <1>4 DEF After, Tables, Named
<1>5. CASE r.op \in {"CTX_CREATE", "CTX_SET_RT", "DP2_TARGET"}
  BY <1>1, <1>2, <1>5 DEF After, Tables, Named, OfContext
<1>6. CASE r.op = "CTX_DESTROY"
  BY <1>2, <1>6 DEF After, Tables, OfContext
<1> QED
  BY <1>3, <1>4, <1>5, <1>6 DEF After

LEMMA TablesTypes ==
  ASSUME TypeOK
  PROVE  HostTables \in Tables /\ GuestTables \in Tables
BY DEF TypeOK, HostTables, GuestTables, Tables

LEMMA LeadsNowhere ==
  ASSUME NEW f \in Tables, NEW t, NEW L
  PROVE  Leads(<<>>, f, t, L) <=> f = t
<1>1. Len(<<>>) = 0 /\ 0..0 = {0} /\ 1..0 = {}
  OBVIOUS
<1>2. ASSUME f = t PROVE Leads(<<>>, f, t, L)
  <2> DEFINE T == [i \in 0..Len(<<>>) |-> f]
  <2>1. T \in [0..Len(<<>>) -> Tables] /\ T[0] = f /\ T[Len(<<>>)] = t
    BY <1>1, <1>2
  <2>2. 1..Len(<<>>) = {}
    BY <1>1
  <2> HIDE DEF T
  <2> QED
    BY <2>1, <2>2, Zenon DEF Leads
<1>3. ASSUME Leads(<<>>, f, t, L) PROVE f = t
  BY <1>1, <1>3 DEF Leads
<1> QED
  BY <1>2, <1>3

LEMMA LeadsLonger ==
  ASSUME NEW b \in Seq(Records), NEW r \in Records, NEW f, NEW t, NEW L,
         Leads(b, f, t, L), Sound(t, r, L)
  PROVE  Leads(b \o <<r>>, f, After(t, r), L)
<1> DEFINE n == Len(b)
           e == b \o <<r>>
<1>1. PICK T \in [0..n -> Tables] :
        /\ T[0] = f /\ T[n] = t
        /\ \A i \in 1..n : T[i] = After(T[i - 1], b[i]) /\ Sound(T[i - 1], b[i], L)
  BY DEF Leads
<1>2. n \in Nat /\ Len(e) = n + 1 /\ (\A i \in 1..n : e[i] = b[i]) /\ e[n + 1] = r
  BY Longer
<1>3. t \in Tables
  BY <1>1, <1>2
<1>4. After(t, r) \in Tables
  BY <1>3, AfterType
<1> DEFINE U == [i \in 0..n + 1 |-> IF i = n + 1 THEN After(t, r) ELSE T[i]]
<1>5. U \in [0..Len(e) -> Tables] /\ U[0] = f /\ U[Len(e)] = After(t, r)
  BY <1>1, <1>2, <1>4
<1>6. ASSUME NEW i \in 1..Len(e)
      PROVE  U[i] = After(U[i - 1], e[i]) /\ Sound(U[i - 1], e[i], L)
  <2>1. CASE i = n + 1
    <3>1. U[i] = After(t, r) /\ U[i - 1] = t /\ e[i] = r
      BY <1>1, <1>2, <2>1
    <3> QED
      BY <3>1
  <2>2. CASE i # n + 1
    <3>1. i \in 1..n /\ U[i] = T[i] /\ U[i - 1] = T[i - 1] /\ e[i] = b[i]
      BY <1>1, <1>2, <2>2
    <3> QED
      BY <1>1, <3>1
  <2> QED
    BY <2>1, <2>2
<1> HIDE DEF U, e
<1> QED
  BY <1>5, <1>6 DEF Leads, e

LEMMA LeadsShorter ==
  ASSUME NEW b \in Seq(Records), b # <<>>, NEW f, NEW t, NEW L, Leads(b, f, t, L)
  PROVE  Leads(Tail(b), After(f, Head(b)), t, L) /\ Sound(f, Head(b), L)
<1> DEFINE n == Len(b)
           e == Tail(b)
<1>1. PICK T \in [0..n -> Tables] :
        /\ T[0] = f /\ T[n] = t
        /\ \A i \in 1..n : T[i] = After(T[i - 1], b[i]) /\ Sound(T[i - 1], b[i], L)
  BY DEF Leads
<1>2. /\ n \in Nat \ {0} /\ Len(e) = n - 1 /\ Head(b) = b[1]
      /\ \A i \in 1..n - 1 : e[i] = b[i + 1]
  BY Shorter
<1>3. T[1] = After(f, Head(b)) /\ Sound(f, Head(b), L)
  BY <1>1, <1>2
<1> DEFINE U == [i \in 0..n - 1 |-> T[i + 1]]
<1>4. U \in [0..Len(e) -> Tables] /\ U[0] = T[1] /\ U[Len(e)] = t
  BY <1>1, <1>2
<1>5. ASSUME NEW i \in 1..Len(e)
      PROVE  U[i] = After(U[i - 1], e[i]) /\ Sound(U[i - 1], e[i], L)
  <2>1. i + 1 \in 1..n /\ U[i] = T[i + 1] /\ U[i - 1] = T[i] /\ e[i] = b[i + 1] /\ (i + 1) - 1 = i
    BY <1>1, <1>2
  <2> QED
    BY <1>1, <2>1
<1> HIDE DEF U, e
<1>6. Leads(e, T[1], t, L)
  BY <1>4, <1>5 DEF Leads
<1> QED
  BY <1>3, <1>6 DEF e

LEMMA LeadsLocked ==
  ASSUME NEW b \in Seq(Records), NEW f, NEW t, NEW L, NEW M, Leads(b, f, t, L),
         \A i \in 1..Len(b) : b[i].op \notin {"DP2", "DP2_TARGET"}
  PROVE  Leads(b, f, t, M)
<1>1. PICK T \in [0..Len(b) -> Tables] :
        /\ T[0] = f /\ T[Len(b)] = t
        /\ \A i \in 1..Len(b) : T[i] = After(T[i - 1], b[i]) /\ Sound(T[i - 1], b[i], L)
  BY DEF Leads
<1>2. \A i \in 1..Len(b) : Sound(T[i - 1], b[i], M)
  BY <1>1 DEF Sound
<1> QED
  BY <1>1, <1>2 DEF Leads
StreamsWait == \A r \in Range(batch) : r.op \in {"DP2", "DP2_TARGET"} => waiting

CurOfCtx == \A c \in Contexts : ctx[c] # NoSurface => cur[c] # NoSurface

TablesInv == TypeOK /\ ~refused /\ TablesMeet /\ StreamsWait /\ CurOfCtx

(* The program queues a record, or two. *)
LEMMA QueuesOne ==
  ASSUME TypeOK, TablesMeet, UNCHANGED host, UNCHANGED locked, NEW r \in Records,
         batch' = batch \o <<r>>, GuestTables' = After(GuestTables, r),
         Sound(GuestTables, r, locked)
  PROVE  TablesMeet'
<1>1. HostTables' = HostTables
  BY DEF host, HostTables
<1>2. Leads(batch \o <<r>>, HostTables, After(GuestTables, r), locked)
  BY LeadsLonger DEF TypeOK, TablesMeet
<1> QED
  BY <1>1, <1>2 DEF TablesMeet

LEMMA QueuesTwo ==
  ASSUME TypeOK, TablesMeet, UNCHANGED host, UNCHANGED locked, NEW r \in Records, NEW s \in Records,
         batch' = batch \o <<r, s>>, GuestTables' = After(After(GuestTables, r), s),
         Sound(GuestTables, r, locked), Sound(After(GuestTables, r), s, locked)
  PROVE  TablesMeet'
<1>1. HostTables' = HostTables
  BY DEF host, HostTables
<1>2. Leads(batch \o <<r>>, HostTables, After(GuestTables, r), locked)
  BY LeadsLonger DEF TypeOK, TablesMeet
<1>3. batch \o <<r>> \in Seq(Records)
  BY BatchOfOne
<1>4. Leads((batch \o <<r>>) \o <<s>>, HostTables, After(After(GuestTables, r), s), locked)
  BY <1>2, <1>3, LeadsLonger
<1>5. batch \o <<r, s>> = (batch \o <<r>>) \o <<s>>
  BY LongerByTwo DEF TypeOK
<1>6. Leads(batch', HostTables', GuestTables', locked')
  BY <1>1, <1>4, <1>5
<1> QED
  BY <1>6 DEF TablesMeet

(* The executor runs one. *)
LEMMA RunsOne ==
  ASSUME TypeOK, TablesMeet, batch # <<>>, batch' = Tail(batch),
         HostTables' = After(HostTables, Head(batch)), GuestTables' = GuestTables, UNCHANGED locked
  PROVE  TablesMeet'
<1>1. Leads(Tail(batch), After(HostTables, Head(batch)), GuestTables, locked)
  BY LeadsShorter DEF TypeOK, TablesMeet
<1> QED
  BY <1>1 DEF TablesMeet

LEMMA HeadIsSound ==
  ASSUME TypeOK, TablesMeet, batch # <<>>
  PROVE  Sound(HostTables, Head(batch), locked)
BY LeadsShorter DEF TypeOK, TablesMeet

(* Nothing of the tables moves. *)
LEMMA NoTables ==
  ASSUME TypeOK, TablesMeet, StreamsWait, ~waiting \/ UNCHANGED locked,
         UNCHANGED <<batch, live, cur, host>>
  PROVE  TablesMeet'
<1>1. HostTables' = HostTables /\ GuestTables' = GuestTables
  BY DEF host, HostTables, GuestTables
<1>2. CASE UNCHANGED locked
  BY <1>1, <1>2 DEF TablesMeet
<1>3. CASE ~waiting
  <2>1. batch \in Seq(Records) /\ DOMAIN batch = 1..Len(batch)
    BY LenProperties DEF TypeOK
  <2>2. \A i \in 1..Len(batch) : batch[i].op \notin {"DP2", "DP2_TARGET"}
    BY <1>3, <2>1 DEF StreamsWait, Range
  <2>3. Leads(batch, HostTables, GuestTables, locked')
    BY <2>1, <2>2, LeadsLocked DEF TablesMeet
  <2> QED
    BY <1>1, <2>3 DEF TablesMeet
<1> QED
  BY <1>2, <1>3

LEMMA AfterKinds ==
  ASSUME NEW t \in Tables, NEW r \in Records
  PROVE  /\ r.op = "SURFACE" => After(t, r) = [known |-> t.known \cup {r.h}, rt |-> t.rt]
         /\ r.op = "RELEASE" => After(t, r) = [known |-> t.known \ {r.h}, rt |-> t.rt]
         /\ r.op \in {"CTX_CREATE", "CTX_SET_RT", "DP2_TARGET"} =>
              After(t, r) = [known |-> t.known, rt |-> [t.rt EXCEPT ![r.c] = r.h]]
         /\ r.op = "CTX_DESTROY" =>
              After(t, r) = [known |-> t.known, rt |-> [t.rt EXCEPT ![r.c] = NoSurface]]
         /\ r.op \in {"DIRTY", "READBACK", "CLEAR", "DP2", "DP2_MAP", "DP2_DRAW"} => After(t, r) = t
BY DEF After, Tables

LEMMA KnownKept ==
  ASSUME TypeOK, NEW h \in Handles
  PROVE  /\ UploadTarget(h).known = surf[h].known /\ UploadTexture(h).known = surf[h].known
         /\ BindTarget(h).known = surf[h].known /\ Bound(h).known = surf[h].known
         /\ \A s \in Surfs : \A S, v : Drawn(s, S, v).known = s.known
<1>1. surf[h] \in Surfs
  BY SurfaceTypes
<1>2. UploadTarget(h).known = surf[h].known /\ UploadTexture(h).known = surf[h].known
  BY <1>1 DEF UploadTarget, UploadTexture, Surfs
<1>3. UploadTarget(h) \in Surfs
  BY SurfaceTypes
<1>4. BindTarget(h).known = surf[h].known
  BY <1>1, <1>2, <1>3 DEF BindTarget, Surfs
<1>5. \A s \in Surfs : \A S, v : Drawn(s, S, v).known = s.known
  BY DEF Drawn, Surfs
<1> QED
  BY <1>2, <1>4, <1>5 DEF Bound
(* The tables meet again after each call of the program ... *)
LEMMA DirectDrawTables ==
  ASSUME TablesInv, NEW h \in Handles,
         \/ CreateSurface(h) \/ DestroySurface(h) \/ Lock(h) \/ Unlock(h) \/ Flip(h)
         \/ \E p \in Px : ProgramWrites(h, p)
  PROVE  TablesMeet'
<1> USE DEF TablesInv, Guest
<1>1. GuestTables \in Tables /\ HostTables \in Tables
  BY TablesTypes
<1>2. /\ GuestTables.known = live /\ GuestTables.rt = cur
  BY DEF GuestTables
<1>3. UNCHANGED <<live, cur>> => GuestTables' = GuestTables
  BY DEF GuestTables
<1>4. Readback(h, TRUE) \in Records /\ Dirty(h) \in Records /\ Surface(h) \in Records
      /\ [op |-> "RELEASE", h |-> h] \in Records
  BY DEF Records, Readback, Dirty, Surface
<1>5. CASE CreateSurface(h)
  <2>1. GuestTables' = After(GuestTables, Surface(h))
    BY <1>1, <1>2, <1>4, <1>5, AfterKinds DEF CreateSurface, GuestTables, Surface
  <2>2. Sound(GuestTables, Surface(h), locked)
    BY DEF Sound, Surface
  <2> QED
    BY <1>4, <1>5, <2>1, <2>2, QueuesOne DEF CreateSurface, Queue
<1>6. CASE DestroySurface(h)
  <2> DEFINE r == [op |-> "RELEASE", h |-> h]
  <2>1. GuestTables' = After(GuestTables, r)
    BY <1>1, <1>2, <1>4, <1>6, AfterKinds DEF DestroySurface, GuestTables
  <2>2. Sound(GuestTables, r, locked)
    BY DEF Sound
  <2>3. batch' = batch \o <<r>> /\ UNCHANGED host /\ UNCHANGED locked
    BY <1>6 DEF DestroySurface, Queue
  <2> HIDE DEF r
  <2> QED
    BY <1>4, <2>1, <2>2, <2>3, QueuesOne DEF r
<1>7. /\ After(GuestTables, Readback(h, TRUE)) = GuestTables
      /\ After(GuestTables, Dirty(h)) = GuestTables
      /\ \A L : Sound(GuestTables, Readback(h, TRUE), L) /\ Sound(GuestTables, Dirty(h), L)
  BY <1>1, <1>4, AfterKinds DEF Readback, Dirty, Sound
<1>8. ASSUME NEW r \in {Readback(h, TRUE), Dirty(h)}, batch' = batch \o <<r>>, ~waiting,
             UNCHANGED <<live, cur, host>>
      PROVE  TablesMeet'
  <2>1. /\ batch \in Seq(Records) /\ DOMAIN batch = 1..Len(batch) /\ r \in Records
    BY <1>4, LenProperties DEF TypeOK
  <2>2. \A i \in 1..Len(batch) : batch[i].op \notin {"DP2", "DP2_TARGET"}
    BY <1>8, <2>1 DEF StreamsWait, Range
  <2>3. Leads(batch, HostTables, GuestTables, locked')
    BY <2>1, <2>2, LeadsLocked DEF TablesMeet
  <2>4. After(GuestTables, r) = GuestTables /\ Sound(GuestTables, r, locked')
    BY <1>7
  <2>5. Leads(batch \o <<r>>, HostTables, GuestTables, locked')
    BY <2>1, <2>3, <2>4, LeadsLonger
  <2>6. HostTables' = HostTables /\ GuestTables' = GuestTables
    BY <1>3, <1>8 DEF host, HostTables
  <2> QED
    BY <1>8, <2>5, <2>6 DEF TablesMeet
<1>9. CASE Lock(h)
  BY <1>8, <1>9, NoTables DEF Lock, BringIn, Send
<1>10. CASE Unlock(h)
  BY <1>8, <1>10, NoTables DEF Unlock, Queue
<1>11. CASE Flip(h)
  BY <1>8, <1>11, NoTables DEF Flip, BringIn, Send, guest
<1>12. ASSUME NEW p \in Px, ProgramWrites(h, p) PROVE TablesMeet'
  BY <1>12, NoTables DEF ProgramWrites
<1> QED
  BY <1>5, <1>6, <1>9, <1>10, <1>11, <1>12
LEMMA Direct3DTables ==
  ASSUME TablesInv, Direct3D \/ Flush
  PROVE  TablesMeet'
<1> USE DEF TablesInv, Guest
<1>1. GuestTables \in Tables /\ HostTables \in Tables
  BY TablesTypes
<1>2. /\ GuestTables.known = live /\ GuestTables.rt = cur
  BY DEF GuestTables
<1>3. live \subseteq Handles /\ NoSurface \notin live
  BY Constants DEF TypeOK
<1>4. UNCHANGED <<live, cur>> => GuestTables' = GuestTables
  BY DEF GuestTables
<1>5. ASSUME NEW c \in Contexts, DestroyContext(c) PROVE TablesMeet'
  <2> DEFINE r == [op |-> "CTX_DESTROY", c |-> c]
  <2>1. r \in Records
    BY DEF Records
  <2>2. GuestTables' = After(GuestTables, r)
    BY <1>1, <1>2, <1>5, <2>1, AfterKinds DEF DestroyContext, GuestTables
  <2>3. Sound(GuestTables, r, locked)
    BY DEF Sound
  <2>4. batch' = batch \o <<r>> /\ UNCHANGED host /\ UNCHANGED locked
    BY <1>5 DEF DestroyContext, Send
  <2> HIDE DEF r
  <2> QED
    BY <2>1, <2>2, <2>3, <2>4, QueuesOne
<1>6. ASSUME NEW c \in Contexts, EndScene(c) PROVE TablesMeet'
  <2> DEFINE r == Readback(ctx[c], FALSE)
  <2>1. r \in Records
    BY <1>6 DEF Records, Readback, EndScene, TypeOK
  <2>2. GuestTables' = After(GuestTables, r)
    BY <1>1, <1>4, <1>6, <2>1, AfterKinds DEF EndScene, guest, Readback
  <2>3. Sound(GuestTables, r, locked)
    BY DEF Sound, Readback
  <2>4. batch' = batch \o <<r>> /\ UNCHANGED host /\ UNCHANGED locked
    BY <1>6 DEF EndScene, Send, guest
  <2> HIDE DEF r
  <2> QED
    BY <2>1, <2>2, <2>3, <2>4, QueuesOne
<1>7. ASSUME NEW c \in Contexts, Clear2(c) PROVE TablesMeet'
  <2> DEFINE r == [op |-> "CLEAR", c |-> c, h |-> cur[c], v |-> writes']
  <2>1. r \in Records
    BY <1>7, NextWrite DEF Records, Clear2, Ready, TypeOK
  <2>2. GuestTables' = After(GuestTables, r)
    BY <1>1, <1>4, <1>7, <2>1, AfterKinds DEF Clear2
  <2>3. Sound(GuestTables, r, locked)
    BY <1>2, <1>7 DEF Sound, Clear2, Ready
  <2>4. batch' = batch \o <<r>> /\ UNCHANGED host /\ UNCHANGED locked
    BY <1>7 DEF Clear2, Queue
  <2> HIDE DEF r
  <2> QED
    BY <2>1, <2>2, <2>3, <2>4, QueuesOne
<1>8. ASSUME NEW c \in Contexts, NEW op \in {"CTX_CREATE", "CTX_SET_RT"}, NEW h \in live,
             op = "CTX_SET_RT" => cur[c] # NoSurface,
             batch' = batch \o <<Surface(h), [op |-> op, c |-> c, h |-> h]>>,
             cur' = [cur EXCEPT ![c] = h], UNCHANGED <<live, host, locked>>
      PROVE  TablesMeet'
  <2> DEFINE s == [op |-> op, c |-> c, h |-> h]
  <2>1. Surface(h) \in Records /\ s \in Records
    BY <1>3 DEF Records, Surface
  <2>6. After(GuestTables, Surface(h)) = [known |-> live \cup {h}, rt |-> cur]
    BY <1>1, <1>2, <2>1, AfterKinds DEF Surface
  <2>7. live \cup {h} = live
    OBVIOUS
  <2>2. After(GuestTables, Surface(h)) = GuestTables
    BY <2>6, <2>7 DEF GuestTables
  <2>3. GuestTables' = After(GuestTables, s)
    BY <1>1, <1>2, <1>8, <2>1, AfterKinds DEF GuestTables
  <2>4. Sound(GuestTables, Surface(h), locked) /\ Sound(GuestTables, s, locked)
    BY <1>2, <1>8 DEF Sound, Surface
  <2>5. batch' = batch \o <<Surface(h), s>>
    BY <1>8
  <2> HIDE DEF s
  <2> QED
    BY <1>8, <2>1, <2>2, <2>3, <2>4, <2>5, QueuesTwo
<1>9. ASSUME NEW c \in Contexts, NEW h \in Handles, CreateContext(c, h) PROVE TablesMeet'
  BY <1>8, <1>9 DEF CreateContext, Send
<1>10. ASSUME NEW c \in Contexts, NEW h \in Handles, SetRenderTarget(c, h) PROVE TablesMeet'
  BY <1>8, <1>10 DEF SetRenderTarget, Queue, CurOfCtx
<1>11. ASSUME NEW c \in Contexts, Ready(c), NEW s \in Records, s.op \in {"DP2_MAP", "DP2_DRAW", "DP2_TARGET"},
              GuestTables' = After(GuestTables, s), Sound(GuestTables, s, locked),
              batch' = batch \o <<[op |-> "DP2", c |-> c], s>>, UNCHANGED <<host, locked>>
       PROVE  TablesMeet'
  <2> DEFINE r == [op |-> "DP2", c |-> c]
  <2>1. r \in Records
    BY DEF Records
  <2>2. After(GuestTables, r) = GuestTables
    BY <1>1, <2>1, AfterKinds
  <2>3. Sound(GuestTables, r, locked)
    BY <1>2, <1>11 DEF Sound, Ready
  <2>4. batch' = batch \o <<r, s>>
    BY <1>11
  <2> HIDE DEF r
  <2> QED
    BY <1>11, <2>1, <2>2, <2>3, <2>4, QueuesTwo
<1>12. ASSUME NEW c \in Contexts, NEW S \in SUBSET Px, StreamDraws(c, S) PROVE TablesMeet'
  <2> DEFINE s == [op |-> "DP2_DRAW", c |-> c, S |-> S, v |-> writes']
  <2>1. s \in Records
    BY <1>12, NextWrite DEF StreamDraws, Records
  <2>2. GuestTables' = After(GuestTables, s)
    BY <1>1, <1>4, <1>12, <2>1, AfterKinds DEF StreamDraws, Stream
  <2>3. Sound(GuestTables, s, locked)
    BY DEF Sound
  <2>4. Ready(c) /\ batch' = batch \o <<[op |-> "DP2", c |-> c], s>> /\ UNCHANGED <<host, locked>>
    BY <1>12 DEF StreamDraws, Stream, Send
  <2>5. s.op = "DP2_DRAW"
    OBVIOUS
  <2> HIDE DEF s
  <2> QED
    BY <1>11, <2>1, <2>2, <2>3, <2>4, <2>5
<1>13. ASSUME NEW c \in Contexts, NEW t \in Handles, StreamMaps(c, t) PROVE TablesMeet'
  <2> DEFINE s == [op |-> "DP2_MAP", c |-> c, h |-> t]
  <2>1. s \in Records
    BY DEF Records
  <2>2. GuestTables' = After(GuestTables, s)
    BY <1>1, <1>4, <1>13, <2>1, AfterKinds DEF StreamMaps, Stream
  <2>3. Sound(GuestTables, s, locked)
    BY DEF Sound
  <2>4. Ready(c) /\ batch' = batch \o <<[op |-> "DP2", c |-> c], s>> /\ UNCHANGED <<host, locked>>
    BY <1>13 DEF StreamMaps, Stream, Send
  <2>5. s.op = "DP2_MAP"
    OBVIOUS
  <2> HIDE DEF s
  <2> QED
    BY <1>11, <2>1, <2>2, <2>3, <2>4, <2>5
<1>14. ASSUME NEW c \in Contexts, NEW h \in Handles, StreamSetsTarget(c, h) PROVE TablesMeet'
  <2> DEFINE s == [op |-> "DP2_TARGET", c |-> c, h |-> h]
  <2>1. s \in Records
    BY DEF Records
  <2>2. GuestTables' = After(GuestTables, s)
    BY <1>1, <1>2, <1>14, <2>1, AfterKinds DEF StreamSetsTarget, Stream, GuestTables
  <2>3. Sound(GuestTables, s, locked)
    BY <1>2, <1>14 DEF Sound, StreamSetsTarget
  <2>4. Ready(c) /\ batch' = batch \o <<[op |-> "DP2", c |-> c], s>> /\ UNCHANGED <<host, locked>>
    BY <1>14 DEF StreamSetsTarget, Stream, Send
  <2>5. s.op = "DP2_TARGET"
    OBVIOUS
  <2> HIDE DEF s
  <2> QED
    BY <1>11, <2>1, <2>2, <2>3, <2>4, <2>5
<1>15. ASSUME NEW c \in Contexts, NEW t \in Handles, NEW p \in Px, StreamBlits(c, t, p) PROVE TablesMeet'
  <2> DEFINE r == Dirty(t)
             s == [op |-> "DP2", c |-> c]
  <2>1. r \in Records /\ s \in Records
    BY DEF Records, Dirty
  <2>2. After(GuestTables, r) = GuestTables /\ After(GuestTables, s) = GuestTables
    BY <1>1, <2>1, AfterKinds DEF Dirty
  <2>3. Sound(GuestTables, r, locked) /\ Sound(GuestTables, s, locked)
    BY <1>2, <1>15 DEF Sound, Dirty, StreamBlits, Ready
  <2>4. batch' = batch \o <<r, s>> /\ UNCHANGED <<host, locked>> /\ GuestTables' = GuestTables
    BY <1>4, <1>15 DEF StreamBlits, Send
  <2> HIDE DEF r, s
  <2> QED
    BY <2>1, <2>2, <2>3, <2>4, QueuesTwo
<1>16. CASE Flush
  BY <1>16, NoTables DEF Flush, guest
<1> QED
  BY <1>5, <1>6, <1>7, <1>9, <1>10, <1>12, <1>13, <1>14, <1>15, <1>16 DEF Direct3D
(* ... and after each record, and none is refused. *)
LEMMA ExecutorTables ==
  ASSUME TablesInv, Executor
  PROVE  TablesMeet' /\ ~refused' /\ UNCHANGED <<ctx, cur>>
<1> USE DEF TablesInv
<1> DEFINE r == Head(batch)
           K == {h \in Handles : surf[h].known}
<1>1. GuestTables \in Tables /\ HostTables \in Tables
  BY TablesTypes
<1>2. HostTables.known = K /\ HostTables.rt = hctx
  BY DEF HostTables
<1>3. UNCHANGED <<live, cur>> => GuestTables' = GuestTables
  BY DEF GuestTables
<1>4. batch # <<>> => /\ r \in Records /\ Sound(HostTables, r, locked)
                      /\ r.op \in Named => r.h \in Handles
                      /\ r.op \in OfContext => r.c \in Contexts
  BY BatchTypes, RecordType, HeadIsSound
<1>5. batch # <<>> =>
        /\ r.op \in {"CTX_CREATE", "CTX_SET_RT", "DP2_TARGET"} => surf[r.h].known
        /\ r.op = "CTX_SET_RT" => hctx[r.c] # NoSurface
        /\ r.op \in {"CLEAR", "DP2"} => hctx[r.c] \in Handles /\ surf[hctx[r.c]].known
  BY <1>2, <1>4 DEF Sound
<1>6. ASSUME batch # <<>>, batch' = Tail(batch), UNCHANGED <<live, cur, locked>>,
             \/ /\ r.op \in {"DIRTY", "READBACK", "CLEAR", "DP2", "DP2_MAP", "DP2_DRAW"}
                /\ hctx' = hctx /\ \A h \in Handles : surf'[h].known = surf[h].known
             \/ /\ r.op = "SURFACE" /\ hctx' = hctx
                /\ \A h \in Handles : surf'[h].known = (surf[h].known \/ h = r.h)
             \/ /\ r.op = "RELEASE" /\ hctx' = hctx
                /\ \A h \in Handles : surf'[h].known = (surf[h].known /\ h # r.h)
             \/ /\ r.op \in {"CTX_CREATE", "CTX_SET_RT", "DP2_TARGET"}
                /\ hctx' = [hctx EXCEPT ![r.c] = r.h]
                /\ \A h \in Handles : surf'[h].known = surf[h].known
             \/ /\ r.op = "CTX_DESTROY" /\ hctx' = [hctx EXCEPT ![r.c] = NoSurface]
                /\ \A h \in Handles : surf'[h].known = surf[h].known
      PROVE  TablesMeet'
  <2> DEFINE K2 == {h \in Handles : surf'[h].known}
  <2>1. HostTables' = [known |-> K2, rt |-> hctx'] /\ HostTables = [known |-> K, rt |-> hctx]
    BY DEF HostTables
  <2>2. HostTables' = After(HostTables, r)
    <3>1. CASE r.op = "SURFACE"
      <4>1. K2 = K \cup {r.h}
        BY <1>4, <1>6, <3>1 DEF Named
      <4>2. hctx' = hctx /\ r \in Records
        BY <1>4, <1>6, <3>1
      <4> HIDE DEF K2, K
      <4>3. After(HostTables, r) = [known |-> K \cup {r.h}, rt |-> hctx]
        BY <1>1, <1>2, <3>1, <4>2, AfterKinds
      <4> QED
        BY <2>1, <4>1, <4>2, <4>3
    <3>2. CASE r.op = "RELEASE"
      <4>1. K2 = K \ {r.h}
        BY <1>6, <3>2
      <4>2. hctx' = hctx /\ r \in Records
        BY <1>4, <1>6, <3>2
      <4> HIDE DEF K2, K
      <4>3. After(HostTables, r) = [known |-> K \ {r.h}, rt |-> hctx]
        BY <1>1, <1>2, <3>2, <4>2, AfterKinds
      <4> QED
        BY <2>1, <4>1, <4>2, <4>3
    <3>3. CASE r.op \notin {"SURFACE", "RELEASE"}
      <4>1. K2 = K
        BY <1>6, <3>3
      <4> HIDE DEF K2, K
      <4> QED
        BY <1>1, <1>2, <1>4, <1>6, <2>1, <3>3, <4>1, AfterKinds
    <3> QED
      BY <3>1, <3>2, <3>3
  <2> QED
    BY <1>3, <1>6, <2>2, RunsOne
<1>7. \A h \in Handles :
        /\ UploadTarget(h).known = surf[h].known /\ UploadTexture(h).known = surf[h].known
        /\ BindTarget(h).known = surf[h].known /\ Bound(h).known = surf[h].known
        /\ surf[h] \in Surfs
  BY KnownKept, SurfaceTypes
<1>8. \A s \in Surfs : \A S, v : Drawn(s, S, v).known = s.known
  BY KnownKept, Constants DEF Drawn, Surfs
<1>9. surf \in [Handles -> Surfs]
  BY DEF TypeOK
<1>10. Fresh.known = TRUE /\ Unknown.known = FALSE
  BY DEF Fresh, Unknown
<1> HIDE DEF K
<1> USE DEF Runs, Done, guest
<1>11. CASE RunSurface
  <2>1. \A h \in Handles : surf'[h].known = (surf[h].known \/ h = r.h)
    BY <1>4, <1>9, <1>10, <1>11 DEF RunSurface, Named, Surfs
  <2> QED
    BY <1>6, <1>11, <2>1 DEF RunSurface
<1>12. CASE RunRelease
  <2>1. \A h \in Handles : surf'[h].known = (surf[h].known /\ h # r.h)
    BY <1>4, <1>9, <1>10, <1>12 DEF RunRelease, Named, Surfs
  <2> QED
    BY <1>6, <1>12, <2>1 DEF RunRelease
<1>13. CASE RunDirty
  <2>1. \A h \in Handles : surf'[h].known = surf[h].known
    BY <1>4, <1>9, <1>13 DEF RunDirty, Named, Surfs
  <2> QED
    BY <1>6, <1>13, <2>1 DEF RunDirty
<1>14. CASE RunReadback
  <2> DEFINE s(d) == [surf[r.h] EXCEPT !.hasShadow = TRUE, !.shadow = vram'[r.h], !.rendered = FALSE,
                                       !.dirty = d, !.checked = FALSE]
  <2>2. r.h \in Handles
    BY <1>4, <1>14 DEF RunReadback, Named
  <2>3. \A d \in BOOLEAN : s(d).known = surf[r.h].known
    BY <1>7, <2>2 DEF Surfs
  <2>4. surf' = surf \/ \E d \in BOOLEAN : surf' = [surf EXCEPT ![r.h] = s(d)]
    BY <1>9, <1>14, <2>2 DEF RunReadback
  <2> HIDE DEF s
  <2>1. \A h \in Handles : surf'[h].known = surf[h].known
    BY <1>9, <2>2, <2>3, <2>4
  <2> QED
    BY <1>6, <1>14, <2>1 DEF RunReadback
<1>15. CASE RunCtxCreate
  BY <1>5, <1>6, <1>15 DEF RunCtxCreate
<1>16. CASE RunCtxDestroy
  BY <1>6, <1>16 DEF RunCtxDestroy
<1>17. CASE RunCtxSetRt
  BY <1>5, <1>6, <1>17 DEF RunCtxSetRt
<1>18. CASE RunClear
  <2>1. Bindable(r.c)
    BY <1>5, <1>18, Constants DEF RunClear, Bindable
  <2>2. hctx[r.c] \in Handles
    BY <1>5, <1>18 DEF RunClear
  <2> DEFINE s == [surf[hctx[r.c]] EXCEPT !.dirty = FALSE, !.checked = TRUE, !.rendered = TRUE]
  <2>3. surf' = [surf EXCEPT ![hctx[r.c]] = Drawn(s, Px, r.v)]
    BY <1>18, <2>1, <2>2, <1>9 DEF RunClear
  <2>4. s \in Surfs /\ s.known = surf[hctx[r.c]].known
    BY <1>7, <2>2 DEF Surfs
  <2> HIDE DEF s
  <2>5. \A h \in Handles : surf'[h].known = surf[h].known
    BY <1>8, <1>9, <2>2, <2>3, <2>4
  <2> QED
    BY <1>6, <1>18, <2>1, <2>5 DEF RunClear
<1>19. CASE RunDp2
  <2>1. Bindable(r.c)
    BY <1>5, <1>19, Constants DEF RunDp2, Bindable
  <2>2. \A h \in Handles : surf'[h].known = surf[h].known
    BY <1>7, <1>9, <1>19, <2>1 DEF RunDp2, Bindable
  <2> QED
    BY <1>6, <1>19, <2>1, <2>2 DEF RunDp2
<1>20. CASE RunDp2Map
  <2>1. \A h \in Handles : surf'[h].known = surf[h].known
    BY <1>7, <1>9, <1>20 DEF RunDp2Map
  <2> QED
    BY <1>6, <1>20, <2>1 DEF RunDp2Map
<1>21. CASE RunDp2Draw
  <2> DEFINE drawn == [surf EXCEPT ![hctx[r.c]] = Drawn(@, r.S, r.v)]
  <2>1. \A h \in Handles : drawn[h].known = surf[h].known
    BY <1>7, <1>8, <1>9
  <2>2. surf' = drawn \/ surf' = [drawn EXCEPT ![stage] = Bound(stage)]
    BY <1>21 DEF RunDp2Draw
  <2>3. DOMAIN drawn = Handles
    BY <1>9
  <2> HIDE DEF drawn
  <2>4. \A h \in Handles : surf'[h].known = surf[h].known
    BY <1>7, <2>1, <2>2, <2>3
  <2> QED
    BY <1>6, <1>21, <2>4 DEF RunDp2Draw
<1>22. CASE RunDp2Target
  <2>1. surf[r.h].known
    BY <1>5, <1>22 DEF RunDp2Target
  <2>2. \A h \in Handles : surf'[h].known = surf[h].known
    BY <1>7, <1>9, <1>22, <2>1 DEF RunDp2Target
  <2> QED
    BY <1>6, <1>22, <2>1, <2>2 DEF RunDp2Target
<1>23. CASE Return
  BY <1>23, NoTables DEF Return, host
<1> QED
  BY <1>11, <1>12, <1>13, <1>14, <1>15, <1>16, <1>17, <1>18, <1>19, <1>20, <1>21, <1>22, <1>23 DEF Executor
LEMMA StreamsWaitNext == TablesInv /\ [Next]_vars => StreamsWait'
<1> SUFFICES ASSUME TablesInv, [Next]_vars PROVE StreamsWait'
  OBVIOUS
<1> USE DEF TablesInv, Guest
<1>1. ASSUME NEW r \in Records, batch' = batch \o <<r>>, UNCHANGED waiting \/ waiting' = TRUE,
             r.op \notin {"DP2", "DP2_TARGET"} \/ waiting' = TRUE
      PROVE  StreamsWait'
  <2>1. Range(batch') = Range(batch) \cup {r}
    BY <1>1, Longer DEF TypeOK
  <2> QED
    BY <1>1, <2>1 DEF StreamsWait
<1>2. ASSUME waiting' = TRUE PROVE StreamsWait'
  BY <1>2 DEF StreamsWait
<1>3. ASSUME UNCHANGED <<batch, waiting>> PROVE StreamsWait'
  BY <1>3 DEF StreamsWait
<1>4. ASSUME batch # <<>>, batch' = Tail(batch) \/ batch' = <<>>, UNCHANGED waiting
      PROVE  StreamsWait'
  <2>1. Range(<<>>) = {}
    BY DEF Range
  <2>2. Range(batch') \subseteq Range(batch)
    BY <1>4, <2>1, Shorter DEF TypeOK
  <2> QED
    BY <1>4, <2>2 DEF StreamsWait
<1>5. ASSUME NEW h \in Handles,
             \/ CreateSurface(h) \/ DestroySurface(h) \/ Lock(h) \/ Unlock(h) \/ Flip(h)
             \/ \E p \in Px : ProgramWrites(h, p)
      PROVE  StreamsWait'
  <2>1. {Surface(h), Dirty(h), [op |-> "RELEASE", h |-> h]} \subseteq Records
    BY DEF Records, Surface, Dirty
  <2>2. CASE CreateSurface(h)
    BY <1>1, <2>1, <2>2 DEF CreateSurface, Queue, Surface
  <2>3. CASE DestroySurface(h)
    BY <1>1, <2>1, <2>3 DEF DestroySurface, Queue
  <2>4. CASE Lock(h)
    BY <1>2, <1>3, <2>4 DEF Lock, BringIn, Send
  <2>5. CASE Unlock(h)
    BY <1>1, <1>3, <2>1, <2>5 DEF Unlock, Queue, Dirty
  <2>6. CASE Flip(h)
    BY <1>2, <1>3, <2>6 DEF Flip, BringIn, Send
  <2>7. ASSUME NEW p \in Px, ProgramWrites(h, p) PROVE StreamsWait'
    BY <1>3, <2>7 DEF ProgramWrites
  <2> QED
    BY <1>5, <2>2, <2>3, <2>4, <2>5, <2>6, <2>7
<1>6. ASSUME NEW c \in Contexts, NEW h \in Handles, SetRenderTarget(c, h) PROVE StreamsWait'
  <2> DEFINE q == Surface(h)
             s == [op |-> "CTX_SET_RT", c |-> c, h |-> h]
  <2>1. q \in Records /\ s \in Records /\ q.op = "SURFACE" /\ s.op = "CTX_SET_RT"
    BY DEF Records, Surface
  <2>2. batch' = batch \o <<q, s>> /\ UNCHANGED waiting
    BY <1>6 DEF SetRenderTarget, Queue
  <2> HIDE DEF q, s
  <2>3. Range(batch') = Range(batch) \cup {q, s}
    BY <2>1, <2>2, RangeByTwo DEF TypeOK
  <2> QED
    BY <2>1, <2>2, <2>3 DEF StreamsWait
<1>7. ASSUME NEW c \in Contexts, Clear2(c) PROVE StreamsWait'
  <2>1. [op |-> "CLEAR", c |-> c, h |-> cur[c], v |-> writes'] \in Records
    BY <1>7, NextWrite DEF Records, Clear2, Ready, TypeOK
  <2> QED
    BY <1>1, <1>7, <2>1 DEF Clear2, Queue
<1>8. CASE Direct3D
  BY <1>2, <1>6, <1>7, <1>8
     DEF Direct3D, DestroyContext, EndScene, StreamDraws, CreateContext, StreamMaps, StreamSetsTarget, StreamBlits,
         Stream, Send
<1>9. CASE Flush
  BY <1>2, <1>9 DEF Flush
<1>10. CASE Executor /\ ~Return
  BY <1>4, <1>10
     DEF Executor, Runs, Done, Fail, RunSurface, RunRelease, RunDirty, RunReadback, RunCtxCreate, RunCtxDestroy,
         RunCtxSetRt, RunClear, RunDp2, RunDp2Map, RunDp2Draw, RunDp2Target
<1>11. CASE Return
  BY <1>11 DEF Return, StreamsWait, Range
<1>12. CASE UNCHANGED vars
  BY <1>3, <1>12 DEF vars
<1> QED
  BY <1>5, <1>8, <1>9, <1>10, <1>11, <1>12 DEF Next, DirectDraw

LEMMA CurOfCtxNext == TablesInv /\ [Next]_vars => CurOfCtx' /\ ~refused'
<1> SUFFICES ASSUME TablesInv, [Next]_vars PROVE CurOfCtx' /\ ~refused'
  OBVIOUS
<1> USE DEF TablesInv, Guest
<1>1. CASE UNCHANGED <<ctx, cur, host>>
  BY <1>1 DEF CurOfCtx, host
<1>2. CASE DirectDraw
  BY <1>1, <1>2 DEF DirectDraw, CreateSurface, DestroySurface, Lock, Unlock, Flip, ProgramWrites, guest
<1>3. CASE Flush \/ UNCHANGED vars
  BY <1>1, <1>3 DEF Flush, vars, guest
<1>4. CASE Executor
  BY <1>4, ExecutorTables DEF CurOfCtx
<1>5. ASSUME NEW c \in Contexts, NEW h \in live \cup {NoSurface}, UNCHANGED host,
             cur' = [cur EXCEPT ![c] = h], ctx' = [ctx EXCEPT ![c] = h] \/ (UNCHANGED ctx /\ h # NoSurface)
      PROVE  CurOfCtx' /\ ~refused'
  BY <1>5 DEF CurOfCtx, TypeOK, host
<1>6. CASE Direct3D
  <2>1. NoSurface \notin live
    BY Constants DEF TypeOK
  <2> QED
    BY <1>1, <1>5, <1>6, <2>1
       DEF Direct3D, DestroyContext, EndScene, Clear2, StreamDraws, CreateContext, SetRenderTarget, StreamMaps,
           StreamSetsTarget, StreamBlits, Stream, Send, guest
<1> QED
  BY <1>2, <1>3, <1>4, <1>6 DEF Next

LEMMA TablesInductive == TablesInv /\ [Next]_vars => TablesInv'
<1> SUFFICES ASSUME TablesInv, [Next]_vars PROVE TablesMeet'
  BY NextTypeOK, StreamsWaitNext, CurOfCtxNext DEF TablesInv
<1>1. CASE DirectDraw
  BY <1>1, DirectDrawTables DEF DirectDraw
<1>2. CASE Direct3D \/ Flush
  BY <1>2, Direct3DTables
<1>3. CASE Executor
  BY <1>3, ExecutorTables
<1>4. CASE UNCHANGED vars
  BY <1>4, NoTables DEF TablesInv, vars, guest
<1> QED
  BY <1>1, <1>2, <1>3, <1>4 DEF Next

LEMMA InitTables == Init => TablesInv
<1> SUFFICES ASSUME Init PROVE TablesInv
  OBVIOUS
<1>1. TypeOK
  BY InitTypeOK
<1>2. HostTables = GuestTables
  <2>1. {h \in Handles : surf[h].known} = {}
    BY DEF Init, Unknown, Fresh
  <2> QED
    BY <2>1 DEF Init, HostTables, GuestTables
<1>3. TablesMeet
  BY <1>1, <1>2, TablesTypes, LeadsNowhere DEF Init, TablesMeet
<1>4. StreamsWait
  BY DEF Init, StreamsWait, Range
<1> QED
  BY <1>1, <1>3, <1>4 DEF TablesInv, Init, CurOfCtx

(* d3dptdisp.c and d3dpt_exec_ddi.cpp: through losses, restores, new       *)
(* devices and streams that change the target, no batch is given up, and   *)
(* at rest driver and executor agree on every surface and every context's  *)
(* target; for any number of surfaces and contexts.                        *)
THEOREM TablesStayInStep == Spec => []TablesAgree
<1>1. TablesInv => TablesAgree
  <2> SUFFICES ASSUME TablesInv, ~waiting, batch = <<>>
               PROVE  (\A h \in Handles : surf[h].known = (h \in live)) /\ hctx = cur
    BY DEF TablesInv, TablesAgree
  <2>1. HostTables = GuestTables
    BY TablesTypes, LeadsNowhere DEF TablesInv, TablesMeet
  <2>2. {h \in Handles : surf[h].known} = live /\ hctx = cur
    BY <2>1 DEF HostTables, GuestTables
  <2> QED
    BY <2>2, SurfaceTypes DEF TablesInv
<1> QED
  BY <1>1, InitTables, TablesInductive, PTL DEF Spec
---------------------------------------------------------------------------
(* One memory: what the copies and the batch are like *)

Has(op, h) == \E r \in Range(batch) : r.op = op /\ r.h = h

Tokens  == {"DP2_MAP", "DP2_DRAW", "DP2_TARGET"}
Closing == {"READBACK", "CTX_CREATE", "CTX_DESTROY", "DP2"} \cup Tokens

(* The guest waits for a READBACK, a context or a stream, which so come    *)
(* last; a clear comes first; a draw finds its target bound.               *)
InPlace(b, i, n, w) ==
  /\ b[i].op \in Closing => w
  /\ b[i].op \in Closing \ {"DP2"} => i = n
  /\ b[i].op = "DP2" => i = n \/ (i = n - 1 /\ b[n].op \in Tokens)
  /\ b[i].op = "CLEAR" => i = 1
  /\ b[i].op = "DP2_DRAW" /\ i # 1 => b[i - 1].op = "DP2" /\ b[i - 1].c = b[i].c

Order ==
  /\ \A i \in 1..Len(batch) : InPlace(batch, i, Len(batch), waiting)
  /\ batch # <<>> /\ batch[1].op = "DP2_DRAW" =>
       hctx[batch[1].c] # NoSurface /\ surf[hctx[batch[1].c]].rendered

(* Contexts draw on targets, stages sample textures. *)
Aims ==
  /\ \A c \in Contexts : {ctx[c], cur[c], hctx[c]} \subseteq Targets \cup {NoSurface}
  /\ stage # NoSurface => stage \in Textures /\ surf[stage].known
  /\ \A r \in Range(batch) :
       /\ r.op \in {"CTX_CREATE", "CTX_SET_RT", "DP2_TARGET", "CLEAR"} => r.h \in Targets
       /\ r.op = "DP2_MAP" => r.h \in Textures

(* No picture is from the future. *)
Upto(pic, n) == \A p \in Px : pic[p] <= n
Dated ==
  /\ \A h \in Handles : Upto(vram[h], writes) /\ Upto(surf[h].tex, writes) /\ Upto(surf[h].shadow, writes)
  /\ \A r \in Range(batch) : r.op \in {"CLEAR", "DP2_DRAW"} => r.v <= writes

(* A frame is under way on a surface that was looked at; and a target's    *)
(* shadow is the picture that host and guest agreed on.                    *)
Copies ==
  \A h \in Handles :
    /\ surf[h].rendered = surf[h].checked
    /\ surf[h].rendered => surf[h].known /\ ~surf[h].dirty /\ surf[h].hasShadow /\ h \in Targets
    /\ h \in Targets /\ surf[h].known /\ ~surf[h].dirty /\ ~surf[h].rendered =>
         surf[h].hasShadow /\ surf[h].shadow = surf[h].tex

(* No frame is under way on h, or about to begin. *)
Quiet(h) == ~surf[h].rendered /\ ~Has("CLEAR", h)

QuietWhen ==
  /\ \A h \in Handles : Has("DIRTY", h) => Quiet(h)
  /\ \A h \in locked : Quiet(h) \/ Has("READBACK", h)
  /\ ~ctx_live => (\A h \in Handles : Quiet(h)) /\ \A r \in Range(batch) : r.op \notin {"DP2", "DP2_TARGET"}

(* A clear that waits is of a target the guest did not touch. *)
ClearIsTold ==
  \A r \in Range(batch) : r.op = "CLEAR" =>
    /\ hctx[r.c] = r.h /\ surf[r.h].known /\ surf[r.h].hasShadow
    /\ r.h \in Textures => surf[r.h].shadow = vram[r.h]

(* What a draw samples is neither locked nor drawn on. *)
StageStands ==
  \A r \in Range(batch) : r.op = "DP2_DRAW" =>
    stage = NoSurface \/ Has("RELEASE", stage) \/ (stage \notin locked /\ stage # cur[r.c])

(* The host's copy of a texture that is not marked is the guest's, or has  *)
(* been drawn on since they agreed.                                        *)
TexturesTrue ==
  \A t \in Textures \ locked :
    surf[t].known /\ ~surf[t].dirty /\ ~Has("DIRTY", t) /\ ~Has("RELEASE", t) =>
      IF surf[t].rendered THEN surf[t].shadow = vram[t] ELSE surf[t].tex = vram[t]

MemInv ==
  /\ TablesInv /\ Order /\ Aims /\ Dated /\ Copies /\ QuietWhen /\ ClearIsTold /\ StageStands /\ TexturesTrue
---------------------------------------------------------------------------
(* The batch *)

LEMMA BatchDomain ==
  ASSUME TypeOK
  PROVE  /\ batch \in Seq(Records) /\ Len(batch) \in Nat /\ DOMAIN batch = 1..Len(batch)
         /\ \A i \in 1..Len(batch) : batch[i] \in Range(batch) /\ batch[i] \in Records
         /\ \A r \in Range(batch) : r \in Records /\ \E i \in 1..Len(batch) : r = batch[i]
         /\ batch # <<>> <=> Len(batch) > 0
<1>1. batch \in Seq(Records) /\ Len(batch) \in Nat /\ DOMAIN batch = 1..Len(batch)
  BY LenProperties DEF TypeOK
<1>2. batch # <<>> <=> Len(batch) > 0
  BY <1>1, EmptySeq
<1>3. \A i \in 1..Len(batch) : batch[i] \in Range(batch) /\ batch[i] \in Records
  BY <1>1, ElementOfSeq DEF Range
<1>4. \A r \in Range(batch) : r \in Records /\ \E i \in 1..Len(batch) : r = batch[i]
  BY <1>1, <1>3 DEF Range
<1> QED
  BY <1>1, <1>2, <1>3, <1>4

(* While the guest works, nothing closes the batch. *)
LEMMA OpenBatch ==
  ASSUME TypeOK, Order, ~waiting
  PROVE  /\ \A r \in Range(batch) : r.op \notin Closing
         /\ \A h : ~Has("READBACK", h)
<1>1. \A r \in Range(batch) : r.op \notin Closing
  BY BatchDomain DEF Order, InPlace
<1> QED
  BY <1>1 DEF Has, Closing

(* The record the executor runs, and those behind it. *)
LEMMA HeadFacts ==
  ASSUME TypeOK, Order, batch # <<>>
  PROVE  /\ Head(batch) \in Range(batch) /\ Head(batch) \in Records
         /\ Range(batch) = {Head(batch)} \cup Range(Tail(batch))
         /\ \A s \in Range(Tail(batch)) : s.op # "CLEAR"
         /\ Head(batch).op \in Closing \ {"DP2"} => Tail(batch) = <<>> /\ Range(Tail(batch)) = {}
         /\ Head(batch).op = "DP2" => \A s \in Range(Tail(batch)) : s.op \in Tokens
         /\ Head(batch).op = "DP2_DRAW" =>
              hctx[Head(batch).c] # NoSurface /\ surf[hctx[Head(batch).c]].rendered
<1> DEFINE n == Len(batch)
<1>1. /\ Head(batch) = batch[1] /\ n \in Nat \ {0} /\ Head(batch) \in Records
      /\ Tail(batch) \in Seq(Records) /\ Len(Tail(batch)) = n - 1
      /\ \A i \in 1..n - 1 : Tail(batch)[i] = batch[i + 1]
      /\ Range(batch) = {Head(batch)} \cup Range(Tail(batch))
      /\ Tail(batch) = <<>> <=> n = 1
  BY Shorter, BatchDomain
<1>2. \A s \in Range(Tail(batch)) : \E i \in 1..n - 1 : s = batch[i + 1]
  BY <1>1, LenProperties DEF Range
<1>8. \A i \in 1..n : InPlace(batch, i, n, waiting)
  BY DEF Order
<1>9. InPlace(batch, 1, n, waiting)
  BY <1>1, <1>8
<1> HIDE DEF n
<1>3. \A s \in Range(Tail(batch)) : s.op # "CLEAR"
  <2> SUFFICES ASSUME NEW i \in 1..n - 1 PROVE batch[i + 1].op # "CLEAR"
    BY <1>2
  <2>1. InPlace(batch, i + 1, n, waiting) /\ i + 1 # 1
    BY <1>1, <1>8
  <2> QED
    BY <2>1, Zenon DEF InPlace
<1>4. Head(batch).op \in Closing \ {"DP2"} => n = 1
  BY <1>1, <1>9 DEF InPlace
<1>5. n = 1 => Range(Tail(batch)) = {}
  BY <1>2
<1>6. Head(batch).op = "DP2" => \A s \in Range(Tail(batch)) : s.op \in Tokens
  <2> SUFFICES ASSUME batch[1].op = "DP2", NEW i \in 1..n - 1 PROVE batch[i + 1].op \in Tokens
    BY <1>1, <1>2
  <2>2. 1 = n \/ (1 = n - 1 /\ batch[n].op \in Tokens)
    BY <1>9, Zenon DEF InPlace
  <2>1. n = i + 1 /\ batch[n].op \in Tokens
    BY <1>1, <2>2
  <2> QED
    BY <2>1
<1>7. Head(batch).op = "DP2_DRAW" =>
              hctx[Head(batch).c] # NoSurface /\ surf[hctx[Head(batch).c]].rendered
  BY <1>1, Zenon DEF Order
<1> QED
  BY <1>1, <1>3, <1>4, <1>5, <1>6, <1>7

LEMMA OrderOne ==
  ASSUME TypeOK, Order, ~waiting, NEW r \in Records, batch' = batch \o <<r>>,
         r.op \in Closing => waiting', r.op # "DP2_DRAW", r.op = "CLEAR" => batch = <<>>
  PROVE  Order'
<1> DEFINE n == Len(batch)
<1>1. /\ n \in Nat /\ Len(batch') = n + 1 /\ batch'[n + 1] = r /\ \A i \in 1..n : batch'[i] = batch[i]
  BY Longer, BatchDomain
<1>2. \A i \in 1..n : InPlace(batch, i, n, waiting)
  BY DEF Order
<1>3. r.op = "CLEAR" => n + 1 = 1
  BY BatchDomain, <1>1
<1>4. "DP2" \in Closing /\ "DP2_DRAW" \in Closing /\ "CLEAR" \notin Closing
  BY DEF Closing, Tokens
<1> HIDE DEF n
<1>5. ASSUME NEW i \in 1..n + 1
      PROVE  /\ batch'[i].op \in Closing => waiting' /\ i = n + 1
             /\ batch'[i].op = "CLEAR" => i = 1
             /\ batch'[i].op # "DP2_DRAW"
  <2>1. CASE i = n + 1
    <3>1. batch'[i] = r
      BY <1>1, <2>1
    <3> QED
      BY <1>3, <2>1, <3>1
  <2>2. CASE i # n + 1
    <3>1. i \in 1..n
      BY <1>1, <2>2
    <3>2. InPlace(batch, i, n, waiting) /\ batch'[i] = batch[i]
      BY <1>1, <1>2, <3>1
    <3> QED
      BY <1>4, <3>2, Zenon DEF InPlace
  <2> QED
    BY <2>1, <2>2
<1>6. \A i \in 1..n + 1 : InPlace(batch', i, n + 1, waiting')
  BY <1>4, <1>5, Zenon DEF InPlace
<1>7. 1 \in 1..n + 1 /\ Len(batch') = n + 1
  BY <1>1
<1> QED
  BY <1>5, <1>6, <1>7, Zenon DEF Order

LEMMA OrderTwo ==
  ASSUME TypeOK, Order, ~waiting, NEW r \in Records, NEW s \in Records, batch' = batch \o <<r, s>>,
         s.op \in Closing => waiting', s.op # "CLEAR",
         \/ r.op \in {"SURFACE", "DIRTY"} /\ s.op # "DP2_DRAW"
         \/ r.op = "DP2" /\ s.op \in Tokens /\ r.c = s.c
  PROVE  Order'
<1> DEFINE n == Len(batch)
           e == batch \o <<r>>
<1>1. /\ e \in Seq(Records) /\ n \in Nat /\ Len(e) = n + 1 /\ e[n + 1] = r
      /\ \A i \in 1..n : e[i] = batch[i]
  BY Longer, BatchDomain
<1>2. batch' = e \o <<s>>
  BY LongerByTwo, BatchDomain
<1> HIDE DEF e
<1>3. /\ Len(batch') = n + 2 /\ batch'[n + 2] = s /\ \A i \in 1..n + 1 : batch'[i] = e[i]
  BY <1>1, <1>2, Longer
<1>4. \A i \in 1..n : InPlace(batch, i, n, waiting)
  BY DEF Order
<1>5. /\ "DP2" \in Closing /\ "DP2_DRAW" \in Closing /\ \A x \in Tokens : x \in Closing
      /\ "CLEAR" \notin Closing /\ "SURFACE" \notin Closing /\ "DIRTY" \notin Closing
      /\ "DP2" \notin Tokens
  BY DEF Closing, Tokens
<1> HIDE DEF n
<1>8. batch'[n + 1] = r
  <2>1. n + 1 \in 1..n + 1
    BY <1>1
  <2> QED
    BY <1>1, <1>3, <2>1, Zenon
<1>6. ASSUME NEW i \in 1..n + 2 PROVE InPlace(batch', i, n + 2, waiting') /\ (i = 1 => batch'[i].op # "DP2_DRAW")
  <2>1. CASE i = n + 2
    <3>1. batch'[i] = s /\ batch'[i - 1] = r
      BY <1>1, <1>3, <1>8, <2>1
    <3>3. i # 1
      BY <1>1, <2>1
    <3>2. s.op = "DP2_DRAW" => r.op = "DP2" /\ r.c = s.c
      OBVIOUS
    <3> QED
      BY <2>1, <3>1, <3>2, <3>3, Zenon DEF InPlace
  <2>2. CASE i = n + 1
    <3>1. batch'[i] = r
      BY <1>8, <2>2, Zenon
    <3>4. i = (n + 2) - 1 /\ (i = 1 => n = 0)
      BY <1>1, <2>2
    <3>2. r.op = "SURFACE" \/ r.op = "DIRTY" \/ (r.op = "DP2" /\ s.op \in Tokens /\ waiting')
      BY <1>5
    <3>3. r.op # "DP2_DRAW" /\ r.op # "CLEAR" /\ (r.op \in Closing => r.op = "DP2" /\ waiting' /\ batch'[n + 2].op \in Tokens)
      BY <1>3, <1>5, <3>2
    <3> QED
      BY <1>5, <3>1, <3>3, <3>4, Zenon DEF InPlace
  <2>3. CASE i # n + 2 /\ i # n + 1
    <3>1. i \in 1..n
      BY <1>1, <2>3
    <3>2. batch'[i] = batch[i] /\ InPlace(batch, i, n, waiting)
      BY <1>1, <1>3, <1>4, <3>1
    <3> QED
      BY <1>5, <3>2, Zenon DEF InPlace
  <2> QED
    BY <2>1, <2>2, <2>3
<1>7. 1 \in 1..n + 2
  BY <1>1
<1> QED
  BY <1>3, <1>6, <1>7, Zenon DEF Order

LEMMA OrderRuns ==
  ASSUME TypeOK, Order, batch # <<>>, batch' = Tail(batch), UNCHANGED waiting,
         Head(batch).op = "DP2" => hctx'[Head(batch).c] # NoSurface /\ surf'[hctx'[Head(batch).c]].rendered
  PROVE  Order'
<1> DEFINE n == Len(batch)
<1>1. /\ Head(batch) = batch[1] /\ n \in Nat \ {0} /\ Len(batch') = n - 1
      /\ \A i \in 1..n - 1 : batch'[i] = batch[i + 1]
      /\ batch' = <<>> <=> n = 1
  BY Shorter, BatchDomain
<1>4. \A i \in 1..n : InPlace(batch, i, n, waiting)
  BY DEF Order
<1> HIDE DEF n
<1>2. ASSUME NEW i \in 1..n - 1
      PROVE  InPlace(batch', i, n - 1, waiting')
  <2>1. i + 1 \in 1..n /\ i + 1 # 1 /\ (i + 1) - 1 = i /\ batch'[i] = batch[i + 1]
    BY <1>1
  <2>2. InPlace(batch, i + 1, n, waiting)
    BY <1>4, <2>1
  <2>3. i # 1 => batch'[i - 1] = batch[i]
    BY <1>1
  <2>4. batch'[n - 1] = batch[n]
    BY <1>1
  <2>5. /\ batch[i + 1].op \in Closing => waiting
        /\ batch[i + 1].op \in Closing \ {"DP2"} => i + 1 = n
        /\ batch[i + 1].op = "DP2" => i + 1 = n \/ (i + 1 = n - 1 /\ batch[n].op \in Tokens)
        /\ batch[i + 1].op # "CLEAR"
        /\ batch[i + 1].op = "DP2_DRAW" => batch[i].op = "DP2" /\ batch[i].c = batch[i + 1].c
    BY <2>1, <2>2, Zenon DEF InPlace
  <2>6. (i + 1 = n => i = n - 1) /\ (i + 1 = n - 1 => i = (n - 1) - 1)
    BY <1>1
  <2> QED
    BY <2>1, <2>3, <2>4, <2>5, <2>6, Zenon DEF InPlace
<1>3. ASSUME batch' # <<>>, batch'[1].op = "DP2_DRAW"
      PROVE  hctx'[batch'[1].c] # NoSurface /\ surf'[hctx'[batch'[1].c]].rendered
  <2>1. 2 \in 1..n /\ 2 # 1 /\ 2 - 1 = 1 /\ batch'[1] = batch[2]
    BY <1>1, <1>3
  <2>2. InPlace(batch, 2, n, waiting)
    BY <1>4, <2>1
  <2>3. batch[1].op = "DP2" /\ batch[1].c = batch[2].c
    BY <1>3, <2>1, <2>2, Zenon DEF InPlace
  <2> QED
    BY <1>1, <2>1, <2>3
<1> QED
  BY <1>1, <1>2, <1>3 DEF Order
LEMMA OrderNone ==
  ASSUME TypeOK, Order, ~waiting, batch' = batch
  PROVE  Order'
<1>1. \A r \in Range(batch) : r.op \notin Closing
  BY OpenBatch
<1>2. \A i \in 1..Len(batch) : batch[i].op \notin Closing
  BY <1>1, BatchDomain
<1>3. "DP2_DRAW" \in Closing
  BY DEF Closing, Tokens
<1>4. ASSUME NEW i \in 1..Len(batch) PROVE InPlace(batch, i, Len(batch), waiting')
  <2>1. InPlace(batch, i, Len(batch), waiting)
    BY DEF Order
  <2> QED
    BY <1>2, <2>1, Zenon DEF InPlace
<1>5. batch # <<>> => batch[1].op # "DP2_DRAW"
  <2>1. batch # <<>> => 1 \in 1..Len(batch)
    BY BatchDomain
  <2> QED
    BY <1>2, <1>3, <2>1
<1> QED
  BY <1>4, <1>5, Zenon DEF Order

(* What the driver puts into a batch. *)
LEMMA RecordsOf ==
  /\ \A h \in Handles : Surface(h) \in Records /\ Dirty(h) \in Records
                        /\ [op |-> "RELEASE", h |-> h] \in Records
                        /\ Readback(h, TRUE) \in Records /\ Readback(h, FALSE) \in Records
  /\ \A c \in Contexts : [op |-> "CTX_DESTROY", c |-> c] \in Records /\ [op |-> "DP2", c |-> c] \in Records
  /\ \A c \in Contexts, h \in Handles :
        /\ [op |-> "CTX_CREATE", c |-> c, h |-> h] \in Records
        /\ [op |-> "CTX_SET_RT", c |-> c, h |-> h] \in Records
        /\ [op |-> "DP2_MAP", c |-> c, h |-> h] \in Records
        /\ [op |-> "DP2_TARGET", c |-> c, h |-> h] \in Records
        /\ \A v \in Values : [op |-> "CLEAR", c |-> c, h |-> h, v |-> v] \in Records
  /\ \A c \in Contexts, S \in SUBSET Px, v \in Values : [op |-> "DP2_DRAW", c |-> c, S |-> S, v |-> v] \in Records
<1>1. ASSUME NEW h \in Handles
      PROVE  /\ Surface(h) \in Records /\ Dirty(h) \in Records /\ [op |-> "RELEASE", h |-> h] \in Records
             /\ Readback(h, TRUE) \in Records /\ Readback(h, FALSE) \in Records
  BY DEF Surface, Dirty, Readback, Records
<1>2. ASSUME NEW c \in Contexts
      PROVE  [op |-> "CTX_DESTROY", c |-> c] \in Records /\ [op |-> "DP2", c |-> c] \in Records
  BY DEF Records
<1>3. ASSUME NEW c \in Contexts, NEW h \in Handles
      PROVE  /\ [op |-> "CTX_CREATE", c |-> c, h |-> h] \in Records
             /\ [op |-> "CTX_SET_RT", c |-> c, h |-> h] \in Records
             /\ [op |-> "DP2_MAP", c |-> c, h |-> h] \in Records
             /\ [op |-> "DP2_TARGET", c |-> c, h |-> h] \in Records
             /\ \A v \in Values : [op |-> "CLEAR", c |-> c, h |-> h, v |-> v] \in Records
  BY DEF Records
<1>4. ASSUME NEW c \in Contexts, NEW S \in SUBSET Px, NEW v \in Values
      PROVE  [op |-> "DP2_DRAW", c |-> c, S |-> S, v |-> v] \in Records
  BY DEF Records
<1> QED
  BY <1>1, <1>2, <1>3, <1>4, Zenon

LEMMA AddsOne ==
  ASSUME TypeOK, NEW r \in Records, batch' = batch \o <<r>>
  PROVE  Range(batch') = Range(batch) \cup {r}
BY BatchDomain, Longer

LEMMA AddsTwo ==
  ASSUME TypeOK, NEW r \in Records, NEW s \in Records, batch' = batch \o <<r, s>>
  PROVE  Range(batch') = Range(batch) \cup {r, s}
BY BatchDomain, RangeByTwo

LEMMA DirectDrawBatch ==
  ASSUME TypeOK, Order, NEW h \in Handles
  PROVE  /\ CreateSurface(h) => Order' /\ Range(batch') = Range(batch) \cup {Surface(h)}
         /\ DestroySurface(h) => Order' /\ Range(batch') = Range(batch) \cup {[op |-> "RELEASE", h |-> h]}
         /\ Lock(h) \/ Flip(h) => /\ Order'
                                  /\ IF ctx_live /\ h \in Targets
                                       THEN Range(batch') = Range(batch) \cup {Readback(h, TRUE)}
                                       ELSE batch' = batch
         /\ Unlock(h) => /\ Order'
                         /\ IF h \in Textures \/ (ctx_live /\ h \in Targets)
                              THEN Range(batch') = Range(batch) \cup {Dirty(h)}
                              ELSE batch' = batch
<1>1. ASSUME CreateSurface(h) PROVE Order' /\ Range(batch') = Range(batch) \cup {Surface(h)}
  <2> DEFINE r == Surface(h)
  <2>1. r \in Records /\ r.op = "SURFACE"
    BY RecordsOf DEF Surface
  <2>2. ~waiting /\ batch' = batch \o <<r>>
    BY <1>1 DEF CreateSurface, Guest, Queue
  <2>3. "SURFACE" \notin Closing
    BY DEF Closing, Tokens
  <2> HIDE DEF r
  <2>4. Order' /\ Range(batch') = Range(batch) \cup {r}
    BY <2>1, <2>2, <2>3, AddsOne, OrderOne
  <2> QED
    BY <2>4 DEF r
<1>2. ASSUME DestroySurface(h) PROVE Order' /\ Range(batch') = Range(batch) \cup {[op |-> "RELEASE", h |-> h]}
  <2> DEFINE r == [op |-> "RELEASE", h |-> h]
  <2>1. r \in Records /\ r.op = "RELEASE"
    BY RecordsOf
  <2>2. ~waiting /\ batch' = batch \o <<r>>
    BY <1>2 DEF DestroySurface, Guest, Queue
  <2>3. "RELEASE" \notin Closing
    BY DEF Closing, Tokens
  <2> HIDE DEF r
  <2>4. Order' /\ Range(batch') = Range(batch) \cup {r}
    BY <2>1, <2>2, <2>3, AddsOne, OrderOne
  <2> QED
    BY <2>4 DEF r
<1>3. ASSUME Lock(h) \/ Flip(h)
      PROVE  /\ Order'
             /\ IF ctx_live /\ h \in Targets
                  THEN Range(batch') = Range(batch) \cup {Readback(h, TRUE)}
                  ELSE batch' = batch
  <2>0. ~waiting /\ BringIn(h)
    BY <1>3 DEF Lock, Flip, Guest
  <2>1. CASE ~(ctx_live /\ h \in Targets)
    <3>1. batch' = batch
      BY <2>0, <2>1, Zenon DEF BringIn
    <3> QED
      BY <2>0, <2>1, <3>1, OrderNone
  <2>2. CASE ctx_live /\ h \in Targets
    <3> DEFINE r == Readback(h, TRUE)
    <3>1. r \in Records /\ r.op = "READBACK"
      BY RecordsOf DEF Readback
    <3>2. ~waiting /\ batch' = batch \o <<r>> /\ waiting' = TRUE
      BY <2>0, <2>2 DEF BringIn, Send
    <3> HIDE DEF r
    <3>4. Order' /\ Range(batch') = Range(batch) \cup {r}
      BY <3>1, <3>2, AddsOne, OrderOne
    <3> QED
      BY <2>2, <3>4 DEF r
  <2> QED
    BY <2>1, <2>2
<1>4. ASSUME Unlock(h)
      PROVE  /\ Order'
             /\ IF h \in Textures \/ (ctx_live /\ h \in Targets)
                  THEN Range(batch') = Range(batch) \cup {Dirty(h)}
                  ELSE batch' = batch
  <2>0. ~waiting
    BY <1>4 DEF Unlock, Guest
  <2>1. CASE ~(h \in Textures \/ (ctx_live /\ h \in Targets))
    <3>1. batch' = batch
      BY <1>4, <2>1, Zenon DEF Unlock
    <3> QED
      BY <2>0, <2>1, <3>1, OrderNone
  <2>2. CASE h \in Textures \/ (ctx_live /\ h \in Targets)
    <3> DEFINE r == Dirty(h)
    <3>1. r \in Records /\ r.op = "DIRTY"
      BY RecordsOf DEF Dirty
    <3>2. batch' = batch \o <<r>>
      BY <1>4, <2>2, Zenon DEF Unlock, Queue
    <3>3. "DIRTY" \notin Closing
      BY DEF Closing, Tokens
    <3> HIDE DEF r
    <3>4. Order' /\ Range(batch') = Range(batch) \cup {r}
      BY <2>0, <3>1, <3>2, <3>3, AddsOne, OrderOne
    <3> QED
      BY <2>2, <3>4 DEF r
  <2> QED
    BY <2>1, <2>2
<1> QED
  BY <1>1, <1>2, <1>3, <1>4, Zenon
(* The target of a context in use. *)
LEMMA Using ==
  ASSUME TypeOK, NEW c \in Contexts
  PROVE  /\ ctx[c] # NoSurface => ctx[c] \in Handles
         /\ Ready(c) => cur[c] \in Handles /\ cur[c] # NoSurface /\ cur[c] \in live /\ cur[c] \notin locked
         /\ ctx[c] # NoSurface => ctx_live
BY Constants DEF TypeOK, Ready, ctx_live

(* The two departures: a clear over writes that nobody was told of, and a  *)
(* device that goes before its frame was read back.                        *)
Departs ==
  \E c \in Contexts :
    \/ Clear2(c) /\ ~(batch = <<>> /\ Told(cur[c]))
    \/ DestroyContext(c) /\ ~(batch = <<>> /\ \A h \in Handles : ~surf[h].rendered)

LEMMA KeepsTo ==
  ASSUME ~Departs, NEW c \in Contexts
  PROVE  /\ Clear2(c) => batch = <<>> /\ Told(cur[c])
         /\ DestroyContext(c) => batch = <<>> /\ \A h \in Handles : ~surf[h].rendered
BY DEF Departs

LEMMA Direct3DBatch ==
  ASSUME TypeOK, Order, ~Departs, NEW c \in Contexts
  PROVE  /\ DestroyContext(c) => Order' /\ Range(batch') = Range(batch) \cup {[op |-> "CTX_DESTROY", c |-> c]}
         /\ EndScene(c) => Order' /\ Range(batch') = Range(batch) \cup {Readback(ctx[c], FALSE)}
         /\ Clear2(c) => /\ Order' /\ batch = <<>> /\ writes' \in Values
                         /\ Range(batch') = Range(batch) \cup {[op |-> "CLEAR", c |-> c, h |-> cur[c], v |-> writes']}
         /\ \A S \in SUBSET Px : StreamDraws(c, S) =>
               /\ Order' /\ writes' \in Values
               /\ Range(batch') = Range(batch) \cup
                    {[op |-> "DP2", c |-> c], [op |-> "DP2_DRAW", c |-> c, S |-> S, v |-> writes']}
         /\ \A h \in Handles :
              /\ CreateContext(c, h) => Order' /\ Range(batch') = Range(batch) \cup
                   {Surface(h), [op |-> "CTX_CREATE", c |-> c, h |-> h]}
              /\ SetRenderTarget(c, h) => Order' /\ Range(batch') = Range(batch) \cup
                   {Surface(h), [op |-> "CTX_SET_RT", c |-> c, h |-> h]}
              /\ StreamMaps(c, h) => Order' /\ Range(batch') = Range(batch) \cup
                   {[op |-> "DP2", c |-> c], [op |-> "DP2_MAP", c |-> c, h |-> h]}
              /\ StreamSetsTarget(c, h) => Order' /\ Range(batch') = Range(batch) \cup
                   {[op |-> "DP2", c |-> c], [op |-> "DP2_TARGET", c |-> c, h |-> h]}
              /\ \A p \in Px : StreamBlits(c, h, p) => Order' /\ Range(batch') = Range(batch) \cup
                   {Dirty(h), [op |-> "DP2", c |-> c]}
<1>1. ASSUME DestroyContext(c) PROVE Order' /\ Range(batch') = Range(batch) \cup {[op |-> "CTX_DESTROY", c |-> c]}
  <2> DEFINE r == [op |-> "CTX_DESTROY", c |-> c]
  <2>1. r \in Records /\ r.op = "CTX_DESTROY"
    BY <1>1, RecordsOf DEF Readback
  <2>2. ~waiting /\ batch' = batch \o <<r>> /\ waiting' = TRUE
    BY <1>1 DEF DestroyContext, Guest, Send, Queue
  <2> HIDE DEF r
  <2>4. Order' /\ Range(batch') = Range(batch) \cup {r}
    BY <2>1, <2>2, AddsOne, OrderOne
  <2> QED
    BY <2>4 DEF r
<1>2. ASSUME EndScene(c) PROVE Order' /\ Range(batch') = Range(batch) \cup {Readback(ctx[c], FALSE)}
  <2> DEFINE r == Readback(ctx[c], FALSE)
  <2>1. r \in Records /\ r.op = "READBACK"
    BY <1>2, RecordsOf, Using DEF Readback, EndScene
  <2>2. ~waiting /\ batch' = batch \o <<r>> /\ waiting' = TRUE
    BY <1>2 DEF EndScene, Guest, Send, Queue
  <2> HIDE DEF r
  <2>4. Order' /\ Range(batch') = Range(batch) \cup {r}
    BY <2>1, <2>2, AddsOne, OrderOne
  <2> QED
    BY <2>4 DEF r
<1>3. ASSUME Clear2(c) PROVE Order' /\ batch = <<>> /\ writes' \in Values /\ Range(batch') = Range(batch) \cup {[op |-> "CLEAR", c |-> c, h |-> cur[c], v |-> writes']}
  <2> DEFINE r == [op |-> "CLEAR", c |-> c, h |-> cur[c], v |-> writes']
  <2>0. batch = <<>> /\ writes' \in Values
    BY <1>3, NextWrite, KeepsTo DEF Clear2
  <2>1. r \in Records /\ r.op = "CLEAR"
    BY <1>3, RecordsOf, Using, <2>0 DEF Readback, Clear2
  <2>2. ~waiting /\ batch' = batch \o <<r>>
    BY <1>3 DEF Clear2, Guest, Send, Queue
  <2>3. "CLEAR" \notin Closing
    BY DEF Closing, Tokens
  <2> HIDE DEF r
  <2>4. Order' /\ Range(batch') = Range(batch) \cup {r}
    BY <2>1, <2>2, <2>3, AddsOne, OrderOne, <2>0
  <2> QED
    BY <2>4, <2>0 DEF r
<1>4. ASSUME NEW S \in SUBSET Px, StreamDraws(c, S) PROVE Order' /\ writes' \in Values /\ Range(batch') = Range(batch) \cup {[op |-> "DP2", c |-> c], [op |-> "DP2_DRAW", c |-> c, S |-> S, v |-> writes']}
  <2> DEFINE r == [op |-> "DP2", c |-> c]
             s == [op |-> "DP2_DRAW", c |-> c, S |-> S, v |-> writes']
  <2>0. writes' \in Values
    BY <1>4, NextWrite DEF StreamDraws
  <2>1. r \in Records /\ s \in Records /\ r.op = "DP2" /\ s.op = "DP2_DRAW" /\ r.c = s.c
    BY RecordsOf, <2>0 DEF Surface, Dirty
  <2>2. ~waiting /\ batch' = batch \o <<r, s>> /\ waiting' = TRUE
    BY <1>4 DEF StreamDraws, Stream, Guest, Send
  <2>3. "DP2_DRAW" \in Tokens
    BY DEF Tokens
  <2> HIDE DEF r, s
  <2>4. Order' /\ Range(batch') = Range(batch) \cup {r, s}
    BY <2>1, <2>2, <2>3, AddsTwo, OrderTwo
  <2> QED
    BY <2>4, <2>0 DEF r, s
<1>5. ASSUME NEW h \in Handles, CreateContext(c, h) PROVE Order' /\ Range(batch') = Range(batch) \cup {Surface(h), [op |-> "CTX_CREATE", c |-> c, h |-> h]}
  <2> DEFINE r == Surface(h)
             s == [op |-> "CTX_CREATE", c |-> c, h |-> h]
  <2>1. r \in Records /\ s \in Records /\ r.op = "SURFACE" /\ s.op = "CTX_CREATE"
    BY RecordsOf DEF Surface, Dirty
  <2>2. ~waiting /\ batch' = batch \o <<r, s>> /\ waiting' = TRUE
    BY <1>5 DEF CreateContext, Guest, Send
  <2> HIDE DEF r, s
  <2>4. Order' /\ Range(batch') = Range(batch) \cup {r, s}
    BY <2>1, <2>2, AddsTwo, OrderTwo
  <2> QED
    BY <2>4 DEF r, s
<1>6. ASSUME NEW h \in Handles, SetRenderTarget(c, h) PROVE Order' /\ Range(batch') = Range(batch) \cup {Surface(h), [op |-> "CTX_SET_RT", c |-> c, h |-> h]}
  <2> DEFINE r == Surface(h)
             s == [op |-> "CTX_SET_RT", c |-> c, h |-> h]
  <2>1. r \in Records /\ s \in Records /\ r.op = "SURFACE" /\ s.op = "CTX_SET_RT"
    BY RecordsOf DEF Surface, Dirty
  <2>2. ~waiting /\ batch' = batch \o <<r, s>>
    BY <1>6 DEF SetRenderTarget, Guest, Queue
  <2>3. "CTX_SET_RT" \notin Closing
    BY DEF Closing, Tokens
  <2> HIDE DEF r, s
  <2>4. Order' /\ Range(batch') = Range(batch) \cup {r, s}
    BY <2>1, <2>2, <2>3, AddsTwo, OrderTwo
  <2> QED
    BY <2>4 DEF r, s
<1>7. ASSUME NEW h \in Handles, StreamMaps(c, h) PROVE Order' /\ Range(batch') = Range(batch) \cup {[op |-> "DP2", c |-> c], [op |-> "DP2_MAP", c |-> c, h |-> h]}
  <2> DEFINE r == [op |-> "DP2", c |-> c]
             s == [op |-> "DP2_MAP", c |-> c, h |-> h]
  <2>1. r \in Records /\ s \in Records /\ r.op = "DP2" /\ s.op = "DP2_MAP" /\ r.c = s.c
    BY RecordsOf DEF Surface, Dirty
  <2>2. ~waiting /\ batch' = batch \o <<r, s>> /\ waiting' = TRUE
    BY <1>7 DEF StreamMaps, Stream, Guest, Send
  <2>3. "DP2_MAP" \in Tokens
    BY DEF Tokens
  <2> HIDE DEF r, s
  <2>4. Order' /\ Range(batch') = Range(batch) \cup {r, s}
    BY <2>1, <2>2, <2>3, AddsTwo, OrderTwo
  <2> QED
    BY <2>4 DEF r, s
<1>8. ASSUME NEW h \in Handles, StreamSetsTarget(c, h) PROVE Order' /\ Range(batch') = Range(batch) \cup {[op |-> "DP2", c |-> c], [op |-> "DP2_TARGET", c |-> c, h |-> h]}
  <2> DEFINE r == [op |-> "DP2", c |-> c]
             s == [op |-> "DP2_TARGET", c |-> c, h |-> h]
  <2>1. r \in Records /\ s \in Records /\ r.op = "DP2" /\ s.op = "DP2_TARGET" /\ r.c = s.c
    BY RecordsOf DEF Surface, Dirty
  <2>2. ~waiting /\ batch' = batch \o <<r, s>> /\ waiting' = TRUE
    BY <1>8 DEF StreamSetsTarget, Stream, Guest, Send
  <2>3. "DP2_TARGET" \in Tokens
    BY DEF Tokens
  <2> HIDE DEF r, s
  <2>4. Order' /\ Range(batch') = Range(batch) \cup {r, s}
    BY <2>1, <2>2, <2>3, AddsTwo, OrderTwo
  <2> QED
    BY <2>4 DEF r, s
<1>9. ASSUME NEW h \in Handles, NEW p \in Px, StreamBlits(c, h, p) PROVE Order' /\ Range(batch') = Range(batch) \cup {Dirty(h), [op |-> "DP2", c |-> c]}
  <2> DEFINE r == Dirty(h)
             s == [op |-> "DP2", c |-> c]
  <2>1. r \in Records /\ s \in Records /\ r.op = "DIRTY" /\ s.op = "DP2"
    BY RecordsOf DEF Surface, Dirty
  <2>2. ~waiting /\ batch' = batch \o <<r, s>> /\ waiting' = TRUE
    BY <1>9 DEF StreamBlits, Guest, Send
  <2> HIDE DEF r, s
  <2>4. Order' /\ Range(batch') = Range(batch) \cup {r, s}
    BY <2>1, <2>2, AddsTwo, OrderTwo
  <2> QED
    BY <2>4 DEF r, s
<1> QED
  BY <1>1, <1>2, <1>3, <1>4, <1>5, <1>6, <1>7, <1>8, <1>9, Zenon---------------------------------------------------------------------------
(* What the executor's steps do to one surface. *)

LEMMA AtRest ==
  ASSUME TablesInv, batch = <<>>
  PROVE  hctx = cur /\ \A h \in Handles : surf[h].known = (h \in live)
<1>1. HostTables = GuestTables
  BY TablesTypes, LeadsNowhere DEF TablesInv, TablesMeet
<1>2. {h \in Handles : surf[h].known} = live /\ hctx = cur
  BY <1>1 DEF HostTables, GuestTables
<1> QED
  BY <1>2, SurfaceTypes DEF TablesInv

LEMMA AtTheLast ==
  ASSUME TablesInv, batch # <<>>, Tail(batch) = <<>>
  PROVE  GuestTables = After(HostTables, Head(batch))
<1>1. Head(batch) \in Records /\ After(HostTables, Head(batch)) \in Tables
  BY BatchTypes, TablesTypes, AfterType DEF TablesInv
<1>2. Leads(<<>>, After(HostTables, Head(batch)), GuestTables, locked)
  BY LeadsShorter, TablesTypes DEF TablesInv, TablesMeet, TypeOK
<1> QED
  BY <1>1, <1>2, LeadsNowhere

(* The executor can do what the batch asks of it. *)
LEMMA HeadTables ==
  ASSUME TablesInv, batch # <<>>, NEW r, r = Head(batch)
  PROVE  /\ r \in Records
         /\ r.op \in {"CTX_CREATE", "CTX_SET_RT", "DP2_TARGET"} => r.h \in Handles /\ surf[r.h].known
         /\ r.op = "CTX_SET_RT" => hctx[r.c] # NoSurface
         /\ r.op \in {"CLEAR", "DP2"} => hctx[r.c] \in Handles /\ hctx[r.c] # NoSurface /\ surf[hctx[r.c]].known
         /\ r.op = "DP2" => hctx[r.c] \notin locked
         /\ r.op = "DP2_TARGET" => r.h \notin locked
<1>1. r \in Records /\ Sound(HostTables, r, locked)
  BY BatchTypes, HeadIsSound DEF TablesInv
<1>2. HostTables.known = {h \in Handles : surf[h].known} /\ HostTables.rt = hctx
  BY DEF HostTables
<1>3. NoSurface \notin Handles
  BY Constants
<1> QED
  BY <1>1, <1>2, <1>3, Zenon DEF Sound

Of(op)     == batch # <<>> /\ Head(batch).op = op

(* The record the executor runs is about h. *)
Aimed(h) ==
  \/ Of("SURFACE") /\ Head(batch).h = h /\ ~surf[h].known
  \/ Of("RELEASE") /\ Head(batch).h = h
  \/ Of("DIRTY") /\ Head(batch).h = h /\ surf[h].known
  \/ Of("READBACK") /\ Head(batch).h = h /\ surf[h].rendered
  \/ Of("CLEAR") /\ hctx[Head(batch).c] = h
  \/ Of("DP2") /\ hctx[Head(batch).c] = h
  \/ Of("DP2_MAP") /\ Head(batch).h = h /\ surf[h].known
  \/ Of("DP2_DRAW") /\ (hctx[Head(batch).c] = h \/ stage = h)
  \/ Of("DP2_TARGET") /\ Head(batch).h = h

Stays(h)   == ~Aimed(h) /\ surf'[h] = surf[h]
Made(h)    == Of("SURFACE") /\ Head(batch).h = h /\ ~surf[h].known /\ surf'[h] = Fresh
Dropped(h) == Of("RELEASE") /\ Head(batch).h = h /\ surf'[h] = Unknown
Marked(h)  == Of("DIRTY") /\ Head(batch).h = h /\ surf[h].known
              /\ surf'[h] = [surf[h] EXCEPT !.dirty = TRUE, !.rendered = FALSE]
Merged(h)  == [p \in Px |-> IF p \in shadow_diff(h) THEN vram[h][p] ELSE surf[h].tex[p]]
Brought(h) == Of("READBACK") /\ Head(batch).h = h /\ surf[h].rendered
              /\ surf'[h] = [surf[h] EXCEPT !.hasShadow = TRUE, !.shadow = Merged(h), !.rendered = FALSE,
                                            !.dirty = (shadow_diff(h) # {}), !.checked = FALSE]
Cleared(h) == Of("CLEAR") /\ hctx[Head(batch).c] = h /\ surf[h].known
              /\ surf'[h] = Drawn([surf[h] EXCEPT !.dirty = FALSE, !.checked = TRUE, !.rendered = TRUE],
                                  Px, Head(batch).v)
Begins(h)  == /\ \/ Of("DP2") /\ hctx[Head(batch).c] = h
                 \/ Of("DP2_TARGET") /\ Head(batch).h = h
              /\ surf[h].known /\ surf'[h] = BindTarget(h)
Draws(h)   == Of("DP2_DRAW") /\ hctx[Head(batch).c] = h
              /\ surf'[h] = Drawn(surf[h], Head(batch).S, Head(batch).v)
Samples(h) == /\ \/ Of("DP2_MAP") /\ Head(batch).h = h /\ surf[h].known
                 \/ Of("DP2_DRAW") /\ stage = h /\ seen' = [at |-> h, px |-> surf'[h].tex]
              /\ surf'[h] = Bound(h)

Moves(h) == Stays(h) \/ Made(h) \/ Dropped(h) \/ Marked(h) \/ Brought(h) \/ Cleared(h)
            \/ Begins(h) \/ Draws(h) \/ Samples(h)

(* A draw does not sample what it draws on. *)
LEMMA DrawApart ==
  ASSUME MemInv, Of("DP2_DRAW")
  PROVE  /\ hctx[Head(batch).c] \in Handles /\ hctx[Head(batch).c] # NoSurface
         /\ surf[hctx[Head(batch).c]].rendered /\ Tail(batch) = <<>> /\ Range(Tail(batch)) = {}
         /\ stage # NoSurface => stage \in Handles /\ stage # hctx[Head(batch).c] /\ stage \notin locked
<1> DEFINE r == Head(batch)
<1>0. TypeOK /\ Order /\ batch # <<>> /\ r.op = "DP2_DRAW" /\ "DP2_DRAW" \in Closing
  BY DEF MemInv, TablesInv, Of, Closing, Tokens
<1>1. /\ r \in Records /\ r \in Range(batch) /\ Tail(batch) = <<>> /\ Range(Tail(batch)) = {}
      /\ Range(batch) = {r} \cup Range(Tail(batch)) /\ hctx[r.c] # NoSurface /\ surf[hctx[r.c]].rendered
  BY <1>0, HeadFacts
<1>2. r.c \in Contexts
  BY <1>0, <1>1, RecordType DEF OfContext
<1>3. hctx[r.c] \in Handles /\ (stage # NoSurface => stage \in Handles)
  BY <1>0, <1>1, <1>2 DEF TypeOK
<1>4. GuestTables = HostTables
  BY <1>0, <1>1, AtTheLast, AfterKinds, TablesTypes DEF MemInv
<1>5. cur = hctx
  BY <1>4 DEF GuestTables, HostTables
<1>6. ~Has("RELEASE", stage)
  BY <1>0, <1>1 DEF Has
<1>7. stage # NoSurface => stage \notin locked /\ stage # cur[r.c]
  BY <1>0, <1>1, <1>6, Zenon DEF MemInv, StageStands
<1> QED
  BY <1>1, <1>3, <1>5, <1>7
(* What the executor leaves alone. *)
LEMMA ExecutorFrame ==
  ASSUME MemInv, Executor
  PROVE  /\ UNCHANGED <<writes, live, locked, ctx, cur, refused>> /\ waiting
         /\ \/ batch = <<>> /\ batch' = <<>> /\ waiting' = FALSE /\ UNCHANGED <<vram, surf, hctx, stage>> /\ seen' = Nothing
            \/ batch # <<>> /\ batch' = Tail(batch) /\ waiting' = waiting
         /\ ~Of("READBACK") => UNCHANGED vram
         /\ ~Of("READBACK") /\ ~Of("DP2_DRAW") => seen' = Nothing
         /\ hctx' = IF Of("CTX_CREATE") \/ Of("CTX_SET_RT") \/ Of("DP2_TARGET")
                      THEN [hctx EXCEPT ![Head(batch).c] = Head(batch).h]
                    ELSE IF Of("CTX_DESTROY") THEN [hctx EXCEPT ![Head(batch).c] = NoSurface]
                    ELSE hctx
         /\ stage' = IF Of("RELEASE") /\ stage = Head(batch).h THEN NoSurface
                     ELSE IF Of("DP2_MAP") THEN (IF surf[Head(batch).h].known THEN Head(batch).h ELSE NoSurface)
                     ELSE stage
<1>0. TablesInv
  BY DEF MemInv
<1> USE DEF Of, Runs, Done, Unseen, guest
<1>1. CASE RunSurface
  BY <1>1 DEF RunSurface
<1>2. CASE RunRelease
  BY <1>2 DEF RunRelease
<1>3. CASE RunDirty
  BY <1>3 DEF RunDirty
<1>4. CASE RunReadback
  BY <1>4 DEF RunReadback
<1>5. CASE RunCtxCreate
  <2>1. surf[Head(batch).h].known
    BY <1>0, <1>5, HeadTables DEF RunCtxCreate
  <2> QED
    BY <1>5, <2>1 DEF RunCtxCreate
<1>6. CASE RunCtxDestroy
  BY <1>6 DEF RunCtxDestroy
<1>7. CASE RunCtxSetRt
  <2>1. surf[Head(batch).h].known /\ hctx[Head(batch).c] # NoSurface
    BY <1>0, <1>7, HeadTables DEF RunCtxSetRt
  <2> QED
    BY <1>7, <2>1 DEF RunCtxSetRt
<1>8. CASE RunClear
  <2>1. Bindable(Head(batch).c)
    BY <1>0, <1>8, HeadTables DEF RunClear, Bindable
  <2> QED
    BY <1>8, <2>1 DEF RunClear
<1>9. CASE RunDp2
  <2>1. Bindable(Head(batch).c)
    BY <1>0, <1>9, HeadTables DEF RunDp2, Bindable
  <2> QED
    BY <1>9, <2>1 DEF RunDp2
<1>10. CASE RunDp2Map
  BY <1>10 DEF RunDp2Map
<1>11. CASE RunDp2Draw
  BY <1>11 DEF RunDp2Draw
<1>12. CASE RunDp2Target
  <2>1. surf[Head(batch).h].known
    BY <1>0, <1>12, HeadTables DEF RunDp2Target
  <2> QED
    BY <1>12, <2>1 DEF RunDp2Target
<1>13. CASE Return
  BY <1>13 DEF Return, host
<1> QED
  BY <1>1, <1>2, <1>3, <1>4, <1>5, <1>6, <1>7, <1>8, <1>9, <1>10, <1>11, <1>12, <1>13 DEF Executor

(* Each surface does one of these things in a step of the executor. *)
LEMMA SurfaceMoves ==
  ASSUME MemInv, Executor, NEW h \in Handles
  PROVE  Moves(h) /\ vram'[h] = IF Brought(h) THEN Merged(h) ELSE vram[h]
<1>0. TablesInv /\ TypeOK /\ surf \in [Handles -> Surfs] /\ vram \in [Handles -> Pictures]
  BY DEF MemInv, TablesInv, TypeOK
<1> DEFINE r == Head(batch)
<1>1. CASE RunSurface
  <2>1. Of("SURFACE") /\ surf'[h] = IF h = r.h THEN IF surf[h].known THEN surf[h] ELSE Fresh ELSE surf[h]
    BY <1>0, <1>1 DEF RunSurface, Runs, Of
  <2>2. vram' = vram
    BY <1>1 DEF RunSurface, Done, guest
  <2> QED
    BY <2>1, <2>2, Zenon DEF Moves, Stays, Aimed, Made, Brought, Of
<1>2. CASE RunRelease
  <2>1. Of("RELEASE") /\ surf'[h] = IF h = r.h THEN Unknown ELSE surf[h]
    BY <1>0, <1>2 DEF RunRelease, Runs, Of
  <2>2. vram' = vram
    BY <1>2 DEF RunRelease, Done, guest
  <2> QED
    BY <2>1, <2>2, Zenon DEF Moves, Stays, Aimed, Dropped, Brought, Of
<1>3. CASE RunDirty
  <2>1. Of("DIRTY") /\ surf'[h] = IF h = r.h /\ surf[h].known THEN [surf[h] EXCEPT !.dirty = TRUE, !.rendered = FALSE] ELSE surf[h]
    BY <1>0, <1>3 DEF RunDirty, Runs, Of
  <2>2. vram' = vram
    BY <1>3 DEF RunDirty, Done, guest
  <2> QED
    BY <2>1, <2>2, Zenon DEF Moves, Stays, Aimed, Marked, Brought, Of
<1>4. CASE RunReadback
  <2>0. Of("READBACK")
    BY <1>4 DEF RunReadback, Runs, Of
  <2>1. CASE h = r.h /\ surf[h].rendered
    <3>1. vram' = [vram EXCEPT ![h] = [p \in Px |-> IF p \in shadow_diff(h) THEN @[p] ELSE surf[h].tex[p]]]
      BY <1>4, <2>1 DEF RunReadback
    <3>2. vram'[h] = Merged(h)
      BY <1>0, <3>1 DEF Merged
    <3>3. surf' = [surf EXCEPT ![h] = [@ EXCEPT
                       !.hasShadow = TRUE, !.shadow = vram'[h], !.rendered = FALSE,
                       !.dirty = (shadow_diff(h) # {}), !.checked = FALSE]]
      BY <1>4, <2>1 DEF RunReadback
    <3>4. Brought(h)
      BY <1>0, <2>0, <2>1, <3>2, <3>3 DEF Brought
    <3> QED
      BY <3>2, <3>4 DEF Moves
  <2>2. CASE ~(h = r.h /\ surf[h].rendered)
    <3>1. surf'[h] = surf[h] /\ vram'[h] = vram[h]
      BY <1>0, <1>4, <2>2 DEF RunReadback
    <3> QED
      BY <2>0, <2>2, <3>1, Zenon DEF Moves, Stays, Aimed, Brought, Of
  <2> QED
    BY <2>1, <2>2
<1>5. CASE RunCtxCreate \/ RunCtxDestroy \/ RunCtxSetRt \/ Return
  <2>1. surf' = surf /\ vram' = vram
    <3>1. RunCtxCreate => Runs("CTX_CREATE") /\ surf' = surf /\ vram' = vram
      BY DEF RunCtxCreate
    <3>2. RunCtxDestroy => surf' = surf /\ vram' = vram
      BY DEF RunCtxDestroy, Done, guest
    <3>3. RunCtxSetRt => surf' = surf /\ vram' = vram
      BY Zenon DEF RunCtxSetRt, Done, Fail, guest
    <3>4. Return => surf' = surf /\ vram' = vram
      BY DEF Return, guest, host
    <3> QED
      BY <1>5, <3>1, <3>2, <3>3, <3>4
  <2>2. ~Aimed(h) /\ ~Of("READBACK")
    BY <1>5 DEF RunCtxCreate, RunCtxDestroy, RunCtxSetRt, Return, Runs, Of, Aimed
  <2> QED
    BY <2>1, <2>2 DEF Moves, Stays, Brought
<1>6. CASE RunClear
  <2>0. Of("CLEAR") /\ batch # <<>>
    BY <1>6 DEF RunClear, Runs, Of
  <2>1. hctx[r.c] \in Handles /\ surf[hctx[r.c]].known /\ Bindable(r.c)
    BY <1>0, <2>0, HeadTables DEF Bindable, Of
  <2>2. /\ surf' = [surf EXCEPT ![hctx[r.c]] = Drawn([@ EXCEPT
                    !.dirty = FALSE, !.checked = TRUE, !.rendered = TRUE], Px, r.v)]
        /\ vram' = vram
    BY <1>6, <2>1 DEF RunClear, Done, guest
  <2>3. CASE h = hctx[r.c]
    <3>1. surf'[h] = Drawn([surf[h] EXCEPT !.dirty = FALSE, !.checked = TRUE, !.rendered = TRUE], Px, r.v)
      BY <1>0, <2>2, <2>3
    <3> QED
      BY <2>0, <2>1, <2>2, <2>3, <3>1, Zenon DEF Moves, Cleared, Brought, Of
  <2>4. CASE h # hctx[r.c]
    <3>1. surf'[h] = surf[h]
      BY <1>0, <2>2, <2>4
    <3> QED
      BY <2>0, <2>2, <2>4, <3>1, Zenon DEF Moves, Stays, Aimed, Brought, Of
  <2> QED
    BY <2>3, <2>4
<1>7. CASE RunDp2
  <2>0. Of("DP2") /\ batch # <<>>
    BY <1>7 DEF RunDp2, Runs, Of
  <2>1. hctx[r.c] \in Handles /\ surf[hctx[r.c]].known /\ Bindable(r.c)
    BY <1>0, <2>0, HeadTables DEF Bindable, Of
  <2>2. surf' = [surf EXCEPT ![hctx[r.c]] = BindTarget(hctx[r.c])] /\ vram' = vram
    BY <1>7, <2>1 DEF RunDp2, Done, guest
  <2>3. surf'[h] = IF h = hctx[r.c] THEN BindTarget(h) ELSE surf[h]
    BY <1>0, <2>1, <2>2
  <2> QED
    BY <2>0, <2>1, <2>2, <2>3, Zenon DEF Moves, Stays, Aimed, Begins, Brought, Of
<1>8. CASE RunDp2Map
  <2>0. Of("DP2_MAP") /\ vram' = vram
    BY <1>8 DEF RunDp2Map, Runs, Of, Done, guest
  <2>1. surf'[h] = IF h = r.h /\ surf[h].known THEN Bound(h) ELSE surf[h]
    BY <1>0, <1>8 DEF RunDp2Map
  <2> QED
    BY <2>0, <2>1, Zenon DEF Moves, Stays, Aimed, Samples, Brought, Of
<1>9. CASE RunDp2Draw
  <2>0. Of("DP2_DRAW") /\ vram' = vram
    BY <1>9 DEF RunDp2Draw, Runs, Of, Done, guest
  <2>1. hctx[r.c] \in Handles /\ (stage # NoSurface => stage \in Handles /\ stage # hctx[r.c])
    BY <2>0, DrawApart
  <2> DEFINE drawn == [surf EXCEPT ![hctx[r.c]] = Drawn(@, r.S, r.v)]
  <2>2. drawn \in [Handles -> UNION {Surfs, {drawn[x] : x \in Handles}}]
    BY <1>0
  <2>3. drawn[h] = IF h = hctx[r.c] THEN Drawn(surf[h], r.S, r.v) ELSE surf[h]
    BY <1>0
  <2>4. CASE stage = NoSurface
    <3>1. surf' = drawn
      BY <1>9, <2>4 DEF RunDp2Draw
    <3>2. stage # h
      BY <2>4, Constants
    <3> QED
      BY <2>0, <2>3, <3>1, <3>2, Zenon DEF Moves, Stays, Aimed, Draws, Brought, Of
  <2>5. CASE stage # NoSurface
    <3>1. surf' = [drawn EXCEPT ![stage] = Bound(stage)] /\ seen' = [at |-> stage, px |-> surf'[stage].tex]
      BY <1>9, <2>5 DEF RunDp2Draw
    <3> HIDE DEF drawn
    <3>2. surf'[h] = IF h = stage THEN Bound(h) ELSE drawn[h]
      BY <2>2, <3>1
    <3> QED
      BY <2>0, <2>1, <2>3, <2>5, <3>1, <3>2, Zenon DEF Moves, Stays, Aimed, Draws, Samples, Brought, Of
  <2> QED
    BY <2>4, <2>5
<1>10. CASE RunDp2Target
  <2>0. Of("DP2_TARGET") /\ batch # <<>> /\ vram' = vram
    BY <1>10 DEF RunDp2Target, Runs, Of, Done, guest
  <2>1. surf[r.h].known
    BY <1>0, <2>0, HeadTables DEF Of
  <2>2. surf' = [surf EXCEPT ![r.h] = BindTarget(r.h)]
    BY <1>10, <2>1 DEF RunDp2Target
  <2>3. surf'[h] = IF h = r.h THEN BindTarget(h) ELSE surf[h]
    BY <1>0, <2>2
  <2> QED
    BY <2>0, <2>1, <2>3, Zenon DEF Moves, Stays, Aimed, Begins, Brought, Of
<1> QED
  BY <1>1, <1>2, <1>3, <1>4, <1>5, <1>6, <1>7, <1>8, <1>9, <1>10 DEF Executor---------------------------------------------------------------------------
(* The parts of MemInv, one after the other. *)

LEMMA RenderedIs ==
  ASSUME MemInv, Executor, NEW h \in Handles, Begins(h)
  PROVE  surf'[h].rendered
<1>1. surf[h] \in Surfs /\ UploadTarget(h) \in Surfs
  BY SurfaceTypes DEF MemInv, TablesInv
<1> QED
  BY <1>1 DEF Begins, BindTarget, Surfs

LEMMA OrderHost == ASSUME MemInv, Executor PROVE Order'
<1>0. TypeOK /\ Order /\ TablesInv
  BY DEF MemInv, TablesInv
<1>1. CASE batch = <<>>
  <2>1. batch' = <<>>
    BY <1>1, ExecutorFrame
  <2> QED
    BY <2>1 DEF Order
<1>2. CASE batch # <<>>
  <2>1. batch' = Tail(batch) /\ waiting' = waiting
    BY <1>2, ExecutorFrame
  <2>2. ASSUME Head(batch).op = "DP2"
        PROVE  hctx'[Head(batch).c] # NoSurface /\ surf'[hctx'[Head(batch).c]].rendered
    <3>1. hctx' = hctx
      BY <2>2, ExecutorFrame DEF Of
    <3>2. hctx[Head(batch).c] \in Handles /\ hctx[Head(batch).c] # NoSurface
      BY <1>0, <1>2, <2>2, HeadTables
    <3>3. Moves(hctx[Head(batch).c])
      BY <3>2, SurfaceMoves
    <3>4. Begins(hctx[Head(batch).c])
      BY <1>2, <2>2, <3>3, Zenon DEF Moves, Stays, Aimed, Made, Dropped, Marked, Brought, Cleared, Draws, Samples, Of
    <3> QED
      BY <3>1, <3>2, <3>4, RenderedIs
  <2> QED
    BY <1>0, <1>2, <2>1, <2>2, OrderRuns
<1> QED
  BY <1>1, <1>2

LEMMA OrderGuest ==
  ASSUME MemInv, ~Departs, DirectDraw \/ Direct3D \/ Flush PROVE Order'
<1>0. TypeOK /\ Order
  BY DEF MemInv, TablesInv
<1>1. CASE DirectDraw
  <2>1. ASSUME NEW h \in Handles, NEW p \in Px, ProgramWrites(h, p) PROVE Order'
    BY <1>0, <2>1, OrderNone DEF ProgramWrites, Guest
  <2> QED
    BY <1>0, <1>1, <2>1, DirectDrawBatch DEF DirectDraw
<1>2. CASE Direct3D
  BY <1>0, <1>2, Direct3DBatch DEF Direct3D
<1>3. CASE Flush
  BY <1>0, <1>3, OrderNone DEF Flush, Guest
<1> QED
  BY <1>1, <1>2, <1>3
(* What a driver's call leaves alone. *)
LEMMA GuestFrame ==
  ASSUME MemInv, DirectDraw \/ Direct3D \/ Flush
  PROVE  /\ ~waiting /\ UNCHANGED <<surf, hctx, stage, refused>>
         /\ \A r \in Range(batch) : r.op \notin Closing
         /\ \A h : ~Has("READBACK", h)
<1>1. ~waiting /\ UNCHANGED host
  BY DEF DirectDraw, Direct3D, Flush, CreateSurface, DestroySurface, Lock, Unlock, Flip, ProgramWrites,
         CreateContext, DestroyContext, EndScene, SetRenderTarget, Clear2, StreamDraws, StreamMaps,
         StreamSetsTarget, StreamBlits, Stream, Guest
<1> QED
  BY <1>1, OpenBatch DEF MemInv, TablesInv, host

(* The places a record may have. *)
AimsOf(r) ==
  /\ r.op \in {"CTX_CREATE", "CTX_SET_RT", "DP2_TARGET", "CLEAR"} => r.h \in Targets
  /\ r.op = "DP2_MAP" => r.h \in Textures

LEMMA AimsGuest ==
  ASSUME MemInv, ~Departs, DirectDraw \/ Direct3D \/ Flush PROVE Aims'
<1>0. TypeOK /\ Order /\ Aims
  BY DEF MemInv, TablesInv
<1>1. hctx' = hctx /\ stage' = stage /\ surf' = surf
  BY GuestFrame
<1>2. SUFFICES /\ \A c \in Contexts : {ctx'[c], cur'[c]} \subseteq Targets \cup {NoSurface}
               /\ \A r \in Range(batch') : AimsOf(r)
  BY <1>0, <1>1 DEF Aims, AimsOf
<1>3. /\ \A c \in Contexts : {ctx[c], cur[c]} \subseteq Targets \cup {NoSurface}
      /\ \A r \in Range(batch) : AimsOf(r)
  BY <1>0 DEF Aims, AimsOf
<1>4. ASSUME UNCHANGED <<ctx, cur>>,
             \A r \in Range(batch') : r \in Range(batch) \/ AimsOf(r)
      PROVE  /\ \A c \in Contexts : {ctx'[c], cur'[c]} \subseteq Targets \cup {NoSurface}
             /\ \A r \in Range(batch') : AimsOf(r)
  BY <1>3, <1>4
<1>5. CASE DirectDraw \/ Flush
  <2>1. UNCHANGED <<ctx, cur>>
    BY <1>5 DEF DirectDraw, Flush, CreateSurface, DestroySurface, Lock, Unlock, Flip, ProgramWrites, guest
  <2>2. \A h \in Handles : AimsOf(Surface(h)) /\ AimsOf(Dirty(h)) /\ AimsOf([op |-> "RELEASE", h |-> h])
                           /\ AimsOf(Readback(h, TRUE))
    BY DEF AimsOf, Surface, Dirty, Readback
  <2>3. \A r \in Range(batch') : r \in Range(batch) \/ AimsOf(r)
    <3>1. ASSUME NEW h \in Handles, NEW p \in Px, ProgramWrites(h, p) PROVE batch' = batch
      BY <3>1 DEF ProgramWrites
    <3>2. Flush => batch' = batch
      BY DEF Flush
    <3>3. \/ batch' = batch
          \/ \E h \in Handles :
               \/ Range(batch') = Range(batch) \cup {Surface(h)}
               \/ Range(batch') = Range(batch) \cup {Dirty(h)}
               \/ Range(batch') = Range(batch) \cup {[op |-> "RELEASE", h |-> h]}
               \/ Range(batch') = Range(batch) \cup {Readback(h, TRUE)}
      BY <1>0, <1>5, <3>1, <3>2, DirectDrawBatch DEF DirectDraw
    <3>4. ASSUME NEW h \in Handles,
               \/ Range(batch') = Range(batch) \cup {Surface(h)}
               \/ Range(batch') = Range(batch) \cup {Dirty(h)}
               \/ Range(batch') = Range(batch) \cup {[op |-> "RELEASE", h |-> h]}
               \/ Range(batch') = Range(batch) \cup {Readback(h, TRUE)}
          PROVE  \A r \in Range(batch') : r \in Range(batch) \/ AimsOf(r)
      <4>1. AimsOf(Surface(h)) /\ AimsOf(Dirty(h)) /\ AimsOf([op |-> "RELEASE", h |-> h]) /\ AimsOf(Readback(h, TRUE))
        BY <2>2
      <4> QED
        BY <3>4, <4>1, Zenon
    <3> QED
      BY <3>3, <3>4, Zenon
  <2> QED
    BY <1>4, <2>1, <2>3
<1>6. ASSUME NEW c \in Contexts,
             DestroyContext(c) \/ EndScene(c) \/ Clear2(c) \/ \E S \in SUBSET Px : StreamDraws(c, S)
      PROVE  /\ \A d \in Contexts : {ctx'[d], cur'[d]} \subseteq Targets \cup {NoSurface}
             /\ \A r \in Range(batch') : AimsOf(r)
  <2>1. CASE DestroyContext(c)
    <3>1. ctx' = [ctx EXCEPT ![c] = NoSurface] /\ cur' = [cur EXCEPT ![c] = NoSurface]
      BY <2>1 DEF DestroyContext
    <3>2. AimsOf([op |-> "CTX_DESTROY", c |-> c])
      BY DEF AimsOf
    <3>3. Range(batch') = Range(batch) \cup {[op |-> "CTX_DESTROY", c |-> c]}
      BY <1>0, <2>1, Direct3DBatch
    <3> QED
      BY <1>0, <1>3, <3>1, <3>2, <3>3 DEF TypeOK
  <2>2. CASE EndScene(c)
    <3>1. UNCHANGED <<ctx, cur>>
      BY <2>2 DEF EndScene, guest
    <3>2. AimsOf(Readback(ctx[c], FALSE))
      BY DEF AimsOf, Readback
    <3> QED
      BY <1>0, <1>3, <2>2, <3>1, <3>2, Direct3DBatch
  <2>3. CASE Clear2(c)
    <3>1. UNCHANGED <<ctx, cur>> /\ Ready(c)
      BY <2>3 DEF Clear2
    <3>2. AimsOf([op |-> "CLEAR", c |-> c, h |-> cur[c], v |-> writes'])
      BY <1>0, <1>3, <3>1, Using DEF AimsOf
    <3> QED
      BY <1>0, <1>3, <2>3, <3>1, <3>2, Direct3DBatch
  <2>4. ASSUME NEW S \in SUBSET Px, StreamDraws(c, S)
        PROVE  /\ \A d \in Contexts : {ctx'[d], cur'[d]} \subseteq Targets \cup {NoSurface}
               /\ \A r \in Range(batch') : AimsOf(r)
    <3>1. UNCHANGED <<ctx, cur>>
      BY <2>4 DEF StreamDraws, Stream
    <3>2. AimsOf([op |-> "DP2", c |-> c]) /\ AimsOf([op |-> "DP2_DRAW", c |-> c, S |-> S, v |-> writes'])
      BY DEF AimsOf
    <3>3. Range(batch') = Range(batch) \cup
                    {[op |-> "DP2", c |-> c], [op |-> "DP2_DRAW", c |-> c, S |-> S, v |-> writes']}
      BY <1>0, <2>4, Direct3DBatch
    <3> QED
      BY <1>3, <3>1, <3>2, <3>3
  <2> QED
    BY <1>6, <2>1, <2>2, <2>3, <2>4
<1>7. ASSUME NEW c \in Contexts, NEW h \in Handles,
             \/ CreateContext(c, h) \/ SetRenderTarget(c, h) \/ StreamMaps(c, h)
             \/ StreamSetsTarget(c, h) \/ \E p \in Px : StreamBlits(c, h, p)
      PROVE  /\ \A d \in Contexts : {ctx'[d], cur'[d]} \subseteq Targets \cup {NoSurface}
             /\ \A r \in Range(batch') : AimsOf(r)
  <2>0. AimsOf([op |-> "DP2", c |-> c]) /\ AimsOf(Surface(h)) /\ AimsOf(Dirty(h))
    BY DEF AimsOf, Surface, Dirty
  <2>1. CASE CreateContext(c, h) \/ SetRenderTarget(c, h)
    <3>1. h \in Targets /\ ctx' = [ctx EXCEPT ![c] = h] /\ cur' = [cur EXCEPT ![c] = h]
      BY <2>1 DEF CreateContext, SetRenderTarget
    <3>2. AimsOf([op |-> "CTX_CREATE", c |-> c, h |-> h]) /\ AimsOf([op |-> "CTX_SET_RT", c |-> c, h |-> h])
      BY <3>1 DEF AimsOf
    <3>3. \/ Range(batch') = Range(batch) \cup {Surface(h), [op |-> "CTX_CREATE", c |-> c, h |-> h]}
          \/ Range(batch') = Range(batch) \cup {Surface(h), [op |-> "CTX_SET_RT", c |-> c, h |-> h]}
      BY <1>0, <2>1, Direct3DBatch
    <3> QED
      BY <1>0, <1>3, <2>0, <3>1, <3>2, <3>3 DEF TypeOK
  <2>2. CASE StreamMaps(c, h)
    <3>1. h \in Textures /\ UNCHANGED <<ctx, cur>>
      BY <2>2 DEF StreamMaps, Stream
    <3>2. AimsOf([op |-> "DP2_MAP", c |-> c, h |-> h])
      BY <3>1 DEF AimsOf
    <3>3. Range(batch') = Range(batch) \cup {[op |-> "DP2", c |-> c], [op |-> "DP2_MAP", c |-> c, h |-> h]}
      BY <1>0, <2>2, Direct3DBatch
    <3> QED
      BY <1>3, <2>0, <3>1, <3>2, <3>3
  <2>3. CASE StreamSetsTarget(c, h)
    <3>1. h \in Targets /\ ctx' = ctx /\ cur' = [cur EXCEPT ![c] = h]
      BY <2>3 DEF StreamSetsTarget, Stream
    <3>2. AimsOf([op |-> "DP2_TARGET", c |-> c, h |-> h])
      BY <3>1 DEF AimsOf
    <3>3. Range(batch') = Range(batch) \cup {[op |-> "DP2", c |-> c], [op |-> "DP2_TARGET", c |-> c, h |-> h]}
      BY <1>0, <2>3, Direct3DBatch
    <3> QED
      BY <1>0, <1>3, <2>0, <3>1, <3>2, <3>3 DEF TypeOK
  <2>4. ASSUME NEW p \in Px, StreamBlits(c, h, p)
        PROVE  /\ \A d \in Contexts : {ctx'[d], cur'[d]} \subseteq Targets \cup {NoSurface}
               /\ \A r \in Range(batch') : AimsOf(r)
    <3>1. UNCHANGED <<ctx, cur>>
      BY <2>4 DEF StreamBlits
    <3>3. Range(batch') = Range(batch) \cup {Dirty(h), [op |-> "DP2", c |-> c]}
      BY <1>0, <2>4, Direct3DBatch
    <3> QED
      BY <1>3, <2>0, <3>1, <3>3
  <2> QED
    BY <1>7, <2>1, <2>2, <2>3, <2>4
<1> QED
  BY <1>5, <1>6, <1>7 DEF Direct3D

LEMMA AimsHost == ASSUME MemInv, Executor PROVE Aims'
<1>0. TypeOK /\ Order /\ Aims /\ TablesInv
  BY DEF MemInv, TablesInv
<1> DEFINE r == Head(batch)
<1>1. UNCHANGED <<ctx, cur>> /\ Range(batch') \subseteq Range(batch)
  <2>1. batch = <<>> => batch' = batch
    BY ExecutorFrame
  <2>2. batch # <<>> => Range(batch') \subseteq Range(batch)
    BY <1>0, HeadFacts, ExecutorFrame
  <2> QED
    BY <2>1, <2>2, ExecutorFrame
<1>2. ASSUME NEW c \in Contexts PROVE hctx'[c] \in Targets \cup {NoSurface}
  <2>1. Of("CTX_CREATE") \/ Of("CTX_SET_RT") \/ Of("DP2_TARGET") => r.h \in Targets
    BY <1>0, HeadFacts DEF Aims, Of
  <2>2. hctx[c] \in Targets \cup {NoSurface} /\ hctx \in [Contexts -> Handles \cup {NoSurface}]
    BY <1>0 DEF Aims, TypeOK
  <2>3. hctx'[c] = hctx[c] \/ hctx'[c] = NoSurface
        \/ ((Of("CTX_CREATE") \/ Of("CTX_SET_RT") \/ Of("DP2_TARGET")) /\ hctx'[c] = r.h)
    BY <2>2, ExecutorFrame
  <2> QED
    BY <2>1, <2>2, <2>3
<1>3. ASSUME stage' # NoSurface PROVE stage' \in Textures /\ surf'[stage'].known
  <2>1. CASE stage' = stage /\ ~(Of("RELEASE") /\ stage = r.h)
    <3>1. stage \in Textures /\ stage \in Handles /\ surf[stage].known
      BY <1>0, <1>3, <2>1, Constants DEF Aims
    <3>2. Moves(stage) /\ surf[stage] \in Surfs /\ Bound(stage).known = surf[stage].known
          /\ BindTarget(stage).known = surf[stage].known
      BY <1>0, <3>1, SurfaceMoves, SurfaceTypes, KnownKept
    <3>4. \A s \in Surfs : \A S, v : Drawn(s, S, v).known = s.known
      BY <1>0, <3>1, KnownKept
    <3>5. [surf[stage] EXCEPT !.dirty = FALSE, !.checked = TRUE, !.rendered = TRUE] \in Surfs
      BY <3>2 DEF Surfs
    <3>6. /\ [surf[stage] EXCEPT !.dirty = FALSE, !.checked = TRUE, !.rendered = TRUE].known = surf[stage].known
          /\ [surf[stage] EXCEPT !.dirty = TRUE, !.rendered = FALSE].known = surf[stage].known
          /\ [surf[stage] EXCEPT !.hasShadow = TRUE, !.shadow = Merged(stage), !.rendered = FALSE,
                                 !.dirty = (shadow_diff(stage) # {}), !.checked = FALSE].known = surf[stage].known
          /\ Fresh.known
      BY <3>2 DEF Surfs, Fresh
    <3>7. surf'[stage].known = surf[stage].known \/ surf'[stage] = Fresh \/ Dropped(stage)
      <4>1. Stays(stage) \/ Marked(stage) \/ Brought(stage) => surf'[stage].known = surf[stage].known
        BY <3>6, Zenon DEF Stays, Marked, Brought
      <4>2. Begins(stage) \/ Samples(stage) => surf'[stage].known = surf[stage].known
        BY <3>2, Zenon DEF Begins, Samples
      <4>3. Cleared(stage) => surf'[stage].known = surf[stage].known
        <5> DEFINE s == [surf[stage] EXCEPT !.dirty = FALSE, !.checked = TRUE, !.rendered = TRUE]
        <5>1. Cleared(stage) => surf'[stage] = Drawn(s, Px, Head(batch).v)
          BY DEF Cleared
        <5>2. s \in Surfs /\ s.known = surf[stage].known
          BY <3>5, <3>6
        <5> HIDE DEF s
        <5>3. Drawn(s, Px, Head(batch).v).known = s.known
          BY <3>4, <5>2, Zenon
        <5> QED
          BY <5>1, <5>2, <5>3, Zenon
      <4>4. Draws(stage) => surf'[stage].known = surf[stage].known
        BY <3>2, <3>4 DEF Draws
      <4> QED
        BY <3>2, <4>1, <4>2, <4>3, <4>4, Zenon DEF Moves, Made
    <3>3. surf'[stage].known
      BY <2>1, <3>1, <3>6, <3>7, Zenon DEF Dropped
    <3> QED
      BY <2>1, <3>1, <3>3
  <2>2. CASE Of("DP2_MAP") /\ stage' = r.h /\ surf[r.h].known
    <3>1. r.h \in Textures /\ r.h \in Handles
      BY <1>0, <2>2, HeadFacts, Constants DEF Aims, Of
    <3>2. surf'[r.h] = Bound(r.h)
      <4>1. Moves(r.h)
        BY <3>1, SurfaceMoves
      <4> QED
        BY <2>2, <4>1, Zenon DEF Moves, Stays, Aimed, Made, Dropped, Marked, Brought, Cleared, Begins, Draws, Samples, Of
    <3> QED
      BY <1>0, <2>2, <3>1, <3>2, KnownKept
  <2> QED
    BY <1>3, <2>1, <2>2, ExecutorFrame
<1> QED
  BY <1>0, <1>1, <1>2, <1>3 DEF Aims
(* What each of these does to the fields of a surface. *)
Kept(h) == /\ surf'[h].known = surf[h].known /\ surf'[h].hasShadow = surf[h].hasShadow
           /\ surf'[h].shadow = surf[h].shadow

Uploaded(h) == /\ surf'[h].tex = vram[h] /\ surf'[h].dirty = FALSE /\ surf'[h].known = surf[h].known
               /\ surf'[h].hasShadow = TRUE /\ surf'[h].shadow = vram[h]

LEMMA Fields ==
  ASSUME TypeOK, NEW h \in Handles
  PROVE  /\ Made(h) => /\ surf'[h].known = TRUE /\ surf'[h].dirty = TRUE /\ surf'[h].rendered = FALSE
                       /\ surf'[h].checked = FALSE /\ surf'[h].tex = Black /\ surf'[h].shadow = Black
         /\ Dropped(h) => /\ surf'[h].known = FALSE /\ surf'[h].rendered = FALSE /\ surf'[h].checked = FALSE
                          /\ surf'[h].tex = Black /\ surf'[h].shadow = Black
         /\ Marked(h) => /\ Kept(h) /\ surf'[h].dirty = TRUE /\ surf'[h].rendered = FALSE
                         /\ surf'[h].checked = surf[h].checked /\ surf'[h].tex = surf[h].tex
         /\ Brought(h) => /\ surf'[h].known = surf[h].known /\ surf'[h].hasShadow = TRUE
                          /\ surf'[h].shadow = Merged(h) /\ surf'[h].rendered = FALSE
                          /\ surf'[h].checked = FALSE /\ surf'[h].tex = surf[h].tex
                          /\ surf'[h].dirty = (shadow_diff(h) # {})
         /\ Cleared(h) => /\ Kept(h) /\ surf'[h].rendered = TRUE /\ surf'[h].checked = TRUE
                          /\ surf'[h].dirty = FALSE /\ surf'[h].tex = [p \in Px |-> Head(batch).v]
         /\ Begins(h) => /\ surf'[h].rendered = TRUE /\ surf'[h].checked = TRUE
                         /\ IF surf[h].dirty \/ (~surf[h].checked /\ shadow_diff(h) # {})
                              THEN Uploaded(h)
                              ELSE Kept(h) /\ surf'[h].dirty = FALSE /\ surf'[h].tex = surf[h].tex
         /\ Draws(h) => /\ Kept(h) /\ surf'[h].rendered = surf[h].rendered
                        /\ surf'[h].checked = surf[h].checked /\ surf'[h].dirty = surf[h].dirty
                        /\ surf'[h].tex = [p \in Px |-> IF p \in Head(batch).S THEN Head(batch).v ELSE surf[h].tex[p]]
         /\ Samples(h) => /\ surf'[h].rendered = surf[h].rendered /\ surf'[h].checked = surf[h].checked
                          /\ ~surf[h].dirty => surf'[h] = surf[h]
                          /\ surf[h].dirty /\ h \in Targets => Uploaded(h)
                          /\ surf[h].dirty /\ h \notin Targets =>
                               Kept(h) /\ surf'[h].tex = vram[h] /\ surf'[h].dirty = FALSE
<1> DEFINE s == surf[h]
<1>1. s \in Surfs /\ s.dirty \in BOOLEAN
  BY SurfaceTypes
<1>2. Made(h) => /\ surf'[h].known = TRUE /\ surf'[h].dirty = TRUE /\ surf'[h].rendered = FALSE
                 /\ surf'[h].checked = FALSE /\ surf'[h].tex = Black /\ surf'[h].shadow = Black
  BY DEF Made, Fresh
<1>3. Dropped(h) => /\ surf'[h].known = FALSE /\ surf'[h].rendered = FALSE /\ surf'[h].checked = FALSE
                    /\ surf'[h].tex = Black /\ surf'[h].shadow = Black
  BY DEF Dropped, Unknown, Fresh
<1>4. Marked(h) => /\ Kept(h) /\ surf'[h].dirty = TRUE /\ surf'[h].rendered = FALSE
                   /\ surf'[h].checked = surf[h].checked /\ surf'[h].tex = surf[h].tex
  BY <1>1 DEF Marked, Kept, Surfs
<1>5. Brought(h) => /\ surf'[h].known = surf[h].known /\ surf'[h].hasShadow = TRUE
                    /\ surf'[h].shadow = Merged(h) /\ surf'[h].rendered = FALSE
                    /\ surf'[h].checked = FALSE /\ surf'[h].tex = surf[h].tex
                    /\ surf'[h].dirty = (shadow_diff(h) # {})
  <2> DEFINE m == Merged(h)
             d == (shadow_diff(h) # {})
  <2> HIDE DEF m, d
  <2>1. ASSUME surf'[h] = [s EXCEPT !.hasShadow = TRUE, !.shadow = m, !.rendered = FALSE,
                                    !.dirty = d, !.checked = FALSE]
        PROVE  /\ surf'[h].known = s.known /\ surf'[h].hasShadow = TRUE
               /\ surf'[h].shadow = m /\ surf'[h].rendered = FALSE
               /\ surf'[h].checked = FALSE /\ surf'[h].tex = s.tex /\ surf'[h].dirty = d
    BY <1>1, <2>1 DEF Surfs
  <2> QED
    BY <2>1, Zenon DEF Brought, m, d
<1>6. Cleared(h) => /\ Kept(h) /\ surf'[h].rendered = TRUE /\ surf'[h].checked = TRUE
                    /\ surf'[h].dirty = FALSE /\ surf'[h].tex = [p \in Px |-> Head(batch).v]
  <2> DEFINE t == [s EXCEPT !.dirty = FALSE, !.checked = TRUE, !.rendered = TRUE]
             v == Head(batch).v
  <2>1. /\ t \in Surfs /\ t.known = s.known /\ t.hasShadow = s.hasShadow /\ t.shadow = s.shadow
        /\ t.rendered = TRUE /\ t.checked = TRUE /\ t.dirty = FALSE
    BY <1>1 DEF Surfs
  <2>2. Cleared(h) => surf'[h] = Drawn(t, Px, v)
    BY DEF Cleared
  <2> HIDE DEF t, v
  <2>3. [p \in Px |-> IF p \in Px THEN v ELSE t.tex[p]] = [p \in Px |-> v]
    OBVIOUS
  <2>4. Drawn(t, Px, v) = [t EXCEPT !.tex = [p \in Px |-> v]]
    BY <2>3 DEF Drawn
  <2> DEFINE e == [t EXCEPT !.tex = [p \in Px |-> v]]
  <2>5. /\ e.known = t.known /\ e.hasShadow = t.hasShadow /\ e.shadow = t.shadow /\ e.rendered = t.rendered
        /\ e.checked = t.checked /\ e.dirty = t.dirty /\ e.tex = [p \in Px |-> v]
    BY <2>1 DEF Surfs
  <2>6. Cleared(h) => surf'[h] = e
    BY <2>2, <2>4
  <2> HIDE DEF e
  <2>7. Cleared(h) => /\ Kept(h) /\ surf'[h].rendered = TRUE /\ surf'[h].checked = TRUE
                      /\ surf'[h].dirty = FALSE /\ surf'[h].tex = [p \in Px |-> v]
    BY <2>1, <2>5, <2>6 DEF Kept
  <2> QED
    BY <2>7 DEF v
<1>7. ASSUME Begins(h)
      PROVE  /\ surf'[h].rendered = TRUE /\ surf'[h].checked = TRUE
             /\ IF surf[h].dirty \/ (~surf[h].checked /\ shadow_diff(h) # {})
                  THEN Uploaded(h)
                  ELSE Kept(h) /\ surf'[h].dirty = FALSE /\ surf'[h].tex = surf[h].tex
  <2> DEFINE u == surf[h].dirty \/ (~surf[h].checked /\ shadow_diff(h) # {})
  <2>1. surf'[h] = [IF u THEN UploadTarget(h) ELSE s EXCEPT !.checked = TRUE, !.rendered = TRUE]
    BY <1>7, Zenon DEF Begins, BindTarget
  <2>2. ~u => s.dirty = FALSE
    BY <1>1
  <2> HIDE DEF u
  <2>3. CASE u
    <3>1. surf'[h] = [UploadTarget(h) EXCEPT !.checked = TRUE, !.rendered = TRUE]
      BY <2>1, <2>3
    <3>2. /\ surf'[h].rendered = TRUE /\ surf'[h].checked = TRUE /\ Uploaded(h)
      BY <1>1, <3>1 DEF UploadTarget, Uploaded, Surfs
    <3> QED
      BY <2>3, <3>2, Zenon DEF u
  <2>4. CASE ~u
    <3>1. surf'[h] = [s EXCEPT !.checked = TRUE, !.rendered = TRUE]
      BY <2>1, <2>4
    <3>2. /\ surf'[h].rendered = TRUE /\ surf'[h].checked = TRUE
          /\ Kept(h) /\ surf'[h].dirty = FALSE /\ surf'[h].tex = s.tex
      BY <1>1, <2>2, <2>4, <3>1 DEF Kept, Surfs
    <3> QED
      BY <2>4, <3>2, Zenon DEF u
  <2> QED
    BY <2>3, <2>4
<1>8. Draws(h) => /\ Kept(h) /\ surf'[h].rendered = surf[h].rendered
                  /\ surf'[h].checked = surf[h].checked /\ surf'[h].dirty = surf[h].dirty
                  /\ surf'[h].tex = [p \in Px |-> IF p \in Head(batch).S THEN Head(batch).v ELSE surf[h].tex[p]]
  BY <1>1 DEF Draws, Drawn, Kept, Surfs
<1>9. Samples(h) => /\ surf'[h].rendered = surf[h].rendered /\ surf'[h].checked = surf[h].checked
                    /\ ~surf[h].dirty => surf'[h] = surf[h]
                    /\ surf[h].dirty /\ h \in Targets => Uploaded(h)
                    /\ surf[h].dirty /\ h \notin Targets =>
                         Kept(h) /\ surf'[h].tex = vram[h] /\ surf'[h].dirty = FALSE
  BY <1>1 DEF Samples, Bound, UploadTarget, UploadTexture, Uploaded, Kept, Surfs
<1> QED
  BY <1>2, <1>3, <1>4, <1>5, <1>6, <1>7, <1>8, <1>9, Zenon
(* The head of the batch is one of its records. *)
LEMMA HeadHas ==
  ASSUME MemInv
  PROVE  /\ \A op : Of(op) => /\ Head(batch) \in Range(batch) /\ Head(batch) \in Records
                              /\ Head(batch).op = op /\ Has(op, Head(batch).h)
                              /\ Range(batch) = {Head(batch)} \cup Range(Tail(batch))
         /\ Of("CLEAR") => /\ hctx[Head(batch).c] = Head(batch).h /\ Head(batch).h \in Targets
                           /\ Head(batch).h \in Handles /\ surf[Head(batch).h].known
                           /\ surf[Head(batch).h].hasShadow
                           /\ (Head(batch).h \in Textures => surf[Head(batch).h].shadow = vram[Head(batch).h])
         /\ Of("DP2_TARGET") => /\ Head(batch).h \in Targets /\ Head(batch).h \notin locked
                                /\ surf[Head(batch).h].known /\ Range(Tail(batch)) = {}
         /\ Of("DP2") => /\ hctx[Head(batch).c] \in Targets /\ hctx[Head(batch).c] \notin locked
                         /\ surf[hctx[Head(batch).c]].known
                         /\ \A s \in Range(Tail(batch)) : s.op \in Tokens
         /\ Of("DP2_MAP") => Head(batch).h \in Textures /\ Range(Tail(batch)) = {}
         /\ Of("READBACK") => Range(Tail(batch)) = {}
<1>0. TypeOK /\ TablesInv /\ Order /\ Aims /\ ClearIsTold
  BY DEF MemInv, TablesInv
<1>1. ASSUME NEW op, Of(op)
      PROVE  /\ Head(batch) \in Range(batch) /\ Head(batch) \in Records
             /\ Head(batch).op = op /\ Has(op, Head(batch).h)
             /\ Range(batch) = {Head(batch)} \cup Range(Tail(batch))
  BY <1>0, <1>1, HeadFacts DEF Of, Has
<1>2. ASSUME Of("CLEAR")
      PROVE  /\ hctx[Head(batch).c] = Head(batch).h /\ Head(batch).h \in Targets
             /\ Head(batch).h \in Handles /\ surf[Head(batch).h].known
             /\ surf[Head(batch).h].hasShadow
             /\ (Head(batch).h \in Textures => surf[Head(batch).h].shadow = vram[Head(batch).h])
  BY <1>0, <1>1, <1>2, Constants DEF Aims, ClearIsTold
<1>3. "DP2_TARGET" \in Closing /\ "DP2_MAP" \in Closing /\ "READBACK" \in Closing
  BY DEF Closing, Tokens
<1>4. ASSUME Of("DP2_TARGET")
      PROVE  /\ Head(batch).h \in Targets /\ Head(batch).h \notin locked
             /\ surf[Head(batch).h].known /\ Range(Tail(batch)) = {}
  BY <1>0, <1>1, <1>3, <1>4, HeadFacts, HeadTables DEF Aims, Of
<1>5. ASSUME Of("DP2")
      PROVE  /\ hctx[Head(batch).c] \in Targets /\ hctx[Head(batch).c] \notin locked
             /\ surf[hctx[Head(batch).c]].known
             /\ \A s \in Range(Tail(batch)) : s.op \in Tokens
  <2>1. Head(batch).c \in Contexts
    BY <1>1, <1>5, RecordType DEF OfContext
  <2>2. hctx[Head(batch).c] \in Targets \cup {NoSurface}
    BY <1>0, <2>1 DEF Aims
  <2> QED
    BY <1>0, <1>5, <2>2, HeadFacts, HeadTables DEF Of
<1>6. ASSUME Of("DP2_MAP") PROVE Head(batch).h \in Textures /\ Range(Tail(batch)) = {}
  BY <1>0, <1>1, <1>3, <1>6, HeadFacts DEF Aims, Of
<1>7. ASSUME Of("READBACK") PROVE Range(Tail(batch)) = {}
  BY <1>0, <1>3, <1>7, HeadFacts DEF Of
<1> QED
  BY <1>1, <1>2, <1>4, <1>5, <1>6, <1>7, Zenon

CopiesOf(h) ==
  /\ surf[h].rendered = surf[h].checked
  /\ surf[h].rendered => surf[h].known /\ ~surf[h].dirty /\ surf[h].hasShadow /\ h \in Targets
  /\ h \in Targets /\ surf[h].known /\ ~surf[h].dirty /\ ~surf[h].rendered =>
       surf[h].hasShadow /\ surf[h].shadow = surf[h].tex

LEMMA CopiesHost == ASSUME MemInv, Executor PROVE Copies'
<1> SUFFICES ASSUME NEW h \in Handles PROVE CopiesOf(h)'
  BY DEF Copies, CopiesOf
<1>0. TypeOK /\ CopiesOf(h) /\ surf[h] \in Surfs /\ surf[h].tex \in Pictures
      /\ surf[h].rendered \in BOOLEAN /\ surf[h].dirty \in BOOLEAN /\ surf[h].checked \in BOOLEAN
  BY SurfaceTypes DEF MemInv, TablesInv, Copies, CopiesOf
<1>1. Moves(h)
  BY SurfaceMoves
<1>2. CASE Stays(h)
  BY <1>0, <1>2, Zenon DEF Stays, CopiesOf
<1>3. CASE Made(h) \/ Dropped(h)
  BY <1>0, <1>3, Fields, Zenon DEF CopiesOf
<1>4. CASE Marked(h)
  <2>1. surf[h].rendered = FALSE
    BY <1>0, <1>4, HeadHas, Zenon DEF Marked, MemInv, QuietWhen, Quiet
  <2> QED
    BY <1>0, <1>4, <2>1, Fields, Zenon DEF CopiesOf
<1>5. CASE Brought(h)
  <2>1. shadow_diff(h) = {} => Merged(h) = surf[h].tex
    BY <1>0 DEF Merged, Pictures
  <2>2. surf'[h].dirty = (shadow_diff(h) # {}) /\ surf'[h].rendered = FALSE /\ surf'[h].checked = FALSE
        /\ surf'[h].hasShadow = TRUE /\ surf'[h].shadow = Merged(h) /\ surf'[h].tex = surf[h].tex
    BY <1>0, <1>5, Fields, Zenon
  <2> QED
    BY <2>1, <2>2, Zenon DEF CopiesOf
<1>6. CASE Cleared(h)
  <2>1. h \in Targets /\ surf[h].known /\ surf[h].hasShadow
    BY <1>6, HeadHas, Zenon DEF Cleared
  <2> QED
    BY <1>0, <1>6, <2>1, Fields, Zenon DEF CopiesOf, Kept
<1>7. CASE Begins(h)
  <2>1. h \in Targets /\ surf[h].known
    BY <1>7, HeadHas, Zenon DEF Begins
  <2>2. ~surf[h].dirty => surf[h].hasShadow
    BY <1>0, <2>1, Zenon DEF CopiesOf
  <2> QED
    BY <1>0, <1>7, <2>1, <2>2, Fields, Zenon DEF CopiesOf, Kept, Uploaded
<1>8. CASE Draws(h)
  <2>1. surf[h].rendered
    BY <1>8, DrawApart, Zenon DEF Draws
  <2> QED
    BY <1>0, <1>8, <2>1, Fields, Zenon DEF CopiesOf, Kept
<1>9. CASE Samples(h)
  BY <1>0, <1>9, Fields, Zenon DEF CopiesOf, Kept, Uploaded
<1> QED
  BY <1>1, <1>2, <1>3, <1>4, <1>5, <1>6, <1>7, <1>8, <1>9, Zenon DEF Moves

LEMMA CopiesNext ==
  ASSUME MemInv, Next PROVE Copies'
<1>1. CASE DirectDraw \/ Direct3D \/ Flush
  <2>1. surf' = surf
    BY <1>1, GuestFrame
  <2> QED
    BY <2>1 DEF MemInv, Copies
<1> QED
  BY <1>1, CopiesHost DEF Next
LEMMA UptoLater ==
  ASSUME NEW pic \in Pictures, NEW n \in Nat, NEW m \in Nat, n <= m, Upto(pic, n)
  PROVE  Upto(pic, m)
<1>1. ASSUME NEW p \in Px PROVE pic[p] <= m
  <2>1. pic[p] \in Nat /\ pic[p] <= n
    BY DEF Upto, Pictures, Values
  <2> QED
    BY <2>1
<1> QED
  BY <1>1 DEF Upto

LEMMA DatedGuest ==
  ASSUME MemInv, ~Departs, DirectDraw \/ Direct3D \/ Flush PROVE Dated'
<1>0. TypeOK /\ Order /\ Dated /\ writes \in Nat
  BY DEF MemInv, TablesInv, TypeOK, Values
<1>1. surf' = surf
  BY GuestFrame
<1>2. ASSUME writes' \in Nat, writes <= writes',
             \A h \in Handles : vram'[h] = vram[h]
                 \/ \E p \in Px : vram'[h] = [vram[h] EXCEPT ![p] = writes'],
             \A r \in Range(batch') : r \in Range(batch) \/ (r.op \in {"CLEAR", "DP2_DRAW"} => r.v <= writes')
      PROVE  Dated'
  <2>1. ASSUME NEW h \in Handles
        PROVE  Upto(vram'[h], writes') /\ Upto(surf'[h].tex, writes') /\ Upto(surf'[h].shadow, writes')
    <3>1. surf'[h] = surf[h] /\ Upto(surf[h].tex, writes') /\ Upto(surf[h].shadow, writes')
          /\ Upto(vram[h], writes') /\ vram[h] \in Pictures
      BY <1>0, <1>1, <1>2, SurfaceTypes, UptoLater DEF Dated
    <3>2. ASSUME NEW p \in Px, vram'[h] = [vram[h] EXCEPT ![p] = writes'] PROVE Upto(vram'[h], writes')
      <4>1. ASSUME NEW q \in Px PROVE vram'[h][q] = IF q = p THEN writes' ELSE vram[h][q]
        BY <3>1, <3>2 DEF Pictures
      <4>2. writes' <= writes'
        BY <1>2
      <4> QED
        BY <3>1, <4>1, <4>2 DEF Upto
    <3> QED
      BY <1>2, <3>1, <3>2
  <2>2. ASSUME NEW r \in Range(batch), r.op \in {"CLEAR", "DP2_DRAW"} PROVE r.v <= writes'
    <3>1. r.v \in Nat /\ r.v <= writes
      BY <1>0, <2>2, BatchDomain, RecordType DEF Dated, Values
    <3> QED
      BY <1>0, <1>2, <3>1
  <2> QED
    BY <1>2, <2>1, <2>2 DEF Dated
<1>3. ASSUME UNCHANGED <<writes, vram>>,
             \A r \in Range(batch') : r \in Range(batch) \/ r.op \notin {"CLEAR", "DP2_DRAW"}
      PROVE  Dated'
  BY <1>0, <1>2, <1>3
<1>4. ASSUME NEW h \in Handles, CreateSurface(h) \/ DestroySurface(h) \/ Lock(h) \/ Unlock(h) \/ Flip(h) \/ Flush
      PROVE  Dated'
  <2>1. UNCHANGED <<writes, vram>>
    BY <1>4 DEF CreateSurface, DestroySurface, Lock, Unlock, Flip, Flush, guest
  <2>2. /\ Surface(h).op = "SURFACE" /\ Dirty(h).op = "DIRTY" /\ Readback(h, TRUE).op = "READBACK"
        /\ [op |-> "RELEASE", h |-> h].op = "RELEASE"
    BY DEF Surface, Dirty, Readback
  <2>3. \/ batch' = batch
        \/ Range(batch') = Range(batch) \cup {Surface(h)}
        \/ Range(batch') = Range(batch) \cup {Dirty(h)}
        \/ Range(batch') = Range(batch) \cup {[op |-> "RELEASE", h |-> h]}
        \/ Range(batch') = Range(batch) \cup {Readback(h, TRUE)}
    BY <1>0, <1>4, DirectDrawBatch DEF Flush
  <2>4. \A r \in Range(batch') : r \in Range(batch) \/ r.op \notin {"CLEAR", "DP2_DRAW"}
    BY <2>2, <2>3
  <2> QED
    BY <1>3, <2>1, <2>4
<1>5. ASSUME NEW h \in Handles, NEW p \in Px, ProgramWrites(h, p) PROVE Dated'
  <2>1. /\ writes' = writes + 1 /\ vram' = [vram EXCEPT ![h][p] = writes'] /\ batch' = batch
    BY <1>5 DEF ProgramWrites, Store
  <2>2. \A x \in Handles : vram'[x] = vram[x] \/ vram'[x] = [vram[x] EXCEPT ![p] = writes']
    BY <1>0, <2>1 DEF TypeOK
  <2>3. writes' \in Nat /\ writes <= writes'
    BY <1>0, <2>1
  <2> QED
    BY <1>2, <2>1, <2>2, <2>3
<1>6. ASSUME NEW c \in Contexts, DestroyContext(c) \/ EndScene(c) PROVE Dated'
  <2>1. UNCHANGED <<writes, vram>>
    BY <1>6 DEF DestroyContext, EndScene, guest
  <2>2. Readback(ctx[c], FALSE).op = "READBACK" /\ [op |-> "CTX_DESTROY", c |-> c].op = "CTX_DESTROY"
    BY DEF Readback
  <2>3. \/ Range(batch') = Range(batch) \cup {Readback(ctx[c], FALSE)}
        \/ Range(batch') = Range(batch) \cup {[op |-> "CTX_DESTROY", c |-> c]}
    BY <1>0, <1>6, Direct3DBatch
  <2> QED
    BY <1>3, <2>1, <2>2, <2>3
<1>7. ASSUME NEW c \in Contexts, Clear2(c) \/ \E S \in SUBSET Px : StreamDraws(c, S) PROVE Dated'
  <2>1. writes' = writes + 1 /\ vram' = vram
    BY <1>7 DEF Clear2, StreamDraws
  <2>2. writes' \in Nat /\ writes <= writes' /\ writes' <= writes'
    BY <1>0, <2>1
  <2>3. \/ Range(batch') = Range(batch) \cup {[op |-> "CLEAR", c |-> c, h |-> cur[c], v |-> writes']}
        \/ \E S \in SUBSET Px : Range(batch') = Range(batch) \cup
              {[op |-> "DP2", c |-> c], [op |-> "DP2_DRAW", c |-> c, S |-> S, v |-> writes']}
    BY <1>0, <1>7, Direct3DBatch, Zenon
  <2>4. \A r \in Range(batch') : r \in Range(batch) \/ (r.op \in {"CLEAR", "DP2_DRAW"} => r.v <= writes')
    BY <2>2, <2>3
  <2> QED
    BY <1>2, <2>1, <2>2, <2>4
<1>8. ASSUME NEW c \in Contexts, NEW h \in Handles,
             CreateContext(c, h) \/ SetRenderTarget(c, h) \/ StreamMaps(c, h) \/ StreamSetsTarget(c, h)
      PROVE  Dated'
  <2>1. UNCHANGED <<writes, vram>>
    BY <1>8 DEF CreateContext, SetRenderTarget, StreamMaps, StreamSetsTarget
  <2>2. \/ Range(batch') = Range(batch) \cup {Surface(h), [op |-> "CTX_CREATE", c |-> c, h |-> h]}
        \/ Range(batch') = Range(batch) \cup {Surface(h), [op |-> "CTX_SET_RT", c |-> c, h |-> h]}
        \/ Range(batch') = Range(batch) \cup {[op |-> "DP2", c |-> c], [op |-> "DP2_MAP", c |-> c, h |-> h]}
        \/ Range(batch') = Range(batch) \cup {[op |-> "DP2", c |-> c], [op |-> "DP2_TARGET", c |-> c, h |-> h]}
    BY <1>0, <1>8, Direct3DBatch, Zenon
  <2>3. Surface(h).op = "SURFACE"
    BY DEF Surface
  <2> QED
    BY <1>3, <2>1, <2>2, <2>3
<1>9. ASSUME NEW c \in Contexts, NEW h \in Handles, NEW p \in Px, StreamBlits(c, h, p) PROVE Dated'
  <2>1. writes' = writes + 1 /\ vram' = [vram EXCEPT ![h][p] = writes']
    BY <1>9 DEF StreamBlits, Store
  <2>2. \A x \in Handles : vram'[x] = vram[x] \/ vram'[x] = [vram[x] EXCEPT ![p] = writes']
    BY <1>0, <2>1 DEF TypeOK
  <2>3. writes' \in Nat /\ writes <= writes'
    BY <1>0, <2>1
  <2>4. Range(batch') = Range(batch) \cup {Dirty(h), [op |-> "DP2", c |-> c]}
    BY <1>0, <1>9, Direct3DBatch, Zenon
  <2>5. Dirty(h).op = "DIRTY"
    BY DEF Dirty
  <2>6. \A r \in Range(batch') : r \in Range(batch) \/ (r.op \in {"CLEAR", "DP2_DRAW"} => r.v <= writes')
    BY <2>4, <2>5
  <2> QED
    BY <1>2, <2>1, <2>2, <2>3, <2>6
<1>10. CASE Flush
  <2>1. UNCHANGED <<writes, vram, batch>>
    BY <1>10 DEF Flush, guest
  <2> QED
    BY <1>3, <2>1
<1> QED
  BY <1>4, <1>5, <1>6, <1>7, <1>8, <1>9, <1>10, Zenon DEF DirectDraw, Direct3D

LEMMA DatedHost == ASSUME MemInv, Executor PROVE Dated'
<1>0. TypeOK /\ Dated /\ writes \in Nat /\ writes' = writes
  <2>1. TypeOK /\ Dated
    BY DEF MemInv, TablesInv
  <2>2. writes' = writes
    BY ExecutorFrame
  <2> QED
    BY <2>1, <2>2 DEF TypeOK, Values
<1>1. ASSUME NEW h \in Handles
      PROVE  Upto(vram'[h], writes) /\ Upto(surf'[h].tex, writes) /\ Upto(surf'[h].shadow, writes)
  <2>1. Moves(h) /\ vram'[h] = IF Brought(h) THEN Merged(h) ELSE vram[h]
    BY SurfaceMoves
  <2>2. Upto(vram[h], writes) /\ Upto(surf[h].tex, writes) /\ Upto(surf[h].shadow, writes)
    BY <1>0 DEF Dated
  <2>3. Upto(Merged(h), writes) /\ Upto(Black, writes)
    BY <1>0, <2>2 DEF Merged, Black, Upto
  <2>4. ASSUME Cleared(h) \/ Draws(h) PROVE Upto(surf'[h].tex, writes)
    <3>1. Head(batch).v <= writes
      BY <1>0, <2>4, HeadHas DEF Cleared, Draws, Dated
    <3>2. \/ surf'[h].tex = [p \in Px |-> Head(batch).v]
          \/ surf'[h].tex = [p \in Px |-> IF p \in Head(batch).S THEN Head(batch).v ELSE surf[h].tex[p]]
      BY <1>0, <2>4, Fields, Zenon
    <3> QED
      BY <2>2, <3>1, <3>2 DEF Upto
  <2>5. Upto(surf'[h].tex, writes)
    BY <1>0, <2>1, <2>2, <2>3, <2>4, Fields, Zenon DEF Moves, Stays, Uploaded
  <2>6. Upto(surf'[h].shadow, writes)
    BY <1>0, <2>1, <2>2, <2>3, Fields, Zenon DEF Moves, Stays, Uploaded, Kept
  <2> QED
    BY <2>1, <2>2, <2>3, <2>5, <2>6
<1>2. Range(batch') \subseteq Range(batch)
  <2>1. batch = <<>> => batch' = batch
    BY ExecutorFrame
  <2>2. batch # <<>> => Range(batch') \subseteq Range(batch)
    BY <1>0, HeadFacts, ExecutorFrame DEF MemInv
  <2> QED
    BY <2>1, <2>2
<1> QED
  BY <1>0, <1>1, <1>2 DEF Dated
LEMMA QuietHost == ASSUME MemInv, Executor PROVE QuietWhen'
<1>0. TypeOK /\ Order /\ QuietWhen /\ Aims
  BY DEF MemInv, TablesInv
<1>1. locked' = locked /\ (ctx_live' <=> ctx_live)
  BY ExecutorFrame DEF ctx_live
<1>2. Range(batch') = Range(Tail(batch)) \/ (batch = <<>> /\ batch' = <<>>)
  BY ExecutorFrame
<1>3. Range(batch') \subseteq Range(batch) /\ \A s \in Range(batch') : s.op # "CLEAR"
  <2>1. CASE batch = <<>>
    <3>1. Range(<<>>) = {}
      BY DEF Range
    <3> QED
      BY <1>2, <2>1, <3>1, ExecutorFrame
  <2>2. CASE batch # <<>>
    BY <1>0, <1>2, <2>2, HeadFacts
  <2> QED
    BY <2>1, <2>2
<1>4. \A op, h : Has(op, h)' => Has(op, h)
  BY <1>3 DEF Has
<1>5. \A h : ~Has("CLEAR", h)'
  BY <1>3 DEF Has
<1>6. ASSUME NEW h \in Handles, Quiet(h), ~Begins(h) PROVE Quiet(h)'
  <2>1. Moves(h) /\ ~Cleared(h) /\ surf[h].rendered \in BOOLEAN
    <3>1. Cleared(h) => Has("CLEAR", h)
      BY HeadHas, Zenon DEF Cleared
    <3> QED
      BY <1>0, <1>6, <3>1, SurfaceMoves, SurfaceTypes DEF Quiet
  <2>2. ~surf'[h].rendered
    BY <1>0, <1>6, <2>1, Fields, Zenon DEF Moves, Stays, Quiet
  <2> QED
    BY <1>5, <2>2 DEF Quiet
<1>7. ASSUME NEW h \in Handles, Begins(h)
      PROVE  /\ h \notin locked /\ ctx_live
             /\ ~Has("DIRTY", h)'
  <2>1. h \notin locked
    BY <1>7, HeadHas, Zenon DEF Begins
  <2>2. ctx_live
    BY <1>0, <1>7, HeadHas, Zenon DEF Begins, QuietWhen
  <2>3. ~Has("DIRTY", h)'
    <3>1. batch' = Tail(batch)
      BY <1>7, ExecutorFrame DEF Begins, Of
    <3>2. \A s \in Range(Tail(batch)) : s.op \in Tokens
      BY <1>7, HeadHas DEF Begins
    <3> QED
      BY <3>1, <3>2 DEF Has, Tokens
  <2> QED
    BY <2>1, <2>2, <2>3
<1>8. ASSUME NEW h \in Handles, Has("DIRTY", h)' PROVE Quiet(h)'
  BY <1>0, <1>4, <1>6, <1>7, <1>8, Zenon DEF QuietWhen
<1>9. ASSUME NEW h \in locked PROVE Quiet(h)' \/ Has("READBACK", h)'
  <2>0. h \in Handles
    BY <1>0 DEF TypeOK
  <2>1. CASE Quiet(h)
    BY <1>6, <1>7, <2>0, <2>1, Zenon
  <2>2. CASE Has("READBACK", h) /\ ~Has("READBACK", h)'
    <3>1. batch # <<>>
      <4>1. Range(<<>>) = {}
        BY DEF Range
      <4> QED
        BY <2>2, <4>1 DEF Has
    <3>2. Range(batch) = {Head(batch)} \cup Range(Tail(batch)) /\ batch' = Tail(batch)
      BY <1>0, <3>1, HeadFacts, ExecutorFrame
    <3>3. Of("READBACK") /\ Head(batch).h = h
      BY <2>2, <3>1, <3>2 DEF Has, Of
    <3>4. Moves(h) /\ surf[h].rendered \in BOOLEAN
      BY <1>0, <2>0, SurfaceMoves, SurfaceTypes
    <3>5. Stays(h) \/ Brought(h)
      BY <3>3, <3>4, Zenon DEF Moves, Made, Dropped, Marked, Cleared, Begins, Draws, Samples, Of
    <3>6. ~surf'[h].rendered
      BY <1>0, <2>0, <3>3, <3>5, Fields, Zenon DEF Stays, Aimed
    <3> QED
      BY <1>5, <3>6 DEF Quiet
  <2> QED
    BY <1>0, <2>1, <2>2, Zenon DEF QuietWhen
<1>10. ASSUME ~ctx_live
       PROVE  (\A h \in Handles : Quiet(h)') /\ \A r \in Range(batch') : r.op \notin {"DP2", "DP2_TARGET"}
  <2>1. \A h \in Handles : Quiet(h)'
    BY <1>0, <1>6, <1>7, <1>10, Zenon DEF QuietWhen
  <2>2. \A r \in Range(batch') : r.op \notin {"DP2", "DP2_TARGET"}
    BY <1>0, <1>3, <1>10 DEF QuietWhen
  <2> QED
    BY <2>1, <2>2
<1> QED
  BY <1>1, <1>8, <1>9, <1>10 DEF QuietWhen

(* Only a clear that is queued disturbs a surface while the guest works. *)
LEMMA QuietKept ==
  ASSUME MemInv, UNCHANGED surf, NEW h, Quiet(h), ~Has("CLEAR", h)' PROVE Quiet(h)'
BY DEF Quiet

LEMMA QuietGuest ==
  ASSUME MemInv, ~Departs, DirectDraw \/ Direct3D \/ Flush PROVE QuietWhen'
<1>0. TypeOK /\ Order /\ QuietWhen /\ Aims /\ Copies
  BY DEF MemInv, TablesInv
<1>1. surf' = surf /\ (\A r \in Range(batch) : r.op \notin Closing) /\ \A h : ~Has("READBACK", h)
  BY GuestFrame
<1>2. \A h \in locked : Quiet(h)
  BY <1>0, <1>1 DEF QuietWhen
<1>3. ASSUME ctx' = ctx,
             \A h \in locked' : h \in locked \/ Quiet(h) \/ Has("READBACK", h)',
             \A r \in Range(batch') : r \in Range(batch)
               \/ (r.op \notin {"CLEAR", "DIRTY", "DP2", "DP2_TARGET"})
               \/ (r.op = "DIRTY" /\ Quiet(r.h))
      PROVE  QuietWhen'
  <2>1. \A h : Has("CLEAR", h)' => Has("CLEAR", h)
    BY <1>3 DEF Has
  <2>2. \A h : Quiet(h) => Quiet(h)'
    BY <1>1, <2>1 DEF Quiet
  <2>3. \A h : Has("DIRTY", h)' => Has("DIRTY", h) \/ Quiet(h)
    BY <1>3 DEF Has
  <2>4. ctx_live' <=> ctx_live
    BY <1>3 DEF ctx_live
  <2>5. ASSUME ~ctx_live PROVE \A r \in Range(batch') : r.op \notin {"DP2", "DP2_TARGET"}
    BY <1>0, <1>3, <2>5 DEF QuietWhen
  <2>6. \A h \in Handles : Has("DIRTY", h)' => Quiet(h)'
    BY <1>0, <2>2, <2>3 DEF QuietWhen
  <2>7. \A h \in locked' : Quiet(h)' \/ Has("READBACK", h)'
    BY <1>2, <1>3, <2>2
  <2>8. ~ctx_live => \A h \in Handles : Quiet(h)'
    BY <1>0, <2>2 DEF QuietWhen
  <2> QED
    BY <2>4, <2>5, <2>6, <2>7, <2>8 DEF QuietWhen
<1>4. ASSUME NEW h \in Handles, CreateSurface(h) \/ DestroySurface(h) \/ Unlock(h) \/ Flip(h)
      PROVE  QuietWhen'
  <2>1. ctx' = ctx /\ locked' \subseteq locked /\ (Unlock(h) => h \in locked)
    BY <1>4 DEF CreateSurface, DestroySurface, Unlock, Flip, guest
  <2>2. /\ Surface(h).op = "SURFACE" /\ Dirty(h).op = "DIRTY" /\ Dirty(h).h = h
        /\ Readback(h, TRUE).op = "READBACK" /\ [op |-> "RELEASE", h |-> h].op = "RELEASE"
    BY DEF Surface, Dirty, Readback
  <2>3. \/ batch' = batch
        \/ Range(batch') = Range(batch) \cup {Surface(h)}
        \/ Range(batch') = Range(batch) \cup {Dirty(h)} /\ Unlock(h)
        \/ Range(batch') = Range(batch) \cup {[op |-> "RELEASE", h |-> h]}
        \/ Range(batch') = Range(batch) \cup {Readback(h, TRUE)}
    BY <1>0, <1>4, DirectDrawBatch
  <2>4. Unlock(h) => Quiet(h)
    BY <1>2, <2>1
  <2>5. \A r \in Range(batch') : r \in Range(batch)
               \/ (r.op \notin {"CLEAR", "DIRTY", "DP2", "DP2_TARGET"})
               \/ (r.op = "DIRTY" /\ Quiet(r.h))
    BY <2>2, <2>3, <2>4
  <2> QED
    BY <1>3, <2>1, <2>5
<1>5. ASSUME NEW h \in Handles, Lock(h) PROVE QuietWhen'
  <2>1. ctx' = ctx /\ locked' = locked \cup {h}
    BY <1>5 DEF Lock
  <2>2. CASE ctx_live /\ h \in Targets
    <3>1. Range(batch') = Range(batch) \cup {Readback(h, TRUE)}
      BY <1>0, <1>5, <2>2, DirectDrawBatch
    <3>2. Readback(h, TRUE).op = "READBACK" /\ Readback(h, TRUE).h = h
      BY DEF Readback
    <3>3. Has("READBACK", h)'
      BY <3>1, <3>2 DEF Has
    <3>4. \A r \in Range(batch') : r \in Range(batch) \/ r.op \notin {"CLEAR", "DIRTY", "DP2", "DP2_TARGET"}
      BY <3>1, <3>2
    <3> QED
      BY <1>3, <2>1, <3>3, <3>4
  <2>3. CASE ~(ctx_live /\ h \in Targets)
    <3>1. batch' = batch
      BY <1>0, <1>5, <2>3, DirectDrawBatch
    <3>2. h \notin Targets => Quiet(h)
      BY <1>0 DEF Copies, Aims, Quiet, Has
    <3>3. Quiet(h)
      BY <1>0, <2>3, <3>2 DEF QuietWhen
    <3> QED
      BY <1>3, <2>1, <3>1, <3>3
  <2> QED
    BY <2>2, <2>3
<1>6. ASSUME Flush \/ \E h \in Handles, p \in Px : ProgramWrites(h, p) PROVE QuietWhen'
  <2>1. UNCHANGED <<batch, ctx, locked>>
    BY <1>6 DEF Flush, ProgramWrites, guest
  <2> QED
    BY <1>3, <2>1
<1>7. ASSUME NEW c \in Contexts, DestroyContext(c) PROVE QuietWhen'
  <2>1. batch = <<>> /\ (\A h \in Handles : ~surf[h].rendered) /\ locked' = locked
    BY <1>7, KeepsTo DEF DestroyContext
  <2>2. Range(batch') = Range(batch) \cup {[op |-> "CTX_DESTROY", c |-> c]}
    BY <1>0, <1>7, Direct3DBatch
  <2>3. Range(batch) = {}
    BY <2>1 DEF Range
  <2>4. \A r \in Range(batch') : r.op = "CTX_DESTROY"
    BY <2>2, <2>3
  <2>5. \A h \in Handles : Quiet(h)'
    BY <1>1, <2>1, <2>4 DEF Quiet, Has
  <2>6. \A h : ~Has("DIRTY", h)'
    BY <2>4 DEF Has
  <2>7. locked \subseteq Handles
    BY <1>0 DEF TypeOK
  <2> QED
    BY <2>1, <2>4, <2>5, <2>6, <2>7 DEF QuietWhen
<1>8. ASSUME NEW c \in Contexts, Clear2(c) PROVE QuietWhen'
  <2>1. ctx' = ctx /\ locked' = locked /\ ctx[c] # NoSurface /\ Ready(c)
    BY <1>8 DEF Clear2
  <2>2. batch = <<>> /\ Range(batch') = Range(batch) \cup {[op |-> "CLEAR", c |-> c, h |-> cur[c], v |-> writes']}
    BY <1>0, <1>8, Direct3DBatch
  <2>3. Range(batch) = {}
    BY <2>2 DEF Range
  <2>4. ctx_live'
    BY <2>1 DEF ctx_live
  <2>5. \A h : ~Has("DIRTY", h)'
    BY <2>2, <2>3 DEF Has
  <2>6. \A h : Has("CLEAR", h)' => h = cur[c]
    BY <2>2, <2>3 DEF Has
  <2>7. cur[c] \notin locked
    BY <1>0, <2>1, Using
  <2>8. \A h \in locked : Quiet(h)'
    BY <1>1, <1>2, <2>6, <2>7 DEF Quiet
  <2> QED
    BY <2>1, <2>4, <2>5, <2>8 DEF QuietWhen
<1>9. ASSUME NEW c \in Contexts, ctx_live', locked' = locked,
             \A r \in Range(batch') : r \in Range(batch) \/ r.op \notin {"CLEAR", "DIRTY"}
               \/ (r.op = "DIRTY" /\ Quiet(r.h))
      PROVE  QuietWhen'
  <2>1. \A h : Has("CLEAR", h)' => Has("CLEAR", h)
    BY <1>9 DEF Has
  <2>2. \A h : Quiet(h) => Quiet(h)'
    BY <1>1, <2>1 DEF Quiet
  <2>3. \A h : Has("DIRTY", h)' => Has("DIRTY", h) \/ Quiet(h)
    BY <1>9 DEF Has
  <2>6. \A h \in Handles : Has("DIRTY", h)' => Quiet(h)'
    BY <1>0, <2>2, <2>3 DEF QuietWhen
  <2>7. \A h \in locked' : Quiet(h)'
    BY <1>2, <1>9, <2>2
  <2> QED
    BY <1>9, <2>6, <2>7 DEF QuietWhen
<1>10. ASSUME NEW c \in Contexts, EndScene(c) \/ \E S \in SUBSET Px : StreamDraws(c, S) PROVE QuietWhen'
  <2>1. ctx' = ctx /\ locked' = locked /\ ctx[c] # NoSurface
    BY <1>10 DEF EndScene, StreamDraws, Stream, guest
  <2>2. \/ Range(batch') = Range(batch) \cup {Readback(ctx[c], FALSE)}
        \/ \E S \in SUBSET Px : Range(batch') = Range(batch) \cup
              {[op |-> "DP2", c |-> c], [op |-> "DP2_DRAW", c |-> c, S |-> S, v |-> writes']}
    BY <1>0, <1>10, Direct3DBatch, Zenon
  <2>3. Readback(ctx[c], FALSE).op = "READBACK"
    BY DEF Readback
  <2>4. ctx_live'
    BY <2>1 DEF ctx_live
  <2>5. \A r \in Range(batch') : r \in Range(batch) \/ r.op \notin {"CLEAR", "DIRTY"}
    <3>1. ASSUME NEW S \in SUBSET Px, Range(batch') = Range(batch) \cup
              {[op |-> "DP2", c |-> c], [op |-> "DP2_DRAW", c |-> c, S |-> S, v |-> writes']}
          PROVE  \A r \in Range(batch') : r \in Range(batch) \/ r.op \notin {"CLEAR", "DIRTY"}
      BY <3>1
    <3>2. ASSUME Range(batch') = Range(batch) \cup {Readback(ctx[c], FALSE)}
          PROVE  \A r \in Range(batch') : r \in Range(batch) \/ r.op \notin {"CLEAR", "DIRTY"}
      BY <2>3, <3>2
    <3> QED
      BY <2>2, <3>1, <3>2, Zenon
  <2> QED
    BY <1>9, <2>1, <2>4, <2>5
<1>11. ASSUME NEW c \in Contexts, NEW h \in Handles,
              CreateContext(c, h) \/ SetRenderTarget(c, h) \/ StreamMaps(c, h) \/ StreamSetsTarget(c, h)
       PROVE  QuietWhen'
  <2>1. locked' = locked
    BY <1>11 DEF CreateContext, SetRenderTarget, StreamMaps, StreamSetsTarget, Stream
  <2>2. \/ Range(batch') = Range(batch) \cup {Surface(h), [op |-> "CTX_CREATE", c |-> c, h |-> h]}
        \/ Range(batch') = Range(batch) \cup {Surface(h), [op |-> "CTX_SET_RT", c |-> c, h |-> h]}
        \/ Range(batch') = Range(batch) \cup {[op |-> "DP2", c |-> c], [op |-> "DP2_MAP", c |-> c, h |-> h]}
        \/ Range(batch') = Range(batch) \cup {[op |-> "DP2", c |-> c], [op |-> "DP2_TARGET", c |-> c, h |-> h]}
    BY <1>0, <1>11, Direct3DBatch, Zenon
  <2>3. Surface(h).op = "SURFACE"
    BY DEF Surface
  <2>4. ctx_live'
    <3>1. ctx' = [ctx EXCEPT ![c] = h] \/ (ctx' = ctx /\ ctx[c] # NoSurface)
      BY <1>11 DEF CreateContext, SetRenderTarget, StreamMaps, StreamSetsTarget, Stream
    <3>2. ctx'[c] # NoSurface
      BY <1>0, <3>1, Constants DEF TypeOK
    <3> QED
      BY <3>2 DEF ctx_live
  <2>5. \A r \in Range(batch') : r \in Range(batch) \/ r.op \notin {"CLEAR", "DIRTY"}
    BY <2>2, <2>3
  <2> QED
    BY <1>9, <2>1, <2>4, <2>5
<1>12. ASSUME NEW c \in Contexts, NEW h \in Handles, NEW p \in Px, StreamBlits(c, h, p) PROVE QuietWhen'
  <2>1. locked' = locked /\ ctx' = ctx /\ ctx[c] # NoSurface
    BY <1>12 DEF StreamBlits
  <2>2. Range(batch') = Range(batch) \cup {Dirty(h), [op |-> "DP2", c |-> c]}
    BY <1>0, <1>12, Direct3DBatch, Zenon
  <2>3. Dirty(h).op = "DIRTY" /\ Dirty(h).h = h
    BY DEF Dirty
  <2>4. ctx_live'
    BY <2>1 DEF ctx_live
  <2>5. Quiet(h)
    <3>1. CASE h \in Targets
      <4>1. batch = <<>> /\ ~surf[h].rendered
        BY <1>12, <3>1 DEF StreamBlits
      <4> QED
        BY <4>1 DEF Quiet, Has, Range
    <3>2. CASE h \notin Targets
      BY <1>0, <3>2 DEF Copies, Aims, Quiet, Has
    <3> QED
      BY <3>1, <3>2
  <2>6. \A r \in Range(batch') : r \in Range(batch) \/ r.op \notin {"CLEAR", "DIRTY"}
               \/ (r.op = "DIRTY" /\ Quiet(r.h))
    BY <2>2, <2>3, <2>5
  <2> QED
    BY <1>9, <2>1, <2>4, <2>6
<1> QED
  BY <1>4, <1>5, <1>6, <1>7, <1>8, <1>10, <1>11, <1>12, Zenon DEF DirectDraw, Direct3D
(* Where a clear, a draw and a release in the batch come from. *)
LEMMA NewRecords ==
  ASSUME MemInv, ~Departs, DirectDraw \/ Direct3D \/ Flush
  PROVE  /\ Range(batch) \subseteq Range(batch')
         /\ \A r \in Range(batch') :
              /\ r.op = "CLEAR" => r \in Range(batch) \/
                   \E c \in Contexts : Clear2(c) /\ r.c = c /\ r.h = cur[c] /\ r.v = writes'
              /\ r.op = "DP2_DRAW" => \E c \in Contexts, S \in SUBSET Px : StreamDraws(c, S) /\ r.c = c
              /\ r.op = "RELEASE" => r \in Range(batch) \/ \E h \in Handles : DestroySurface(h) /\ r.h = h
<1>0. TypeOK /\ Order
  BY DEF MemInv, TablesInv
<1>1. \A r \in Range(batch) : r.op # "DP2_DRAW"
  <2>1. \A r \in Range(batch) : r.op \notin Closing
    BY GuestFrame
  <2> QED
    BY <2>1 DEF Closing, Tokens
<1> DEFINE Fine == /\ Range(batch) \subseteq Range(batch')
                   /\ \A r \in Range(batch') :
                        /\ r.op = "CLEAR" => r \in Range(batch) \/
                             \E c \in Contexts : Clear2(c) /\ r.c = c /\ r.h = cur[c] /\ r.v = writes'
                        /\ r.op = "DP2_DRAW" => \E c \in Contexts, S \in SUBSET Px : StreamDraws(c, S) /\ r.c = c
                        /\ r.op = "RELEASE" => r \in Range(batch) \/ \E h \in Handles : DestroySurface(h) /\ r.h = h
<1>2. ASSUME NEW x, Range(batch') = Range(batch) \cup {x} \/ \E y : (Range(batch') = Range(batch) \cup {y, x} /\ y.op \notin {"CLEAR", "DP2_DRAW", "RELEASE"}),
             x.op \notin {"CLEAR", "DP2_DRAW", "RELEASE"}
      PROVE  Fine
  BY <1>1, <1>2
<1>3. batch' = batch => Fine
  BY <1>1
<1>4. CASE DirectDraw \/ Flush
  <2>1. ASSUME NEW h \in Handles, NEW p \in Px, ProgramWrites(h, p) PROVE batch' = batch
    BY <2>1 DEF ProgramWrites
  <2>2. Flush => batch' = batch
    BY DEF Flush
  <2>3. \/ batch' = batch
        \/ \E h \in Handles :
             \/ Range(batch') = Range(batch) \cup {Surface(h)}
             \/ Range(batch') = Range(batch) \cup {Dirty(h)}
             \/ DestroySurface(h) /\ Range(batch') = Range(batch) \cup {[op |-> "RELEASE", h |-> h]}
             \/ Range(batch') = Range(batch) \cup {Readback(h, TRUE)}
    BY <1>0, <1>4, <2>1, <2>2, DirectDrawBatch DEF DirectDraw
  <2>4. ASSUME NEW h \in Handles,
               \/ Range(batch') = Range(batch) \cup {Surface(h)}
               \/ Range(batch') = Range(batch) \cup {Dirty(h)}
               \/ Range(batch') = Range(batch) \cup {Readback(h, TRUE)}
        PROVE  Fine
    <3>1. /\ Surface(h).op = "SURFACE" /\ Dirty(h).op = "DIRTY"
          /\ Readback(h, TRUE).op = "READBACK"
      BY DEF Surface, Dirty, Readback
    <3>2. \E x : Range(batch') = Range(batch) \cup {x} /\ x.op \notin {"CLEAR", "DP2_DRAW", "RELEASE"}
      BY <2>4, <3>1
    <3> HIDE DEF Fine
    <3> QED
      BY <1>2, <3>2
  <2>6. ASSUME NEW h \in Handles, DestroySurface(h), Range(batch') = Range(batch) \cup {[op |-> "RELEASE", h |-> h]}
        PROVE  Fine
    BY <1>1, <2>6
  <2> HIDE DEF Fine
  <2>5. Fine
    BY <1>3, <2>3, <2>4, <2>6, Zenon
  <2> QED
    BY <2>5 DEF Fine
<1>5. ASSUME NEW c \in Contexts, Direct3D,
             DestroyContext(c) \/ EndScene(c) \/ \E h \in Handles :
               \/ CreateContext(c, h) \/ SetRenderTarget(c, h) \/ StreamMaps(c, h) \/ StreamSetsTarget(c, h)
               \/ \E p \in Px : StreamBlits(c, h, p)
      PROVE  Fine
  <2>1. CASE DestroyContext(c) \/ EndScene(c)
    <3>1. Readback(ctx[c], FALSE).op = "READBACK" /\ [op |-> "CTX_DESTROY", c |-> c].op = "CTX_DESTROY"
      BY DEF Readback
    <3>2. \/ Range(batch') = Range(batch) \cup {Readback(ctx[c], FALSE)}
          \/ Range(batch') = Range(batch) \cup {[op |-> "CTX_DESTROY", c |-> c]}
      BY <1>0, <2>1, Direct3DBatch
    <3> HIDE DEF Fine
    <3> QED
      BY <1>2, <3>1, <3>2
  <2>2. ASSUME NEW h \in Handles,
               \/ CreateContext(c, h) \/ SetRenderTarget(c, h) \/ StreamMaps(c, h) \/ StreamSetsTarget(c, h)
               \/ \E p \in Px : StreamBlits(c, h, p)
        PROVE  Fine
    <3>1. Surface(h).op = "SURFACE" /\ Dirty(h).op = "DIRTY"
      BY DEF Surface, Dirty
    <3>2. \/ Range(batch') = Range(batch) \cup {Surface(h), [op |-> "CTX_CREATE", c |-> c, h |-> h]}
          \/ Range(batch') = Range(batch) \cup {Surface(h), [op |-> "CTX_SET_RT", c |-> c, h |-> h]}
          \/ Range(batch') = Range(batch) \cup {[op |-> "DP2", c |-> c], [op |-> "DP2_MAP", c |-> c, h |-> h]}
          \/ Range(batch') = Range(batch) \cup {[op |-> "DP2", c |-> c], [op |-> "DP2_TARGET", c |-> c, h |-> h]}
          \/ Range(batch') = Range(batch) \cup {Dirty(h), [op |-> "DP2", c |-> c]}
      BY <1>0, <2>2, Direct3DBatch, Zenon
    <3>3. /\ Range(batch) \subseteq Range(batch')
          /\ \A r \in Range(batch') : r \in Range(batch) \/ r.op \notin {"CLEAR", "DP2_DRAW", "RELEASE"}
      <4>1. CASE Range(batch') = Range(batch) \cup {Surface(h), [op |-> "CTX_CREATE", c |-> c, h |-> h]}
        BY <3>1, <4>1
      <4>2. CASE Range(batch') = Range(batch) \cup {Surface(h), [op |-> "CTX_SET_RT", c |-> c, h |-> h]}
        BY <3>1, <4>2
      <4>3. CASE Range(batch') = Range(batch) \cup {[op |-> "DP2", c |-> c], [op |-> "DP2_MAP", c |-> c, h |-> h]}
        BY <4>3
      <4>4. CASE Range(batch') = Range(batch) \cup {[op |-> "DP2", c |-> c], [op |-> "DP2_TARGET", c |-> c, h |-> h]}
        BY <4>4
      <4>5. CASE Range(batch') = Range(batch) \cup {Dirty(h), [op |-> "DP2", c |-> c]}
        BY <3>1, <4>5
      <4> QED
        BY <3>2, <4>1, <4>2, <4>3, <4>4, <4>5
    <3> QED
      BY <1>1, <3>3
  <2> HIDE DEF Fine
  <2> QED
    BY <1>5, <2>1, <2>2, Zenon
<1>6. ASSUME NEW c \in Contexts, Clear2(c) PROVE Fine
  <2>1. Range(batch') = Range(batch) \cup {[op |-> "CLEAR", c |-> c, h |-> cur[c], v |-> writes']}
    BY <1>0, <1>6, Direct3DBatch
  <2> QED
    BY <1>1, <1>6, <2>1
<1>7. ASSUME NEW c \in Contexts, NEW S \in SUBSET Px, StreamDraws(c, S) PROVE Fine
  <2>1. Range(batch') = Range(batch) \cup
              {[op |-> "DP2", c |-> c], [op |-> "DP2_DRAW", c |-> c, S |-> S, v |-> writes']}
    BY <1>0, <1>7, Direct3DBatch
  <2> QED
    BY <1>1, <1>7, <2>1
<1> HIDE DEF Fine
<1>8. Fine
  BY <1>4, <1>5, <1>6, <1>7, Zenon DEF Direct3D, Fine
<1> QED
  BY <1>8 DEF Fine

LEMMA ClearIsToldGuest ==
  ASSUME MemInv, ~Departs, DirectDraw \/ Direct3D \/ Flush PROVE ClearIsTold'
<1>0. TypeOK /\ Order /\ Aims /\ ClearIsTold /\ QuietWhen /\ TablesInv
  BY DEF MemInv, TablesInv
<1>1. surf' = surf /\ hctx' = hctx /\ \A h : ~Has("READBACK", h)
  BY GuestFrame
<1>2. SUFFICES ASSUME NEW r \in Range(batch'), r.op = "CLEAR"
               PROVE  /\ hctx[r.c] = r.h /\ surf[r.h].known /\ surf[r.h].hasShadow
                      /\ r.h \in Textures => surf[r.h].shadow = vram'[r.h]
  BY <1>1 DEF ClearIsTold
<1>3. CASE r \in Range(batch)
  <2>1. /\ hctx[r.c] = r.h /\ surf[r.h].known /\ surf[r.h].hasShadow
        /\ r.h \in Textures => surf[r.h].shadow = vram[r.h]
    BY <1>0, <1>2, <1>3 DEF ClearIsTold
  <2>2. r.h \in Targets /\ r.h \in Handles /\ Has("CLEAR", r.h) /\ batch # <<>>
    <3>1. Range(<<>>) = {}
      BY DEF Range
    <3> QED
      BY <1>0, <1>2, <1>3, <3>1, Constants DEF Aims, Has
  <2>3. r.h \in Textures => vram'[r.h] = vram[r.h]
    <3>1. ASSUME NEW h \in Handles, NEW p \in Px, ProgramWrites(h, p), r.h \in Textures PROVE vram'[r.h] = vram[r.h]
      <4>1. vram' = [vram EXCEPT ![h][p] = writes'] /\ (h \in locked \/ h \notin Textures)
        BY <3>1 DEF ProgramWrites, Store
      <4>2. h # r.h
        BY <1>0, <1>1, <2>2, <3>1, <4>1 DEF QuietWhen, Quiet
      <4> QED
        BY <1>0, <2>2, <4>1, <4>2 DEF TypeOK
    <3>2. ASSUME NEW c \in Contexts, NEW h \in Handles, NEW p \in Px, StreamBlits(c, h, p) PROVE vram'[r.h] = vram[r.h]
      <4>1. vram' = [vram EXCEPT ![h][p] = writes'] /\ h \notin Targets
        BY <2>2, <3>2 DEF StreamBlits, Store
      <4> QED
        BY <1>0, <2>2, <4>1 DEF TypeOK
    <3>3. \/ vram' = vram \/ (\E h \in Handles, p \in Px : ProgramWrites(h, p))
          \/ \E c \in Contexts, h \in Handles, p \in Px : StreamBlits(c, h, p)
      BY Zenon DEF DirectDraw, Direct3D, Flush, CreateSurface, DestroySurface, Lock, Unlock, Flip,
             CreateContext, DestroyContext, EndScene, SetRenderTarget, Clear2, StreamDraws, StreamMaps,
             StreamSetsTarget, guest
    <3> QED
      BY <3>1, <3>2, <3>3
  <2> QED
    BY <2>1, <2>3
<1>4. ASSUME NEW c \in Contexts, Clear2(c), r.c = c, r.h = cur[c]
      PROVE  /\ hctx[r.c] = r.h /\ surf[r.h].known /\ surf[r.h].hasShadow
             /\ r.h \in Textures => surf[r.h].shadow = vram'[r.h]
  <2>1. batch = <<>> /\ Told(cur[c]) /\ vram' = vram /\ Ready(c)
    BY <1>4, KeepsTo DEF Clear2
  <2>2. hctx = cur /\ \A h \in Handles : surf[h].known = (h \in live)
    BY <1>0, <2>1, AtRest
  <2>3. cur[c] \in Handles /\ cur[c] \in live
    BY <1>0, <2>1, Using
  <2> QED
    BY <1>4, <2>1, <2>2, <2>3 DEF Told
<1> QED
  BY <1>2, <1>3, <1>4, NewRecords

LEMMA StageStandsGuest ==
  ASSUME MemInv, ~Departs, DirectDraw \/ Direct3D \/ Flush PROVE StageStands'
<1>1. ASSUME NEW r \in Range(batch'), r.op = "DP2_DRAW"
      PROVE  stage' = NoSurface \/ Has("RELEASE", stage)' \/ (stage' \notin locked' /\ stage' # cur'[r.c])
  <2>1. PICK c \in Contexts, S \in SUBSET Px : StreamDraws(c, S) /\ r.c = c
    BY <1>1, NewRecords
  <2>2. /\ stage # NoSurface => stage \in live \ (locked \cup {cur[c]})
        /\ cur' = cur /\ locked' = locked /\ stage' = stage
    BY <2>1, GuestFrame DEF StreamDraws, Stream
  <2> QED
    BY <2>1, <2>2
<1> QED
  BY <1>1 DEF StageStands

LEMMA ToldHost == ASSUME MemInv, Executor PROVE ClearIsTold' /\ StageStands'
<1>0. TypeOK /\ Order /\ StageStands
  BY DEF MemInv, TablesInv
<1>1. CASE batch = <<>>
  <2>1. Range(batch') = {}
    BY <1>1, ExecutorFrame DEF Range
  <2> QED
    BY <2>1 DEF ClearIsTold, StageStands
<1>2. CASE batch # <<>>
  <2>1. /\ Range(batch) = {Head(batch)} \cup Range(Tail(batch)) /\ batch' = Tail(batch)
        /\ \A s \in Range(Tail(batch)) : s.op # "CLEAR"
    BY <1>0, <1>2, HeadFacts, ExecutorFrame
  <2>2. ClearIsTold'
    BY <2>1 DEF ClearIsTold
  <2>3. ASSUME NEW r \in Range(batch'), r.op = "DP2_DRAW"
        PROVE  stage' = NoSurface \/ Has("RELEASE", stage)' \/ (stage' \notin locked' /\ stage' # cur'[r.c])
    <3>1. r \in Range(batch) /\ ~Of("DP2_MAP")
      BY <2>1, <2>3, HeadHas
    <3>2. locked' = locked /\ cur' = cur
          /\ stage' = IF Of("RELEASE") /\ stage = Head(batch).h THEN NoSurface ELSE stage
      BY <3>1, ExecutorFrame
    <3>3. stage = NoSurface \/ Has("RELEASE", stage) \/ (stage \notin locked /\ stage # cur[r.c])
      BY <1>0, <2>3, <3>1 DEF StageStands
    <3>4. Has("RELEASE", stage) => Has("RELEASE", stage)' \/ stage' = NoSurface
      BY <1>2, <2>1, <3>2 DEF Has, Of
    <3> QED
      BY <3>2, <3>3, <3>4
  <2> QED
    BY <2>2, <2>3 DEF StageStands
<1> QED
  BY <1>1, <1>2
(* What the driver writes and unlocks. *)
LEMMA GuestMemory ==
  ASSUME DirectDraw \/ Direct3D \/ Flush
  PROVE  /\ \/ vram' = vram \/ (\E h \in Handles, p \in Px : ProgramWrites(h, p))
            \/ \E c \in Contexts, h \in Handles, p \in Px : StreamBlits(c, h, p)
         /\ locked \subseteq locked' \/ \E h \in Handles : Unlock(h)
<1>1. \/ vram' = vram \/ (\E h \in Handles, p \in Px : ProgramWrites(h, p))
      \/ \E c \in Contexts, h \in Handles, p \in Px : StreamBlits(c, h, p)
  BY Zenon DEF DirectDraw, Direct3D, Flush, CreateSurface, DestroySurface, Lock, Unlock, Flip,
         CreateContext, DestroyContext, EndScene, SetRenderTarget, Clear2, StreamDraws, StreamMaps,
         StreamSetsTarget, guest
<1>2. \/ locked' = locked \/ (\E h \in Handles : locked' = locked \cup {h}) \/ \E h \in Handles : Unlock(h)
  BY Zenon DEF DirectDraw, Direct3D, Flush, CreateSurface, DestroySurface, Lock, ProgramWrites, Flip,
         CreateContext, DestroyContext, EndScene, SetRenderTarget, Clear2, StreamDraws, StreamMaps,
         StreamSetsTarget, StreamBlits, Stream, guest
<1> QED
  BY <1>1, <1>2

LEMMA TexturesGuest ==
  ASSUME MemInv, ~Departs, DirectDraw \/ Direct3D \/ Flush PROVE TexturesTrue'
<1>0. TypeOK /\ Order /\ TexturesTrue
  BY DEF MemInv, TablesInv
<1>1. surf' = surf /\ Range(batch) \subseteq Range(batch')
  BY GuestFrame, NewRecords
<1>2. SUFFICES ASSUME NEW t \in Textures \ locked', surf[t].known, ~surf[t].dirty,
                      ~Has("DIRTY", t)', ~Has("RELEASE", t)'
               PROVE  IF surf[t].rendered THEN surf[t].shadow = vram'[t] ELSE surf[t].tex = vram'[t]
  BY <1>1 DEF TexturesTrue
<1>3. ~Has("DIRTY", t) /\ ~Has("RELEASE", t) /\ t \in Handles
  BY <1>1, <1>2, Constants DEF Has
<1>4. Dirty(t) \notin Range(batch')
  BY <1>2 DEF Has, Dirty
<1>5. t \notin locked
  <2>1. ASSUME Unlock(t) PROVE FALSE
    BY <1>0, <1>2, <1>3, <1>4, <2>1, DirectDrawBatch
  <2>2. ASSUME NEW h \in Handles, Unlock(h), t \in locked PROVE h = t
    BY <1>2, <2>2 DEF Unlock
  <2> QED
    BY <1>2, <2>1, <2>2, GuestMemory
<1>6. vram'[t] = vram[t]
  <2>1. ASSUME NEW h \in Handles, NEW p \in Px, ProgramWrites(h, p) PROVE vram'[t] = vram[t]
    <3>1. vram' = [vram EXCEPT ![h][p] = writes'] /\ (h \in locked \/ h \notin Textures)
      BY <2>1 DEF ProgramWrites, Store
    <3> QED
      BY <1>0, <1>2, <1>3, <1>5, <3>1 DEF TypeOK
  <2>2. ASSUME NEW c \in Contexts, NEW h \in Handles, NEW p \in Px, StreamBlits(c, h, p) PROVE vram'[t] = vram[t]
    <3>1. vram' = [vram EXCEPT ![h][p] = writes'] /\ Guest /\ ctx[c] # NoSurface
      BY <2>2 DEF StreamBlits, Store
    <3>2. Range(batch') = Range(batch) \cup {Dirty(h), [op |-> "DP2", c |-> c]}
      BY <1>0, <2>2, Direct3DBatch
    <3>3. h # t
      BY <1>4, <3>2
    <3> QED
      BY <1>0, <1>3, <3>1, <3>3 DEF TypeOK
  <2> QED
    BY <2>1, <2>2, GuestMemory
<1> QED
  BY <1>0, <1>2, <1>3, <1>5, <1>6 DEF TexturesTrue

LEMMA MergedAgain ==
  ASSUME TypeOK, NEW h \in Handles, shadow_diff(h) = {}
  PROVE  Merged(h) = surf[h].tex
<1>1. surf[h].tex \in [Px -> Values]
  BY SurfaceTypes DEF Pictures
<1> QED
  BY <1>1 DEF Merged

LEMMA TexturesHost == ASSUME MemInv, Executor PROVE TexturesTrue'
<1>0. TypeOK /\ Copies /\ TexturesTrue
  BY DEF MemInv, TablesInv
<1>1. locked' = locked
  BY ExecutorFrame
<1>2. SUFFICES ASSUME NEW t \in Textures \ locked, surf'[t].known, ~surf'[t].dirty,
                      ~Has("DIRTY", t)', ~Has("RELEASE", t)'
               PROVE  IF surf'[t].rendered THEN surf'[t].shadow = vram'[t] ELSE surf'[t].tex = vram'[t]
  BY <1>1 DEF TexturesTrue
<1>3. t \in Handles
  BY <1>2, Constants
<1>4. Moves(t) /\ vram'[t] = IF Brought(t) THEN Merged(t) ELSE vram[t]
  BY <1>3, SurfaceMoves
<1>5. ASSUME NEW op, op \in {"DIRTY", "RELEASE"}, Has(op, t) PROVE Of(op) /\ Head(batch).h = t
  <2>1. batch # <<>>
    <3>1. Range(<<>>) = {}
      BY DEF Range
    <3> QED
      BY <1>5, <3>1 DEF Has
  <2>2. batch' = Tail(batch) /\ Range(batch) = {Head(batch)} \cup Range(Tail(batch))
    BY <2>1, HeadFacts, ExecutorFrame DEF MemInv, TablesInv
  <2>3. ~Has(op, t)'
    BY <1>2, <1>5
  <2>4. Head(batch).op = op /\ Head(batch).h = t
    BY <1>5, <2>2, <2>3 DEF Has
  <2> QED
    BY <2>1, <2>4 DEF Of
<1>6. surf[t].known /\ ~surf[t].dirty /\ ~Has("DIRTY", t) /\ ~Has("RELEASE", t) =>
        IF surf[t].rendered THEN surf[t].shadow = vram[t] ELSE surf[t].tex = vram[t]
  BY <1>0, <1>2 DEF TexturesTrue
<1>7. CASE Stays(t)
  <2>1. ~Has("DIRTY", t) /\ ~Has("RELEASE", t) /\ surf'[t] = surf[t] /\ vram'[t] = vram[t]
    BY <1>2, <1>4, <1>5, <1>7, Zenon DEF Stays, Aimed, Brought
  <2> QED
    BY <1>2, <1>6, <2>1
<1>8. CASE Made(t) \/ Dropped(t) \/ Marked(t)
  BY <1>0, <1>2, <1>3, <1>8, Fields
<1>9. CASE Brought(t)
  <2>1. /\ surf'[t].rendered = FALSE /\ surf'[t].tex = surf[t].tex
        /\ surf'[t].dirty = (shadow_diff(t) # {})
    BY <1>0, <1>3, <1>9, Fields
  <2>2. Merged(t) = surf[t].tex
    BY <1>0, <1>2, <1>3, <2>1, MergedAgain
  <2> QED
    BY <1>4, <1>9, <2>1, <2>2
<1>10. CASE Cleared(t)
  <2>1. Of("CLEAR") /\ hctx[Head(batch).c] = t /\ ~Brought(t)
    BY <1>10 DEF Cleared, Of, Brought
  <2>2. surf[t].shadow = vram[t]
    BY <1>2, <2>1, HeadHas
  <2>3. Kept(t) /\ surf'[t].rendered = TRUE
    BY <1>0, <1>3, <1>10, Fields
  <2> QED
    BY <1>4, <2>1, <2>2, <2>3 DEF Kept
<1>11. CASE Begins(t)
  <2>1. /\ (Of("DP2") /\ hctx[Head(batch).c] = t) \/ (Of("DP2_TARGET") /\ Head(batch).h = t)
        /\ surf[t].known
    BY <1>11 DEF Begins
  <2>2. ~Brought(t) /\ ~Has("DIRTY", t) /\ ~Has("RELEASE", t)
    BY <1>5, <2>1 DEF Of, Brought
  <2>3. t \in Targets
    BY <2>1, HeadHas
  <2>4. /\ surf'[t].rendered = TRUE
        /\ \/ Uploaded(t)
           \/ ~surf[t].dirty /\ Kept(t)
    BY <1>0, <1>3, <1>11, Fields
  <2>5. CASE ~surf[t].dirty /\ Kept(t)
    <3>1. surf[t].shadow = vram[t]
      BY <1>0, <1>3, <1>6, <2>1, <2>2, <2>3, <2>5 DEF Copies
    <3> QED
      BY <1>4, <2>2, <2>4, <2>5, <3>1 DEF Kept
  <2> QED
    BY <1>4, <2>2, <2>4, <2>5 DEF Uploaded
<1>12. CASE Draws(t)
  <2>1. Of("DP2_DRAW") /\ hctx[Head(batch).c] = t
    BY <1>12 DEF Draws
  <2>2. ~Brought(t) /\ ~Has("DIRTY", t) /\ ~Has("RELEASE", t)
    BY <1>5, <2>1 DEF Of, Brought
  <2>3. surf[t].rendered
    BY <2>1, DrawApart
  <2>4. Kept(t) /\ surf'[t].rendered = surf[t].rendered /\ surf'[t].dirty = surf[t].dirty
    BY <1>0, <1>3, <1>12, Fields
  <2> QED
    BY <1>2, <1>4, <1>6, <2>2, <2>3, <2>4 DEF Kept
<1>13. CASE Samples(t)
  <2>1. Of("DP2_MAP") \/ Of("DP2_DRAW")
    BY <1>13 DEF Samples
  <2>2. ~Brought(t) /\ ~Has("DIRTY", t) /\ ~Has("RELEASE", t)
    BY <1>5, <2>1 DEF Of, Brought
  <2>3. CASE ~surf[t].dirty
    <3>1. surf'[t] = surf[t]
      BY <1>0, <1>3, <1>13, <2>3, Fields
    <3> QED
      BY <1>2, <1>4, <1>6, <2>2, <3>1
  <2>4. CASE surf[t].dirty
    <3>1. ~surf[t].rendered /\ surf'[t].rendered = surf[t].rendered /\ surf'[t].tex = vram[t]
      BY <1>0, <1>3, <1>13, <2>4, Fields DEF Uploaded, Copies
    <3> QED
      BY <1>4, <2>2, <3>1
  <2> QED
    BY <2>3, <2>4
<1> QED
  BY <1>4, <1>7, <1>8, <1>9, <1>10, <1>11, <1>12, <1>13 DEF Moves
LEMMA InitMemory == Init => MemInv
<1> SUFFICES ASSUME Init PROVE MemInv
  OBVIOUS
<1>1. TablesInv /\ TypeOK
  BY InitTables DEF TablesInv
<1>2. batch = <<>> /\ Len(batch) = 0 /\ Range(batch) = {}
  BY DEF Init, Range
<1>3. \A h \in Handles : /\ surf[h] = Unknown /\ vram[h] = Black
                         /\ ~surf[h].known /\ ~surf[h].rendered /\ ~surf[h].checked
                         /\ surf[h].tex = Black /\ surf[h].shadow = Black
  BY DEF Init, Unknown, Fresh
<1>4. Order
  BY <1>2 DEF Order
<1>5. Aims
  BY <1>2, Constants DEF Init, Aims
<1>6. Dated
  BY <1>2, <1>3 DEF Init, Dated, Upto, Black
<1>7. Copies
  <2>1. \A h \in Handles : /\ surf[h].known = FALSE /\ surf[h].rendered = FALSE
                           /\ surf[h].checked = FALSE
    BY DEF Init, Unknown, Fresh
  <2> QED
    BY <2>1 DEF Copies
<1>8. QuietWhen
  BY <1>2, <1>3 DEF QuietWhen, Has, Quiet, Init
<1>9. ClearIsTold /\ StageStands
  BY <1>2 DEF ClearIsTold, StageStands
<1>10. TexturesTrue
  BY <1>3, Constants DEF TexturesTrue
<1> QED
  BY <1>1, <1>4, <1>5, <1>6, <1>7, <1>8, <1>9, <1>10 DEF MemInv

LEMMA MemoryInductive ==
  ASSUME MemInv, [Next]_vars, [~Departs]_vars PROVE MemInv'
<1>0. TablesInv'
  BY TablesInductive DEF MemInv
<1>1. ASSUME DirectDraw \/ Direct3D \/ Flush, ~Departs PROVE MemInv'
  <2>1. Order' /\ Aims' /\ Dated'
    BY <1>1, OrderGuest, AimsGuest, DatedGuest
  <2>2. Copies'
    BY <1>1, CopiesNext DEF Next
  <2>3. QuietWhen' /\ ClearIsTold' /\ StageStands' /\ TexturesTrue'
    BY <1>1, QuietGuest, ClearIsToldGuest, StageStandsGuest, TexturesGuest
  <2> QED
    BY <1>0, <2>1, <2>2, <2>3 DEF MemInv
<1>2. CASE Executor
  <2>1. Order' /\ Aims' /\ Dated' /\ Copies'
    BY <1>2, OrderHost, AimsHost, DatedHost, CopiesHost
  <2>2. QuietWhen' /\ ClearIsTold' /\ StageStands' /\ TexturesTrue'
    BY <1>2, QuietHost, ToldHost, TexturesHost
  <2> QED
    BY <1>0, <2>1, <2>2 DEF MemInv
<1>3. CASE UNCHANGED vars
  <2>1. /\ UNCHANGED <<writes, vram, live, locked, ctx, cur, batch, waiting, surf, hctx, stage, refused>>
    BY <1>3 DEF vars, guest, host
  <2>2. \A op, h : Has(op, h)' <=> Has(op, h)
    BY <2>1 DEF Has
  <2>3. \A h : Quiet(h)' <=> Quiet(h)
    BY <2>1, <2>2 DEF Quiet
  <2>4. Order' /\ Aims' /\ Dated' /\ Copies'
    BY <2>1 DEF MemInv, Order, InPlace, Aims, Dated, Upto, Copies
  <2>5. QuietWhen' /\ ClearIsTold' /\ StageStands' /\ TexturesTrue'
    BY <2>1, <2>2, <2>3 DEF MemInv, QuietWhen, ctx_live, ClearIsTold, StageStands, TexturesTrue
  <2> QED
    BY <1>0, <2>4, <2>5 DEF MemInv
<1> QED
  BY <1>1, <1>2, <1>3 DEF Next
---------------------------------------------------------------------------
(* One memory: what each step is in it *)

(* A frame is under way on h, of which the program knows. *)
InFrame(h) == ~Quiet(h) /\ ~Has("RELEASE", h)
Shown(h)   == IF surf[h].rendered /\ ~Has("RELEASE", h) THEN Merged(h) ELSE vram[h]
Over(h)    == IF InFrame(h) THEN shadow_diff(h) ELSE {}

Views ==
  \A h \in Handles : /\ Effective(h) = Shown(h) /\ Shown(h) \in Pictures
                     /\ h \in Begun <=> InFrame(h)
                     /\ InFrame(h) => surf[h].hasShadow

LEMMA ReleasedAre ==
  ASSUME TypeOK, NEW h \in Handles
  PROVE  h \in Released <=> Has("RELEASE", h)
<1>1. ASSUME NEW r \in Range(batch), r.op = "RELEASE", r.h = h PROVE r = [op |-> "RELEASE", h |-> h]
  <2>1. r \in Records
    BY BatchDomain
  <2>2. r \in [op : {"SURFACE", "RELEASE", "DIRTY"}, h : Handles]
    BY <1>1, <2>1 DEF Records
  <2> QED
    BY <1>1, <2>2
<1> QED
  BY <1>1 DEF Released, Has

LEMMA MergedType ==
  ASSUME TypeOK, NEW h \in Handles PROVE Merged(h) \in Pictures
BY SurfaceTypes DEF Merged, Pictures

LEMMA ViewsHold == MemInv => Views
<1> SUFFICES ASSUME MemInv, NEW h \in Handles
             PROVE  /\ Effective(h) = Shown(h) /\ Shown(h) \in Pictures
                    /\ h \in Begun <=> InFrame(h)
                    /\ InFrame(h) => surf[h].hasShadow
  BY DEF Views
<1>0. TypeOK /\ Copies /\ ClearIsTold
  BY DEF MemInv, TablesInv
<1>1. h \in Released <=> Has("RELEASE", h)
  BY <1>0, ReleasedAre
<1>2. /\ surf[h].rendered = surf[h].checked
      /\ surf[h].rendered => surf[h].known /\ ~surf[h].dirty /\ surf[h].hasShadow
  BY <1>0 DEF Copies
<1>3. Effective(h) = Shown(h)
  BY <1>1, <1>2 DEF Effective, Shown, Merged
<1>4. Shown(h) \in Pictures
  BY <1>0, MergedType, SurfaceTypes DEF Shown
<1>5. h \in Begun <=> InFrame(h)
  BY <1>1, <1>2 DEF Begun, InFrame, Quiet, Has
<1>6. InFrame(h) => surf[h].hasShadow
  BY <1>0, <1>2 DEF ClearIsTold, InFrame, Quiet, Has
<1> QED
  BY <1>3, <1>4, <1>5, <1>6

LEMMA ViewsNext == MemInv' => Views'
BY ViewsHold, PTL

Alike(k) == /\ Shown(k)' = Shown(k) /\ (InFrame(k)' <=> InFrame(k))
            /\ Over(k)' = Over(k)

(* The abstract memory, by its views. *)
LEMMA Pictured ==
  ASSUME Views
  PROVE  /\ [h \in Handles |-> Effective(h)] = [h \in Handles |-> Shown(h)]
         /\ [h \in Handles |-> IF h \in Begun THEN shadow_diff(h) ELSE {}] = [h \in Handles |-> Over(h)]
         /\ Begun = {h \in Handles : InFrame(h)}
BY DEF Views, Over, Begun

LEMMA MapInside ==
  ASSUME Views, Views', \A k \in Handles : Alike(k), seen' = Nothing
  PROVE  Memory!Next
<1>1. /\ [h \in Handles |-> Effective(h)]' = [h \in Handles |-> Effective(h)]
      /\ [h \in Handles |-> IF h \in Begun THEN shadow_diff(h) ELSE {}]'
           = [h \in Handles |-> IF h \in Begun THEN shadow_diff(h) ELSE {}]
      /\ Begun' = Begun
  BY Pictured DEF Alike, Views, Over, Begun
<1> QED
  BY <1>1 DEF Memory!Next, Memory!Inside, Memory!Nothing, Nothing
Mem   == [h \in Handles |-> Effective(h)]
Overs == [h \in Handles |-> IF h \in Begun THEN shadow_diff(h) ELSE {}]

(* A step that changes one surface. *)
LEMMA OneChanges ==
  ASSUME Views, Views', NEW h \in Handles, \A k \in Handles \ {h} : Alike(k)
  PROVE  /\ Mem' = [Mem EXCEPT ![h] = Shown(h)'] /\ Mem[h] = Shown(h)
         /\ Overs' = [Overs EXCEPT ![h] = Over(h)'] /\ Overs[h] = Over(h)
         /\ Begun' = IF InFrame(h)' THEN Begun \cup {h} ELSE Begun \ {h}
         /\ h \in Begun <=> InFrame(h)
<1>1. Mem = [k \in Handles |-> Shown(k)] /\ Overs = [k \in Handles |-> Over(k)]
  BY DEF Mem, Overs, Views, Over
<1>2. Mem' = [k \in Handles |-> Shown(k)'] /\ Overs' = [k \in Handles |-> Over(k)']
  BY DEF Mem, Overs, Views, Over
<1>3. \A k \in Handles \ {h} : Shown(k)' = Shown(k) /\ Over(k)' = Over(k) /\ (InFrame(k)' <=> InFrame(k))
  BY DEF Alike
<1>4. Mem' = [Mem EXCEPT ![h] = Shown(h)'] /\ Mem[h] = Shown(h)
  BY <1>1, <1>2, <1>3
<1>5. Overs' = [Overs EXCEPT ![h] = Over(h)'] /\ Overs[h] = Over(h)
  BY <1>1, <1>2, <1>3
<1>6. /\ Begun \subseteq Handles /\ Begun' \subseteq Handles
      /\ \A k \in Handles : (k \in Begun <=> InFrame(k)) /\ (k \in Begun' <=> InFrame(k)')
  BY DEF Begun, Views
<1>7. Begun' = IF InFrame(h)' THEN Begun \cup {h} ELSE Begun \ {h}
  BY <1>3, <1>6
<1> QED
  BY <1>4, <1>5, <1>6, <1>7

LEMMA MapWrite ==
  ASSUME Views, Views', NEW h \in Handles, \A k \in Handles \ {h} : Alike(k), seen' = Nothing,
         NEW p \in Px, NEW v \in Values,
         Shown(h)' = [Shown(h) EXCEPT ![p] = v], InFrame(h)' <=> InFrame(h),
         Over(h)' = IF InFrame(h) THEN Over(h) \cup {p} ELSE Over(h)
  PROVE  Memory!Next
<1>1. /\ Mem' = [Mem EXCEPT ![h][p] = v]
      /\ Overs' = [Overs EXCEPT ![h] = IF h \in Begun THEN @ \cup {p} ELSE @]
      /\ Begun' = Begun
  <2>1. /\ Mem' = [Mem EXCEPT ![h] = Shown(h)'] /\ Mem[h] = Shown(h)
        /\ Overs' = [Overs EXCEPT ![h] = Over(h)'] /\ Overs[h] = Over(h)
        /\ Begun' = IF InFrame(h)' THEN Begun \cup {h} ELSE Begun \ {h}
        /\ h \in Begun <=> InFrame(h)
    BY OneChanges
  <2>2. Mem' = [Mem EXCEPT ![h] = [Mem[h] EXCEPT ![p] = v]]
    BY <2>1
  <2>3. Mem' = [Mem EXCEPT ![h][p] = v]
    BY <2>2
  <2>4. Overs' = [Overs EXCEPT ![h] = IF h \in Begun THEN Overs[h] \cup {p} ELSE Overs[h]]
    BY <2>1
  <2>5. Begun' = Begun
    BY <2>1
  <2> QED
    BY <2>3, <2>4, <2>5
<1>2. Memory!Write(h, p, v)
  BY <1>1 DEF Memory!Write, Memory!Nothing, Nothing, Mem, Overs
<1> QED
  BY <1>2 DEF Memory!Next

LEMMA MapRender ==
  ASSUME Views, Views', NEW h \in Handles, \A k \in Handles \ {h} : Alike(k),
         seen' = Nothing \/ \E t \in Handles \ {h} : seen' = [at |-> t, px |-> Shown(t)],
         NEW S \in SUBSET Px, NEW v \in Values,
         Shown(h)' = [p \in Px |-> IF p \in S \ Over(h) THEN v ELSE Shown(h)[p]],
         InFrame(h)', Over(h)' = Over(h)
  PROVE  Memory!Next
<1>1. /\ Mem' = [Mem EXCEPT ![h] = [p \in Px |-> IF p \in S \ Overs[h] THEN v ELSE Mem[h][p]]]
      /\ Overs' = Overs
      /\ Begun' = Begun \cup {h}
  <2>1. Overs = [k \in Handles |-> Overs[k]]
    BY DEF Overs
  <2> QED
    BY <2>1, OneChanges
<1>2. seen' = Nothing \/ \E t \in Handles \ {h} : seen' = [at |-> t, px |-> Mem[t]]
  BY DEF Mem, Views
<1>3. Memory!Render(h, S, v)
  BY <1>1, <1>2 DEF Memory!Render, Memory!Look, Memory!Nothing, Nothing, Mem, Overs
<1> QED
  BY <1>3 DEF Memory!Next

LEMMA MapBegin ==
  ASSUME Views, Views', NEW h \in Handles, \A k \in Handles \ {h} : Alike(k), seen' = Nothing,
         Shown(h)' = Shown(h), InFrame(h)', Over(h)' = Over(h)
  PROVE  Memory!Next
<1>1. Mem' = Mem /\ Overs' = Overs /\ Begun' = Begun \cup {h}
  <2>1. Mem \in [Handles -> Pictures] /\ Overs = [k \in Handles |-> Overs[k]]
    BY DEF Mem, Overs, Views
  <2> QED
    BY <2>1, OneChanges
<1>2. Memory!Begin(h)
  BY <1>1 DEF Memory!Begin, Memory!Nothing, Nothing, Mem, Overs
<1> QED
  BY <1>2 DEF Memory!Next

LEMMA MapAgree ==
  ASSUME Views, Views', NEW h \in Handles, \A k \in Handles \ {h} : Alike(k),
         seen' = Nothing \/ seen' = [at |-> h, px |-> Shown(h)],
         Shown(h)' = Shown(h), ~InFrame(h)', Over(h)' = {}
  PROVE  Memory!Next
<1>1. Mem' = Mem /\ Overs' = [Overs EXCEPT ![h] = {}] /\ Begun' = Begun \ {h} /\ Mem[h] = Shown(h)
  <2>1. Mem \in [Handles -> Pictures]
    BY DEF Mem, Views
  <2> QED
    BY <2>1, OneChanges
<1>2. Memory!Agree(h)
  BY <1>1 DEF Memory!Agree, Memory!Look, Memory!Nothing, Nothing, Mem, Overs
<1> QED
  BY <1>2 DEF Memory!Next

LEMMA MapRelease ==
  ASSUME Views, Views', NEW h \in Handles, \A k \in Handles \ {h} : Alike(k), seen' = Nothing,
         ~InFrame(h)', Over(h)' = {}
  PROVE  Memory!Next
<1>1. /\ \E m \in Pictures : Mem' = [Mem EXCEPT ![h] = m]
      /\ Overs' = [Overs EXCEPT ![h] = {}] /\ Begun' = Begun \ {h}
  <2>1. Shown(h)' \in Pictures
    BY DEF Views, Pictures, Values
  <2> QED
    BY <2>1, OneChanges
<1>2. Memory!Release(h)
  BY <1>1 DEF Memory!Release, Memory!Nothing, Nothing, Mem, Overs, Memory!Pictures, Pictures
<1> QED
  BY <1>2 DEF Memory!Next
LEMMA AlikeStill ==
  ASSUME NEW k, surf'[k] = surf[k], vram'[k] = vram[k],
         Has("RELEASE", k)' <=> Has("RELEASE", k), Has("CLEAR", k)' <=> Has("CLEAR", k)
  PROVE  Alike(k)
<1>1. shadow_diff(k)' = shadow_diff(k) /\ Merged(k)' = Merged(k)
  BY DEF Merged, shadow_diff
<1>2. (Quiet(k)' <=> Quiet(k)) /\ (InFrame(k)' <=> InFrame(k))
  BY DEF Quiet, InFrame
<1> QED
  BY <1>1, <1>2 DEF Alike, Shown, Over

(* A driver's call that neither clears nor releases leaves the batch's     *)
(* clears and releases as they are.                                        *)
LEMMA HasGuest ==
  ASSUME MemInv, ~Departs, DirectDraw \/ Direct3D \/ Flush, NEW k
  PROVE  /\ Has("CLEAR", k)' <=> Has("CLEAR", k) \/ \E c \in Contexts : Clear2(c) /\ cur[c] = k
         /\ Has("RELEASE", k)' <=> Has("RELEASE", k) \/ (k \in Handles /\ DestroySurface(k))
<1>0. TypeOK /\ Order
  BY DEF MemInv, TablesInv
<1>1. Has("CLEAR", k) => Has("CLEAR", k)'
  BY NewRecords DEF Has
<1>2. Has("RELEASE", k) => Has("RELEASE", k)'
  BY NewRecords DEF Has
<1>3. Has("CLEAR", k)' => Has("CLEAR", k) \/ \E c \in Contexts : Clear2(c) /\ cur[c] = k
  BY NewRecords DEF Has
<1>4. Has("RELEASE", k)' => Has("RELEASE", k) \/ (k \in Handles /\ DestroySurface(k))
  BY NewRecords DEF Has
<1>5. ASSUME NEW c \in Contexts, Clear2(c), cur[c] = k PROVE Has("CLEAR", k)'
  <2>1. Range(batch') = Range(batch) \cup {[op |-> "CLEAR", c |-> c, h |-> cur[c], v |-> writes']}
    BY <1>0, <1>5, Direct3DBatch
  <2>2. \E r \in Range(batch') : r.op = "CLEAR" /\ r.h = k
    <3> DEFINE r == [op |-> "CLEAR", c |-> c, h |-> cur[c], v |-> writes']
    <3>1. r \in Range(batch') /\ r.op = "CLEAR" /\ r.h = k
      BY <1>5, <2>1
    <3> QED
      BY <3>1
  <2> QED
    BY <2>2 DEF Has
<1>6. ASSUME k \in Handles, DestroySurface(k) PROVE Has("RELEASE", k)'
  <2>1. Range(batch') = Range(batch) \cup {[op |-> "RELEASE", h |-> k]}
    BY <1>0, <1>6, DirectDrawBatch
  <2>2. \E r \in Range(batch') : r.op = "RELEASE" /\ r.h = k
    <3> DEFINE r == [op |-> "RELEASE", h |-> k]
    <3>1. r \in Range(batch') /\ r.op = "RELEASE" /\ r.h = k
      BY <2>1
    <3> QED
      BY <3>1
  <2> QED
    BY <2>2 DEF Has
<1> QED
  BY <1>1, <1>2, <1>3, <1>4, <1>5, <1>6

(* Which of the abstract steps a driver's call is. *)
LEMMA GuestKinds ==
  ASSUME DirectDraw \/ Direct3D \/ Flush
  PROVE  \/ \E h \in Handles : DestroySurface(h)
         \/ \E h \in Handles : (Lock(h) \/ Flip(h)) /\ ~(ctx_live /\ h \in Targets)
         \/ \E h \in Handles, p \in Px : ProgramWrites(h, p)
         \/ \E c \in Contexts : Clear2(c)
         \/ \E c \in Contexts, h \in Handles, p \in Px : StreamBlits(c, h, p)
         \/ vram' = vram /\ seen' = Nothing
<1>1. ASSUME NEW h \in Handles, Lock(h) \/ Flip(h), ctx_live /\ h \in Targets
      PROVE  vram' = vram /\ seen' = Nothing
  BY <1>1 DEF Lock, Flip, BringIn, Unseen, guest
<1>2. ASSUME NEW h \in Handles, CreateSurface(h) \/ Unlock(h) PROVE vram' = vram /\ seen' = Nothing
  BY <1>2 DEF CreateSurface, Unlock, Unseen
<1>3. ASSUME NEW c \in Contexts, DestroyContext(c) \/ EndScene(c) PROVE vram' = vram /\ seen' = Nothing
  BY <1>3 DEF DestroyContext, EndScene, Unseen, guest
<1>4. ASSUME NEW c \in Contexts, NEW S \in SUBSET Px, StreamDraws(c, S) PROVE vram' = vram /\ seen' = Nothing
  BY <1>4 DEF StreamDraws, Stream, Unseen
<1>5. ASSUME NEW c \in Contexts, NEW h \in Handles,
             CreateContext(c, h) \/ SetRenderTarget(c, h) \/ StreamMaps(c, h) \/ StreamSetsTarget(c, h)
      PROVE  vram' = vram /\ seen' = Nothing
  BY <1>5 DEF CreateContext, SetRenderTarget, StreamMaps, StreamSetsTarget, Stream, Unseen
<1>6. Flush => vram' = vram /\ seen' = Nothing
  BY DEF Flush, Unseen, guest
<1> QED
  BY <1>1, <1>2, <1>3, <1>4, <1>5, <1>6, Zenon DEF DirectDraw, Direct3D
(* A pixel of the program is new to the shadow. *)
LEMMA WriteMaps ==
  ASSUME MemInv, MemInv', NEW h \in Handles, NEW p \in Px, Store(h, p), surf' = surf, seen' = Nothing,
         \A k : (Has("CLEAR", k)' <=> Has("CLEAR", k)) /\ (Has("RELEASE", k)' <=> Has("RELEASE", k))
  PROVE  Memory!Next
<1>0. TypeOK /\ Dated /\ Copies
  BY DEF MemInv, TablesInv
<1>1. Views /\ Views'
  BY ViewsHold, ViewsNext
<1>2. /\ writes \in Nat /\ writes' = writes + 1 /\ vram' = [vram EXCEPT ![h][p] = writes']
      /\ writes' \in Values
  <2>1. writes \in 0..MaxWrites /\ MaxWrites \in Nat
    BY <1>0, Constants DEF TypeOK, Values
  <2>2. writes \in Nat
    BY <2>1
  <2>3. writes' \in Values
    BY <1>0, StoreTypes
  <2> QED
    BY <2>2, <2>3 DEF Store
<1>3. \A k \in Handles \ {h} : vram'[k] = vram[k]
  BY <1>0, <1>2 DEF TypeOK
<1>4. \A k \in Handles \ {h} : Alike(k)
  BY <1>3, AlikeStill
<1>5. /\ vram[h] \in [Px -> Values] /\ vram'[h] = [vram[h] EXCEPT ![p] = writes']
      /\ surf[h].shadow \in [Px -> Values] /\ surf[h].shadow[p] # writes'
  <2>1. vram[h] \in [Px -> Values] /\ surf[h].shadow \in [Px -> Values]
    BY <1>0, SurfaceTypes DEF Pictures
  <2>2. surf[h].shadow[p] <= writes /\ surf[h].shadow[p] \in Nat
    BY <1>0, <2>1 DEF Dated, Upto, Values
  <2> QED
    BY <1>0, <1>2, <2>1, <2>2 DEF TypeOK
<1>6. surf[h].hasShadow => shadow_diff(h)' = shadow_diff(h) \cup {p}
  BY <1>5 DEF shadow_diff
<1>7. /\ InFrame(h)' <=> InFrame(h)
      /\ InFrame(h) => surf[h].hasShadow
      /\ Has("RELEASE", h)' <=> Has("RELEASE", h)
  <2>1. Quiet(h)' <=> Quiet(h)
    BY DEF Quiet
  <2> QED
    BY <1>1, <2>1 DEF Views, InFrame
<1>8. Over(h)' = IF InFrame(h) THEN Over(h) \cup {p} ELSE Over(h)
  BY <1>6, <1>7 DEF Over
<1>9. Shown(h)' = [Shown(h) EXCEPT ![p] = writes']
  <2>1. CASE surf[h].rendered /\ ~Has("RELEASE", h)
    <3>1. surf[h].hasShadow /\ shadow_diff(h)' = shadow_diff(h) \cup {p}
      BY <1>0, <1>6, <2>1 DEF Copies
    <3>2. Shown(h) = Merged(h) /\ Shown(h)' = Merged(h)'
      BY <1>7, <2>1 DEF Shown
    <3>3. Merged(h)' = [q \in Px |-> IF q \in shadow_diff(h) \cup {p} THEN vram'[h][q] ELSE surf[h].tex[q]]
      BY <3>1 DEF Merged
    <3>4. Merged(h) = [q \in Px |-> IF q \in shadow_diff(h) THEN vram[h][q] ELSE surf[h].tex[q]]
      BY DEF Merged
    <3>5. Merged(h)' = [Merged(h) EXCEPT ![p] = writes']
      BY <1>5, <3>3, <3>4
    <3> QED
      BY <3>2, <3>5
  <2>2. CASE ~(surf[h].rendered /\ ~Has("RELEASE", h))
    BY <1>5, <1>7, <2>2 DEF Shown
  <2> QED
    BY <2>1, <2>2
<1> QED
  BY <1>1, <1>2, <1>4, <1>7, <1>8, <1>9, MapWrite

LEMMA GuestMaps ==
  ASSUME MemInv, MemInv', ~Departs, DirectDraw \/ Direct3D \/ Flush
  PROVE  Memory!Next
<1>0. TypeOK /\ Order /\ QuietWhen /\ Copies /\ Aims /\ TablesInv
  BY DEF MemInv, TablesInv
<1>1. Views /\ Views' /\ surf' = surf
  BY ViewsHold, ViewsNext, GuestFrame
<1>2. ASSUME NEW h \in Handles, DestroySurface(h) PROVE Memory!Next
  <2>1. /\ Range(batch') = Range(batch) \cup {[op |-> "RELEASE", h |-> h]}
        /\ vram' = vram /\ seen' = Nothing
    BY <1>0, <1>2, DirectDrawBatch DEF DestroySurface, Unseen
  <2>2. \A k : (Has("CLEAR", k)' <=> Has("CLEAR", k)) /\ (k # h => (Has("RELEASE", k)' <=> Has("RELEASE", k)))
    BY <2>1 DEF Has
  <2>3. Has("RELEASE", h)'
    <3>1. [op |-> "RELEASE", h |-> h] \in Range(batch')
      BY <2>1
    <3> QED
      BY <3>1 DEF Has
  <2>4. \A k \in Handles \ {h} : Alike(k)
    BY <1>1, <2>1, <2>2, AlikeStill
  <2>5. ~InFrame(h)' /\ Over(h)' = {}
    BY <2>3 DEF InFrame, Over
  <2> QED
    BY <1>1, <2>1, <2>4, <2>5, MapRelease
<1>3. ASSUME NEW c \in Contexts, Clear2(c) PROVE Memory!Next
  <2>1. /\ batch = <<>> /\ Told(cur[c]) /\ vram' = vram /\ seen' = Nothing /\ Ready(c)
        /\ Range(batch') = Range(batch) \cup {[op |-> "CLEAR", c |-> c, h |-> cur[c], v |-> writes']}
    BY <1>0, <1>3, Direct3DBatch, KeepsTo DEF Clear2, Unseen
  <2>2. PICK h \in Handles : h = cur[c]
    BY <1>0, <2>1, Using
  <2>3. Range(batch) = {}
    BY <2>1 DEF Range
  <2>4. /\ \A k : ~Has("RELEASE", k)' /\ ~Has("RELEASE", k) /\ ~Has("CLEAR", k)
        /\ \A k : Has("CLEAR", k)' <=> k = h
    <3>1. PICK r : r = [op |-> "CLEAR", c |-> c, h |-> cur[c], v |-> writes']
      OBVIOUS
    <3>2. Range(batch') = {r} /\ r.op = "CLEAR" /\ r.h = h
      BY <2>1, <2>2, <2>3, <3>1
    <3> QED
      BY <2>3, <3>2 DEF Has
  <2>5. \A k \in Handles \ {h} : Alike(k)
    BY <1>1, <2>1, <2>4, AlikeStill
  <2>6. shadow_diff(h)' = shadow_diff(h) /\ Merged(h)' = Merged(h) /\ shadow_diff(h) = {}
    BY <1>1, <2>1, <2>2 DEF shadow_diff, Merged, Told
  <2>7. InFrame(h)' /\ Over(h)' = Over(h) /\ Shown(h)' = Shown(h)
    BY <1>1, <2>1, <2>2, <2>4, <2>6 DEF InFrame, Quiet, Over, Shown
  <2> QED
    BY <1>1, <2>1, <2>2, <2>5, <2>7, MapBegin
<1>4. CASE ~(\E h \in Handles : DestroySurface(h)) /\ ~(\E c \in Contexts : Clear2(c))
  <2>1. \A k : (Has("CLEAR", k)' <=> Has("CLEAR", k)) /\ (Has("RELEASE", k)' <=> Has("RELEASE", k))
    BY <1>4, HasGuest
  <2>2. ASSUME NEW h \in Handles, Lock(h) \/ Flip(h), ~(ctx_live /\ h \in Targets) PROVE Memory!Next
    <3>1. vram' = vram /\ seen' = [at |-> h, px |-> vram[h]]
      BY <2>2 DEF Lock, Flip, BringIn, guest
    <3>2. \A k \in Handles : Alike(k)
      BY <1>1, <2>1, <3>1, AlikeStill
    <3>3. Quiet(h)
      <4>1. CASE ~ctx_live
        BY <1>0, <4>1 DEF QuietWhen
      <4>2. CASE h \notin Targets
        BY <1>0, <4>2 DEF Copies, Aims, Quiet, Has
      <4> QED
        BY <2>2, <4>1, <4>2
    <3>4. ~InFrame(h) /\ Over(h) = {} /\ Shown(h) = vram[h]
      BY <3>3 DEF InFrame, Over, Shown, Quiet
    <3>5. ~InFrame(h)' /\ Over(h)' = {} /\ Shown(h)' = Shown(h)
      BY <3>2, <3>4 DEF Alike
    <3> QED
      BY <1>1, <3>1, <3>2, <3>4, <3>5, MapAgree
  <2>3. ASSUME NEW h \in Handles, NEW p \in Px, ProgramWrites(h, p) PROVE Memory!Next
    BY <1>1, <2>1, <2>3, WriteMaps DEF ProgramWrites, Unseen
  <2>4. ASSUME NEW c \in Contexts, NEW h \in Handles, NEW p \in Px, StreamBlits(c, h, p) PROVE Memory!Next
    BY <1>1, <2>1, <2>4, WriteMaps DEF StreamBlits, Unseen
  <2>5. CASE vram' = vram /\ seen' = Nothing
    <3>1. \A k \in Handles : Alike(k)
      BY <1>1, <2>1, <2>5, AlikeStill
    <3> QED
      BY <1>1, <2>5, <3>1, MapInside
  <2> QED
    BY <1>4, <2>2, <2>3, <2>4, <2>5, GuestKinds
<1> QED
  BY <1>2, <1>3, <1>4
(* The record that is run leaves the batch. *)
LEMMA HasHost ==
  ASSUME MemInv, Executor, batch # <<>>, NEW op, NEW k
  PROVE  Has(op, k) <=> Has(op, k)' \/ (Of(op) /\ Head(batch).h = k)
<1>1. batch' = Tail(batch) /\ Range(batch) = {Head(batch)} \cup Range(Tail(batch))
  BY HeadFacts, ExecutorFrame DEF MemInv, TablesInv
<1> QED
  BY <1>1 DEF Has, Of

(* What is made, dropped, marked or sampled looks as it did. *)
LEMMA AlikeHost ==
  ASSUME MemInv, MemInv', Executor, batch # <<>>, NEW k \in Handles,
         Stays(k) \/ Made(k) \/ Dropped(k) \/ Marked(k) \/ Samples(k)
  PROVE  Alike(k)
<1>0. TypeOK /\ Copies /\ ClearIsTold /\ QuietWhen /\ Order
  BY DEF MemInv, TablesInv
<1>1. vram'[k] = vram[k]
  <2>1. ~Brought(k)
    BY Zenon DEF Brought, Stays, Aimed, Made, Dropped, Marked, Samples, Of
  <2> QED
    BY <2>1, SurfaceMoves
<1>2. ASSUME ~Of("CLEAR") \/ Head(batch).h # k, ~Of("RELEASE") \/ Head(batch).h # k
      PROVE  (Has("CLEAR", k)' <=> Has("CLEAR", k)) /\ (Has("RELEASE", k)' <=> Has("RELEASE", k))
  BY <1>2, HasHost
<1>3. ASSUME ~surf[k].rendered, ~surf'[k].rendered, ~InFrame(k), ~InFrame(k)' PROVE Alike(k)
  BY <1>1, <1>3 DEF Alike, Shown, Over
<1>4. CASE Stays(k)
  <2>1. (Has("CLEAR", k)' <=> Has("CLEAR", k)) /\ (Has("RELEASE", k)' <=> Has("RELEASE", k))
    BY <1>2, <1>4, HeadHas DEF Stays, Aimed
  <2> QED
    BY <1>1, <1>4, <2>1, AlikeStill DEF Stays
<1>5. CASE Made(k)
  <2>1. Of("SURFACE") /\ ~surf[k].known
    BY <1>5 DEF Made
  <2>2. ~surf[k].rendered /\ ~Has("CLEAR", k)
    BY <1>0, <2>1 DEF Copies, ClearIsTold, Has
  <2>3. ~surf'[k].rendered
    BY <1>0, <1>5, Fields
  <2>4. ~Has("CLEAR", k)'
    BY <2>2, HasHost
  <2> QED
    BY <1>3, <2>2, <2>3, <2>4 DEF InFrame, Quiet
<1>6. CASE Dropped(k)
  <2>1. Of("RELEASE") /\ Head(batch).h = k
    BY <1>6 DEF Dropped
  <2>2. ~surf'[k].rendered
    BY <1>0, <1>6, Fields
  <2>3. Has("RELEASE", k) /\ ~Has("CLEAR", k)'
    <3>1. batch' = Tail(batch) /\ \A s \in Range(Tail(batch)) : s.op # "CLEAR"
      BY <1>0, HeadFacts, ExecutorFrame
    <3>2. Has("RELEASE", k)
      BY <2>1, HasHost
    <3>3. ~Has("CLEAR", k)'
      BY <3>1 DEF Has
    <3> QED
      BY <3>2, <3>3
  <2>4. ~InFrame(k) /\ ~InFrame(k)'
    BY <2>2, <2>3 DEF InFrame, Quiet
  <2>5. Shown(k) = vram[k] /\ Shown(k)' = vram'[k]
    BY <2>2, <2>3 DEF Shown
  <2> QED
    BY <1>1, <2>4, <2>5 DEF Alike, Over
<1>7. CASE Marked(k)
  <2>1. Of("DIRTY") /\ Head(batch).h = k
    BY <1>7 DEF Marked
  <2>2. Quiet(k) /\ ~Has("CLEAR", k)'
    <3>1. Has("DIRTY", k)
      BY <2>1, HasHost
    <3>2. Quiet(k)
      BY <1>0, <3>1 DEF QuietWhen
    <3> QED
      BY <3>2, HasHost DEF Quiet
  <2>3. ~surf'[k].rendered
    BY <1>0, <1>7, Fields
  <2> QED
    BY <1>3, <2>2, <2>3 DEF InFrame, Quiet
<1>8. CASE Samples(k)
  <2>1. Of("DP2_MAP") \/ Of("DP2_DRAW")
    BY <1>8 DEF Samples
  <2>2. ~Of("CLEAR") /\ ~Of("RELEASE")
    BY <2>1 DEF Of
  <2>3. (Has("CLEAR", k)' <=> Has("CLEAR", k)) /\ (Has("RELEASE", k)' <=> Has("RELEASE", k))
    BY <1>2, <2>2
  <2>4. CASE ~surf[k].dirty
    <3>1. surf'[k] = surf[k]
      BY <1>0, <1>8, <2>4, Fields
    <3> QED
      BY <1>1, <2>3, <3>1, AlikeStill
  <2>5. CASE surf[k].dirty
    <3>1. ~surf[k].rendered /\ surf'[k].rendered = surf[k].rendered
      BY <1>0, <1>8, <2>5, Fields DEF Copies
    <3>2. ~Has("CLEAR", k)
      <4>1. Tail(batch) = <<>> /\ Range(batch) = {Head(batch)} \cup Range(Tail(batch)) /\ Range(Tail(batch)) = {}
        BY <1>0, <2>1, HeadFacts DEF Of, Closing, Tokens
      <4> QED
        BY <2>1, <4>1 DEF Has, Of
    <3> QED
      BY <1>3, <2>3, <3>1, <3>2 DEF InFrame, Quiet
  <2> QED
    BY <2>4, <2>5
<1> QED
  BY <1>4, <1>5, <1>6, <1>7, <1>8
(* A target that a frame begins on holds what it held. *)
LEMMA BeginMaps ==
  ASSUME MemInv, MemInv', Executor, NEW h \in Handles, Begins(h), \A k \in Handles \ {h} : Alike(k)
  PROVE  Memory!Next
<1>0. TypeOK /\ Copies /\ Order
  BY DEF MemInv, TablesInv
<1>1. Views /\ Views'
  BY ViewsHold, ViewsNext
<1>2. /\ (Of("DP2") /\ hctx[Head(batch).c] = h) \/ (Of("DP2_TARGET") /\ Head(batch).h = h)
      /\ surf[h].known /\ batch # <<>>
  <2>1. \A op : Of(op) => batch # <<>>
    BY DEF Of
  <2> QED
    BY <2>1, Zenon DEF Begins
<1>3. /\ seen' = Nothing /\ vram'[h] = vram[h] /\ h \in Targets
      /\ \A k : ~Has("CLEAR", k) /\ ~Has("RELEASE", k) /\ ~Has("CLEAR", k)' /\ ~Has("RELEASE", k)'
  <2>1. ~Of("READBACK") /\ ~Of("DP2_DRAW") /\ ~Of("CLEAR") /\ ~Of("RELEASE")
    BY <1>2 DEF Of
  <2>2. h \in Targets
    BY <1>2, HeadHas
  <2>3. \A s \in Range(Tail(batch)) : s.op # "CLEAR" /\ s.op # "RELEASE"
    <3>1. CASE Of("DP2")
      BY <3>1, HeadHas DEF Tokens
    <3>2. CASE Of("DP2_TARGET")
      BY <3>2, HeadHas
    <3> QED
      BY <1>2, <3>1, <3>2
  <2>4. batch' = Tail(batch)
    BY <1>2, ExecutorFrame
  <2>5. \A k : ~Has("CLEAR", k)' /\ ~Has("RELEASE", k)'
    BY <2>3, <2>4 DEF Has
  <2>6. \A k : ~Has("CLEAR", k) /\ ~Has("RELEASE", k)
    BY <1>2, <2>1, <2>5, HasHost
  <2>7. seen' = Nothing /\ vram' = vram
    BY <2>1, ExecutorFrame
  <2> QED
    BY <2>2, <2>5, <2>6, <2>7
<1>4. /\ surf'[h].rendered = TRUE
      /\ IF surf[h].dirty \/ (~surf[h].checked /\ shadow_diff(h) # {})
           THEN Uploaded(h)
           ELSE Kept(h) /\ surf'[h].tex = surf[h].tex
  BY <1>0, Fields
<1>5. /\ surf[h].rendered = surf[h].checked
      /\ surf[h].rendered => ~surf[h].dirty
      /\ ~surf[h].dirty /\ ~surf[h].rendered => surf[h].hasShadow /\ surf[h].shadow = surf[h].tex
  BY <1>0, <1>2, <1>3 DEF Copies
<1>6. /\ InFrame(h)' /\ (InFrame(h) <=> surf[h].rendered)
      /\ Shown(h)' = Merged(h)' /\ Shown(h) = IF surf[h].rendered THEN Merged(h) ELSE vram[h]
      /\ Over(h)' = shadow_diff(h)' /\ Over(h) = IF surf[h].rendered THEN shadow_diff(h) ELSE {}
  BY <1>3, <1>4 DEF InFrame, Quiet, Shown, Over
<1>7. vram[h] \in [Px -> Values] /\ surf[h].tex \in [Px -> Values] /\ surf[h].shadow \in [Px -> Values]
  BY <1>0, SurfaceTypes DEF Pictures
<1>8. Shown(h)' = Shown(h) /\ Over(h)' = Over(h)
  <2>1. CASE Uploaded(h) /\ ~surf[h].rendered
    <3>1. surf'[h].tex = vram[h] /\ surf'[h].shadow = vram[h]
      BY <2>1 DEF Uploaded
    <3>2. shadow_diff(h)' = {}
      BY <1>3, <3>1 DEF shadow_diff
    <3>3. Merged(h)' = vram[h]
      BY <1>7, <3>1, <3>2 DEF Merged
    <3> QED
      BY <1>6, <2>1, <3>2, <3>3
  <2>2. CASE Kept(h) /\ surf'[h].tex = surf[h].tex
    <3>1. shadow_diff(h)' = shadow_diff(h)
      BY <1>3, <2>2 DEF shadow_diff, Kept
    <3>2. Merged(h)' = Merged(h)
      BY <1>3, <2>2, <3>1 DEF Merged
    <3>3. ~surf[h].rendered => shadow_diff(h) = {} \/ Uploaded(h)
      BY <1>4, <1>5
    <3>4. ASSUME ~surf[h].rendered, shadow_diff(h) = {}, ~surf[h].dirty PROVE Merged(h) = vram[h]
      <4>1. surf[h].hasShadow /\ surf[h].shadow = surf[h].tex
        BY <1>5, <3>4
      <4>2. \A p \in Px : vram[h][p] = surf[h].shadow[p]
        BY <3>4, <4>1 DEF shadow_diff
      <4>3. vram[h] = surf[h].tex
        BY <1>7, <4>1, <4>2
      <4> QED
        BY <1>0, <3>4, <4>3, MergedAgain
    <3>5. ~surf[h].rendered /\ surf[h].dirty => Uploaded(h)
      BY <1>4
    <3> QED
      BY <1>6, <2>1, <3>1, <3>2, <3>3, <3>4, <3>5
  <2>3. surf[h].rendered => Kept(h) /\ surf'[h].tex = surf[h].tex
    BY <1>4, <1>5
  <2> QED
    BY <1>4, <2>1, <2>2, <2>3
<1>9. Shown(h)' = [p \in Px |-> IF p \in {} \ Over(h) THEN 0 ELSE Shown(h)[p]]
  <2>1. Shown(h) \in [Px -> Values]
    BY <1>1 DEF Views, Pictures
  <2> QED
    BY <1>8, <2>1
<1> QED
  BY <1>1, <1>3, <1>6, <1>8, <1>9, MapRender, Constants
(* What the host draws goes under what the guest wrote. *)
LEMMA PaintMaps ==
  ASSUME MemInv, MemInv', NEW h \in Handles, \A k \in Handles \ {h} : Alike(k),
         seen' = Nothing \/ \E t \in Handles \ {h} : seen' = [at |-> t, px |-> Shown(t)],
         NEW S \in SUBSET Px, NEW v \in Values, vram'[h] = vram[h], Kept(h), surf'[h].rendered,
         surf'[h].tex = [p \in Px |-> IF p \in S THEN v ELSE surf[h].tex[p]],
         InFrame(h), surf[h].rendered \/ S = Px, ~Has("RELEASE", h)'
  PROVE  Memory!Next
<1>0. TypeOK
  BY DEF MemInv, TablesInv
<1>1. Views /\ Views'
  BY ViewsHold, ViewsNext
<1>2. shadow_diff(h)' = shadow_diff(h) /\ shadow_diff(h) \subseteq Px
  BY DEF shadow_diff, Kept
<1>3. InFrame(h)' /\ Over(h) = shadow_diff(h) /\ Over(h)' = shadow_diff(h)
  BY <1>2 DEF InFrame, Over, Quiet
<1>4. Shown(h)' = [p \in Px |-> IF p \in shadow_diff(h) THEN vram[h][p]
                               ELSE IF p \in S THEN v ELSE surf[h].tex[p]]
  <2>1. Shown(h)' = Merged(h)'
    BY DEF Shown
  <2>2. Merged(h)' = [p \in Px |-> IF p \in shadow_diff(h) THEN vram[h][p] ELSE surf'[h].tex[p]]
    BY <1>2 DEF Merged
  <2> QED
    BY <2>1, <2>2
<1>5. /\ surf[h].rendered => Shown(h) = [p \in Px |-> IF p \in shadow_diff(h) THEN vram[h][p] ELSE surf[h].tex[p]]
      /\ ~surf[h].rendered => Shown(h) = vram[h]
  BY DEF Shown, Merged, InFrame
<1>6. Shown(h)' = [p \in Px |-> IF p \in S \ Over(h) THEN v ELSE Shown(h)[p]]
  BY <1>2, <1>3, <1>4, <1>5
<1> QED
  BY <1>1, <1>3, <1>6, MapRender

LEMMA HostMaps ==
  ASSUME MemInv, MemInv', Executor
  PROVE  Memory!Next
<1>0. TypeOK /\ Order /\ Copies /\ Aims /\ TexturesTrue
  BY DEF MemInv, TablesInv
<1>1. Views /\ Views'
  BY ViewsHold, ViewsNext
<1>2. CASE batch = <<>>
  <2>1. UNCHANGED <<vram, surf>> /\ batch' = batch /\ seen' = Nothing
    BY <1>2, ExecutorFrame
  <2>2. \A k : (Has("CLEAR", k)' <=> Has("CLEAR", k)) /\ (Has("RELEASE", k)' <=> Has("RELEASE", k))
    BY <2>1 DEF Has
  <2>3. \A k \in Handles : Alike(k)
    BY <2>1, <2>2, AlikeStill
  <2> QED
    BY <1>1, <2>1, <2>3, MapInside
<1> SUFFICES ASSUME batch # <<>> PROVE Memory!Next
  BY <1>2
<1>3. \A k \in Handles : Moves(k) /\ vram'[k] = IF Brought(k) THEN Merged(k) ELSE vram[k]
  BY SurfaceMoves
<1>4. \A k \in Handles : Stays(k) \/ Made(k) \/ Dropped(k) \/ Marked(k) \/ Samples(k) => Alike(k)
  BY AlikeHost
<1>5. CASE Of("READBACK")
  <2>1. PICK h \in Handles : h = Head(batch).h
    BY <1>0, <1>5, HeadHas, RecordType DEF Of, Named
  <2>2. \A k \in Handles : Stays(k) \/ Brought(k)
    BY <1>3, <1>5, Zenon DEF Moves, Made, Dropped, Marked, Cleared, Begins, Draws, Samples, Of
  <2>3. \A k \in Handles \ {h} : Alike(k)
    BY <1>4, <2>1, <2>2 DEF Brought
  <2>4. \A k : ~Has("CLEAR", k) /\ ~Has("RELEASE", k) /\ ~Has("CLEAR", k)' /\ ~Has("RELEASE", k)'
    <3>1. Range(Tail(batch)) = {} /\ batch' = Tail(batch)
      BY <1>5, HeadHas, ExecutorFrame
    <3>2. \A k : ~Has("CLEAR", k)' /\ ~Has("RELEASE", k)'
      BY <3>1 DEF Has
    <3> QED
      BY <1>5, <3>2, HasHost DEF Of
  <2>5. seen' = IF Head(batch).look THEN [at |-> h, px |-> vram'[h]] ELSE Nothing
    BY <1>5, <2>1, Zenon DEF Executor, RunSurface, RunRelease, RunDirty, RunReadback, RunCtxCreate, RunCtxDestroy,
       RunCtxSetRt, RunClear, RunDp2, RunDp2Map, RunDp2Draw, RunDp2Target, Return, Runs, Of
  <2>6. vram'[h] = Shown(h) /\ ~surf'[h].rendered
    <3>1. CASE Brought(h)
      BY <1>0, <1>3, <2>4, <3>1, Fields DEF Shown, Brought
    <3>2. CASE Stays(h)
      <4>1. ~surf[h].rendered /\ ~Brought(h)
        BY <1>5, <2>1, <3>2, Zenon DEF Stays, Aimed, Brought
      <4> QED
        BY <1>3, <3>2, <4>1 DEF Shown, Stays
    <3> QED
      BY <2>2, <3>1, <3>2
  <2>7. ~InFrame(h)' /\ Over(h)' = {} /\ Shown(h)' = Shown(h)
    BY <2>4, <2>6 DEF InFrame, Quiet, Over, Shown
  <2> QED
    BY <1>1, <2>3, <2>5, <2>6, <2>7, MapAgree
<1>6. CASE Of("CLEAR")
  <2>1. PICK h \in Handles : h = Head(batch).h /\ hctx[Head(batch).c] = h
    BY <1>6, HeadHas
  <2>2. Cleared(h) /\ \A k \in Handles \ {h} : Stays(k)
    <3>1. \A k \in Handles : Stays(k) \/ Cleared(k)
      BY <1>3, <1>6, Zenon DEF Moves, Made, Dropped, Marked, Brought, Begins, Draws, Samples, Of
    <3> QED
      BY <1>6, <2>1, <3>1, Zenon DEF Stays, Aimed, Cleared
  <2>3. \A k \in Handles \ {h} : Alike(k)
    BY <1>4, <2>2
  <2>4. seen' = Nothing /\ vram'[h] = vram[h]
    BY <1>3, <1>6, ExecutorFrame DEF Of, Brought
  <2>5. /\ Kept(h) /\ surf'[h].rendered = TRUE /\ surf'[h].tex = [p \in Px |-> Head(batch).v]
        /\ Head(batch).v \in Values
    BY <1>0, <1>6, <2>2, Fields, HeadHas, RecordType
  <2>6. Has("CLEAR", h) /\ (Has("RELEASE", h)' <=> Has("RELEASE", h))
    BY <1>6, <2>1, HasHost DEF Of
  <2>7. CASE Has("RELEASE", h)
    <3>1. Alike(h)
      BY <2>4, <2>6, <2>7 DEF Alike, Shown, Over, InFrame
    <3> QED
      BY <1>1, <2>3, <2>4, <3>1, MapInside
  <2>8. CASE ~Has("RELEASE", h)
    <3>1. InFrame(h)
      BY <2>6, <2>8 DEF InFrame, Quiet
    <3> HIDE DEF MemInv, Alike, Kept, InFrame, Has
    <3>2. PICK v \in Values : v = Head(batch).v
      BY <2>5
    <3>3. surf'[h].tex = [p \in Px |-> IF p \in Px THEN v ELSE surf[h].tex[p]]
      BY <2>5, <3>2
    <3>4. Px \in SUBSET Px /\ ~Has("RELEASE", h)' /\ surf'[h].rendered
      BY <2>5, <2>6, <2>8
    <3> QED
      BY <2>3, <2>4, <2>5, <3>1, <3>3, <3>4, PaintMaps
  <2> QED
    BY <2>7, <2>8
<1>7. CASE Of("DP2") \/ Of("DP2_TARGET")
  <2>1. \A k \in Handles : Stays(k) \/ Begins(k)
    BY <1>3, <1>7, Zenon DEF Moves, Made, Dropped, Marked, Brought, Cleared, Draws, Samples, Of
  <2>2. PICK h \in Handles : Begins(h) /\ \A k \in Handles \ {h} : ~Begins(k)
    <3>1. CASE Of("DP2")
      <4>1. PICK h \in Handles : hctx[Head(batch).c] = h
        BY <3>1, HeadHas, Constants
      <4>2. Begins(h)
        BY <2>1, <3>1, <4>1, Zenon DEF Stays, Aimed
      <4>3. ~Of("DP2_TARGET")
        BY <3>1 DEF Of
      <4> QED
        BY <4>1, <4>2, <4>3 DEF Begins
    <3>2. CASE Of("DP2_TARGET")
      <4>1. PICK h \in Handles : Head(batch).h = h
        BY <3>2, HeadHas, Constants
      <4>2. Begins(h)
        BY <2>1, <3>2, <4>1, Zenon DEF Stays, Aimed
      <4>3. ~Of("DP2")
        BY <3>2 DEF Of
      <4> QED
        BY <4>1, <4>2, <4>3 DEF Begins
    <3> QED
      BY <1>7, <3>1, <3>2
  <2>3. \A k \in Handles \ {h} : Alike(k)
    BY <1>4, <2>1, <2>2
  <2> QED
    BY <2>2, <2>3, BeginMaps
<1>8. CASE Of("DP2_DRAW")
  <2>1. PICK h \in Handles : hctx[Head(batch).c] = h
    BY <1>8, DrawApart
  <2>2. \A k \in Handles : Stays(k) \/ Draws(k) \/ Samples(k)
    BY <1>3, <1>8, Zenon DEF Moves, Made, Dropped, Marked, Brought, Cleared, Begins, Of
  <2>3. /\ surf[h].rendered /\ Range(Tail(batch)) = {} /\ batch' = Tail(batch)
        /\ stage # NoSurface => stage \in Handles /\ stage # h /\ stage \notin locked
        /\ h # NoSurface
    BY <1>8, <2>1, DrawApart, ExecutorFrame
  <2>4. ~Of("DP2_MAP") /\ ~Of("READBACK") /\ ~Of("CLEAR") /\ ~Of("RELEASE") /\ ~Of("DIRTY")
    BY <1>8 DEF Of
  <2>5. Draws(h) /\ \A k \in Handles \ {h} : ~Draws(k)
    <3>1. ~Stays(h) /\ ~Samples(h)
      BY <1>8, <2>1, <2>3, <2>4, Zenon DEF Stays, Aimed, Samples
    <3> QED
      BY <2>1, <2>2, <3>1, Zenon DEF Draws
  <2>6. \A k \in Handles \ {h} : Alike(k)
    BY <1>4, <2>2, <2>5
  <2>7. \A k, op : op \in {"CLEAR", "RELEASE", "DIRTY"} => ~Has(op, k) /\ ~Has(op, k)'
    <3>1. \A k, op : ~Has(op, k)'
      BY <2>3 DEF Has
    <3> QED
      BY <2>4, <3>1, HasHost
  <2>8. vram'[h] = vram[h] /\ InFrame(h)
    BY <1>3, <2>3, <2>4, <2>7 DEF Brought, InFrame, Quiet
  <2>9. seen' = Nothing \/ \E t \in Handles \ {h} : seen' = [at |-> t, px |-> Shown(t)]
    <3>1. CASE stage = NoSurface
      BY <1>8, <3>1, Zenon DEF Executor, RunSurface, RunRelease, RunDirty, RunReadback, RunCtxCreate, RunCtxDestroy,
         RunCtxSetRt, RunClear, RunDp2, RunDp2Map, RunDp2Draw, RunDp2Target, Return, Runs, Of, Unseen
    <3>2. CASE stage # NoSurface
      <4>1. PICK t \in Handles \ {h} : t = stage
        BY <2>3, <3>2
      <4>2. Samples(t)
        <5>1. ~Stays(t) /\ ~Draws(t)
          BY <1>8, <2>5, <4>1, Zenon DEF Stays, Aimed
        <5> QED
          BY <2>2, <5>1
      <4>3. seen' = [at |-> t, px |-> surf'[t].tex]
        BY <2>4, <4>2 DEF Samples
      <4>4. surf'[t].tex = Shown(t)
        <5>1. CASE surf[t].dirty
          <6>1. surf'[t].tex = vram[t] /\ ~surf[t].rendered
            BY <1>0, <4>2, <5>1, Fields DEF Copies, Uploaded
          <6> QED
            BY <6>1 DEF Shown
        <5>2. CASE ~surf[t].dirty
          <6>1. surf'[t] = surf[t] /\ t \in Textures \ locked /\ surf[t].known
            BY <1>0, <2>3, <3>2, <4>1, <4>2, <5>2, Fields DEF Aims
          <6>2. IF surf[t].rendered THEN surf[t].shadow = vram[t] ELSE surf[t].tex = vram[t]
            BY <1>0, <2>7, <5>2, <6>1 DEF TexturesTrue
          <6>3. CASE surf[t].rendered
            <7>1. shadow_diff(t) = {}
              BY <6>2, <6>3 DEF shadow_diff
            <7>2. Merged(t) = surf[t].tex
              BY <1>0, <7>1, MergedAgain
            <7> QED
              BY <2>7, <6>1, <6>3, <7>2 DEF Shown
          <6>4. CASE ~surf[t].rendered
            BY <6>1, <6>2, <6>4 DEF Shown
          <6> QED
            BY <6>3, <6>4
        <5> QED
          BY <5>1, <5>2
      <4> QED
        BY <4>1, <4>3, <4>4
    <3> QED
      BY <3>1, <3>2
  <2>10. PICK S \in SUBSET Px, v \in Values :
           /\ surf'[h].tex = [p \in Px |-> IF p \in S THEN v ELSE surf[h].tex[p]]
           /\ Kept(h) /\ surf'[h].rendered
    <3>1. Head(batch).S \in SUBSET Px /\ Head(batch).v \in Values
      BY <1>8, HeadHas, RecordType
    <3>2. /\ Kept(h) /\ surf'[h].rendered = surf[h].rendered
          /\ surf'[h].tex = [p \in Px |-> IF p \in Head(batch).S THEN Head(batch).v ELSE surf[h].tex[p]]
      BY <1>0, <2>5, Fields
    <3> QED
      BY <2>3, <3>1, <3>2
  <2> QED
    BY <2>3, <2>6, <2>7, <2>8, <2>9, <2>10, PaintMaps
<1>9. CASE ~Of("READBACK") /\ ~Of("CLEAR") /\ ~Of("DP2") /\ ~Of("DP2_TARGET") /\ ~Of("DP2_DRAW")
  <2>1. \A k \in Handles : Alike(k)
    BY <1>3, <1>4, <1>9, Zenon DEF Moves, Brought, Cleared, Begins, Draws
  <2>2. seen' = Nothing
    BY <1>9, ExecutorFrame
  <2> QED
    BY <1>1, <2>1, <2>2, MapInside
<1> QED
  BY <1>5, <1>6, <1>7, <1>8, <1>9
LEMMA MapInit == Init => Memory!Init
<1> SUFFICES ASSUME Init PROVE Memory!Init
  OBVIOUS
<1>1. Views /\ Range(batch) = {} /\ \A h \in Handles : ~surf[h].rendered
  BY InitMemory, ViewsHold DEF Init, Range, Unknown, Fresh
<1>2. \A h \in Handles : ~InFrame(h)
  BY <1>1 DEF InFrame, Quiet, Has
<1>3. Begun = {} /\ Overs = [h \in Handles |-> {}] /\ Mem \in [Handles -> Pictures]
  BY <1>1, <1>2 DEF Views, Begun, Overs, Mem
<1> QED
  BY <1>3 DEF Init, Memory!Init, Memory!Nothing, Memory!Pictures, Nothing, Pictures, Overs, Mem

LEMMA MapNext ==
  ASSUME MemInv, [Next]_vars, [~Departs]_vars
  PROVE  [Memory!Next]_(Memory!vars)
<1>1. MemInv'
  BY MemoryInductive
<1>2. CASE Next /\ ~Departs
  BY <1>1, <1>2, GuestMaps, HostMaps DEF Next
<1>3. CASE UNCHANGED vars
  BY <1>3 DEF vars, guest, host, Memory!vars, Effective, Begun, Released, shadow_diff
<1> QED
  BY <1>2, <1>3

(* For any surfaces, pixels and contexts: the guest's video memory, the    *)
(* host's objects, shadows and flags and the batch between them are one    *)
(* memory.  What is scanned out, locked or sampled is what was written or  *)
(* drawn there last in the program's order, as long as no Clear2 comes     *)
(* over writes that the executor was not told of, and no device goes       *)
(* before its frame was read back (d3dptdisp.c lets both happen).          *)
THEOREM OneMemory == Spec /\ [][~Departs]_vars => ImplementsMemory
<1>1. Init => MemInv
  BY InitMemory
<1>2. MemInv /\ [Next]_vars /\ [~Departs]_vars => MemInv'
  BY MemoryInductive
<1>3. Init => Memory!Init
  BY MapInit
<1>4. MemInv /\ [Next]_vars /\ [~Departs]_vars => [Memory!Next]_(Memory!vars)
  BY MapNext
<1> QED
  BY <1>1, <1>2, <1>3, <1>4, PTL DEF Spec, ImplementsMemory, Memory!Spec
==============================================================================
