---------------------------- MODULE Provider3DProofs ----------------------------
(***************************************************************************)
(* What holds of the host's contexts and of the frames, for every number    *)
(* of levels, pbuffers, buffers and sizes, every program of the guest and   *)
(* every refusal of the host.                                               *)
(*                                                                          *)
(* The parts of the invariant are stated of a world x, a table of levels c  *)
(* and Glide's context l, so that they can also be said in the middle of a  *)
(* call, between one plat_* function and the next.                          *)
(***************************************************************************)
EXTENDS Provider3D, FiniteSetTheorems, FunctionTheorems, WellFoundedInduction, TLAPS

Handles == Contexts \cup {None}

---------------------------------------------------------------------------
(* The books: every context is held once.                                   *)

Tables(x, c, l) ==
  World(x) /\ IsFiniteSet(x.live) /\ c \in [Levels -> Handles] /\ l \in Handles

(* The pbuffers that hold a context. *)
Paged(x) == x.os # "macos"

NoneLost(x, c, l) ==
  \A y \in x.live \ x.lost :
    (\E n \in Levels : c[n] = y) \/ y = l \/ (Paged(x) /\ \E i \in Pbuffers : x.pb[i] = y)

LevelsLive(x, c)   == \A n \in Levels : c[n] # None => c[n] \in x.live
GlideLive(x, l)    == l # None => l \in x.live
PbuffersLive(x)    == Paged(x) => \A i \in Pbuffers : x.pb[i] # None => x.pb[i] \in x.live

LevelsApart(c)     == \A n, m \in Levels : n # m /\ c[n] # None => c[n] # c[m]
GlideApart(c, l)   == l # None => \A n \in Levels : c[n] # l
PbuffersApart(x)   == Paged(x) => \A i, j \in Pbuffers : i # j /\ x.pb[i] # None => x.pb[i] # x.pb[j]
PbuffersBeside(x, c, l) ==
  Paged(x) => \A i \in Pbuffers : x.pb[i] # None => x.pb[i] # l /\ \A n \in Levels : c[n] # x.pb[i]

LostApart(x, c, l) ==
  \A y \in x.lost :
    /\ x.os = "linux" /\ y \in x.live /\ y # l /\ \A n \in Levels : c[n] # y
    /\ Paged(x) => \A i \in Pbuffers : x.pb[i] # y

Share(x, c) == \A n \in Levels : c[0] # None /\ c[n] # None => x.group[c[n]] = x.group[c[0]]

Book(x, c, l) ==
  /\ Tables(x, c, l) /\ NoneLost(x, c, l)
  /\ LevelsLive(x, c) /\ GlideLive(x, l) /\ PbuffersLive(x)
  /\ LevelsApart(c) /\ GlideApart(c, l) /\ PbuffersApart(x) /\ PbuffersBeside(x, c, l)
  /\ LostApart(x, c, l) /\ Share(x, c)

(* A slot of hPbuffer that is not in use has no context, and no context was *)
(* lost, where the host refused Linux nothing.                              *)
FreeAt(x, P, n) ==
  (x.os = "linux" => n = 0) => x.lost = {} /\ (Paged(x) => \A i \in Pbuffers \ P : x.pb[i] = None)
SlotsFree(x, P) == FreeAt(x, P, faults)

BookInv == TypeOK /\ Book(g, ctx, glide_ctx) /\ SlotsFree(g, pbuffers)

---------------------------------------------------------------------------
(* Who has the drawable                                                     *)

CurrentKnown(x) == x.cur \in x.live \cup {None, Gone} /\ (x.os # "linux" => x.cur # Gone)

CurrentShown  == CurrentKnown(g) /\ (g.cur # None => win_ready)

(* Glide has the drawable, and OpenGL has no main context then. *)
GlideAlone ==
  /\ glide_open => glide_ctx # None
  /\ ~shared /\ glide_ctx # None => win_ready /\ ctx[0] = None /\ g.os # "macos"

WindowInv == CurrentShown /\ GlideAlone /\ DesktopComesBack

(* The ring's buffers were named in the main context, or in Glide's. *)
RingNamed(x, c, l) ==
  /\ x.os = "windows" => ~x.zc
  /\ x.zc => \A i \in Slots : x.ring[i].owner \in {None, c[0], l}
RingInv == (~shared => RingNamed(g, ctx, glide_ctx)) /\ RingStaysHome

---------------------------------------------------------------------------
(* The drawable's size                                                      *)

Sized(x, ready, size, back) ==
  /\ size # 0 => back = size
  /\ ~ready => size = 0
  /\ x.os # "macos" => x.win = size
  /\ x.os = "macos" /\ ready => size # 0

(* On Linux and Windows a context of the guest draws in the drawable. *)
Drawing(x, c, l, sz, b) ==
  x.os # "macos" /\ ~b =>
    /\ x.cur # None => sz # 0
    /\ (x.cur # None /\ (x.cur = l \/ \E n \in Levels : c[n] = x.cur)) => x.onwin

(* On macOS each framebuffer is of a context of its own, *)
FbosApart(x) ==
  /\ \A i \in Levels : x.dfbo[i].ctx # None => x.dfbo[i].ctx \in x.live
  /\ \A i, j \in Levels : i # j /\ x.dfbo[i].ctx # None => x.dfbo[i].ctx # x.dfbo[j].ctx
  /\ \A i \in Levels : x.dfbo[i].ctx = None => ~x.dfbo[i].attached /\ x.dfbo[i].size = 0
(* and the current context has one. *)
FboCurrent(x) ==
  x.cur # None => /\ x.cur \in x.live /\ x.cur_dfbo = x.cur
                  /\ \E i \in Levels : x.dfbo[i].ctx = x.cur
(* With a main context, the renderbuffers are of the drawable's size, *)
RbSized(x, sz) == x.cur # None => x.rb.named /\ x.rb.size = sz
(* what they are attached to is so, *)
FbosSized(x) == \A i \in Levels : x.dfbo[i].attached => x.dfbo[i].size = x.rb.size
(* and a framebuffer without them has no size, *)
FbosWhole(x) == \A i \in Levels : x.dfbo[i].size # 0 => x.dfbo[i].attached
(* and counts as incomplete. *)
FboComplete(x) ==
  x.cur # None /\ x.dfbo_ok => \A i \in Levels : x.dfbo[i].ctx = x.cur => x.dfbo[i].attached

Framed(x, c, sz) ==
  /\ FbosApart(x) /\ FboCurrent(x)
  /\ c[0] # None => RbSized(x, sz) /\ FbosSized(x) /\ FbosWhole(x) /\ FboComplete(x)

PictureInv ==
  /\ Sized(g, win_ready, win_size, readback)
  /\ ~shared => Drawing(g, ctx, glide_ctx, win_size, bare)
  /\ ~shared /\ g.os = "macos" => Framed(g, ctx, win_size)
  /\ FrameIsWhole

---------------------------------------------------------------------------
(* The world's functions keep its type, and say what they leave alone.      *)

LEMMA Numbers ==
  /\ 0 \in Levels /\ 1 \in Levels /\ MaxLevels - 1 \in Levels /\ MaxLevels \in Nat /\ MaxLevels > 1
  /\ MaxPbuffers \in Nat /\ ZcSlots \in Nat /\ ZcSlots > 0 /\ 0 \in Slots
  /\ Default # 0 /\ Default \in Sizes /\ 0 \notin Sizes
  /\ Gone # None /\ Gone \notin Contexts /\ None \notin Contexts /\ Contexts \subseteq Nat
BY PlatformAssumption DEF Levels, Slots, Gone, None, Contexts

(* A set of numbers that is not empty has a least one. *)
LEMMA MinOf ==
  ASSUME NEW S \in SUBSET Nat, S # {}
  PROVE  Min(S) \in S /\ \A y \in S : Min(S) <= y
<1>1. PICK x \in S : \A y \in S : ~ (<<y, x>> \in OpToRel(<, Nat))
  BY WFMin, NatLessThanWellFounded
<1>2. \A y \in S : ~ (y < x)
  BY <1>1 DEF OpToRel
<1>3. \A y \in S : x <= y
  BY <1>2
<1>4. QED
  BY <1>3 DEF Min

Fbo == [ctx : Handles, size : Sizes \cup {0}, attached : BOOLEAN]

KeepsBooks(x, y) ==
  /\ y.os = x.os /\ y.live = x.live /\ y.group = x.group /\ y.lost = x.lost
  /\ Paged(x) => y.pb = x.pb

LEMMA UnbindType == ASSUME NEW x, World(x) PROVE World(Unbind(x))
BY Numbers DEF World, Unbind

LEMMA UnbindBooks == ASSUME NEW x, World(x) PROVE KeepsBooks(x, Unbind(x))
BY DEF World, Unbind, KeepsBooks

LEMMA RingFreedType == ASSUME NEW x, World(x) PROVE World(RingFreed(x))
BY Numbers DEF World, RingFreed, NoSlot

LEMMA RingFreedBooks == ASSUME NEW x, World(x) PROVE KeepsBooks(x, RingFreed(x))
BY DEF World, RingFreed, KeepsBooks

LEMMA RbForgottenType == ASSUME NEW x, World(x) PROVE World(RbForgotten(x))
<1> DEFINE d == [i \in Levels |-> [x.dfbo[i] EXCEPT !.attached = FALSE]]
<1>1. d \in [Levels -> Fbo]
  BY DEF World, Fbo, Handles
<1>2. NoRb \in [named : BOOLEAN, size : Sizes \cup {0}, groups : SUBSET Contexts]
  BY DEF NoRb
<1>3. [i \in Pbuffers |-> None] \in [Pbuffers -> Contexts \cup {None, Gone}]
  OBVIOUS
<1> HIDE DEF d
<1>4. RbForgotten(x) = [x EXCEPT !.rb = NoRb, !.dfbo = d, !.pb = [i \in Pbuffers |-> None]]
  BY DEF RbForgotten, World, d
<1>5. QED
  BY <1>1, <1>2, <1>3, <1>4 DEF World, Fbo, Handles

LEMMA RbForgottenBooks ==
  ASSUME NEW x, World(x), x.os = "macos" PROVE KeepsBooks(x, RbForgotten(x))
BY DEF World, RbForgotten, KeepsBooks, Paged

(* What is left of a world without the contexts in C. *)
Without(x, y, C) ==
  /\ y.os = x.os /\ y.live = x.live \ C /\ y.lost = x.lost
  /\ \A d \in y.live : y.group[d] = x.group[d]
  /\ Paged(x) => \A i \in Pbuffers : y.pb[i] = IF x.pb[i] \in C THEN Gone ELSE x.pb[i]

LEMMA BuriedType == ASSUME NEW x, World(x), NEW C PROVE World(Buried(x, C))
<1> DEFINE left == x.live \ C
           Name(h) == IF h \in C THEN Gone ELSE h
           group == [d \in left |-> x.group[d]]
           pb == [i \in Pbuffers |-> Name(x.pb[i])]
           ring == [i \in Slots |-> [x.ring[i] EXCEPT !.owner = Name(x.ring[i].owner)]]
           groups == x.rb.groups \cap {x.group[d] : d \in left}
           dfbo == [i \in Levels |-> IF x.dfbo[i].ctx \in C THEN NoFbo ELSE x.dfbo[i]]
<1>1. left \in SUBSET Contexts /\ group \in [left -> Contexts]
  BY DEF World
<1>2. pb \in [Pbuffers -> Contexts \cup {None, Gone}]
  BY DEF World
<1>3. ring \in [Slots -> [owner : Contexts \cup {None, Gone}, size : Sizes \cup {0}]]
  BY DEF World
<1>4. groups \in SUBSET Contexts
  BY DEF World
<1>5. dfbo \in [Levels -> Fbo]
  BY DEF World, Fbo, Handles, NoFbo
<1>6. Name(x.cur_dfbo) \in Contexts \cup {None, Gone}
  BY DEF World
<1>7. Buried(x, C) = [x EXCEPT !.live = left, !.group = group, !.pb = pb, !.cur_dfbo = Name(x.cur_dfbo),
                               !.ring = ring, !.rb.groups = groups, !.dfbo = dfbo]
  BY DEF Buried
<1> HIDE DEF left, Name, group, pb, ring, groups, dfbo
<1>8. [x.rb EXCEPT !.groups = groups] \in [named : BOOLEAN, size : Sizes \cup {0}, groups : SUBSET Contexts]
  BY <1>4 DEF World
<1>9. Buried(x, C) = [x EXCEPT !.live = left, !.group = group, !.pb = pb, !.cur_dfbo = Name(x.cur_dfbo),
                               !.ring = ring, !.rb = [x.rb EXCEPT !.groups = groups], !.dfbo = dfbo]
  BY <1>7 DEF World
<1> DEFINE x1 == [x EXCEPT !.live = left, !.group = group]
           x2 == [x1 EXCEPT !.pb = pb, !.cur_dfbo = Name(x.cur_dfbo)]
           x3 == [x2 EXCEPT !.ring = ring, !.rb = [x.rb EXCEPT !.groups = groups]]
<1>10. World(x1)
  BY <1>1 DEF World
<1> HIDE DEF x1
<1>11. World(x2)
  BY <1>2, <1>6, <1>10 DEF World
<1> HIDE DEF x2
<1>12. World(x3)
  BY <1>3, <1>8, <1>11 DEF World
<1> HIDE DEF x3
<1>13. World([x3 EXCEPT !.dfbo = dfbo])
  BY <1>5, <1>12 DEF World, Fbo, Handles
<1>14. QED
  BY <1>9, <1>13 DEF x1, x2, x3

LEMMA BuriedWithout == ASSUME NEW x, World(x), NEW C PROVE Without(x, Buried(x, C), C)
BY DEF World, Buried, Without
LEMMA DestroyType == ASSUME NEW x, World(x), NEW C, NEW main PROVE World(CtxDestroy(x, C, main))
<1> DEFINE f == IF main \in C /\ x.os # "windows" THEN RingFreed(x) ELSE x
           n == IF main \in C /\ x.os = "macos" THEN RbForgotten(f) ELSE f
           d == Buried(n, C \ {None})
<1>1. World(f)
  BY RingFreedType
<1> HIDE DEF f
<1>2. World(n)
  BY <1>1, RbForgottenType
<1> HIDE DEF n
<1>3. World(d)
  BY <1>2, BuriedType
<1>4. CtxDestroy(x, C, main) =
        IF x.cur \notin C THEN d
        ELSE IF x.os = "linux" THEN [d EXCEPT !.cur = IF d.cur = None THEN None ELSE Gone] ELSE Unbind(d)
  BY DEF CtxDestroy, f, n, d
<1> HIDE DEF d
<1>5. World([d EXCEPT !.cur = IF d.cur = None THEN None ELSE Gone])
  BY <1>3 DEF World
<1>6. World(Unbind(d))
  BY <1>3, UnbindType
<1>7. QED
  BY <1>3, <1>4, <1>5, <1>6

(* What a destruction leaves: of the current context, *)
Loses(x, y, C) ==
  /\ y.cur = IF x.cur \in C /\ x.cur # None THEN (IF x.os = "linux" THEN Gone ELSE None) ELSE x.cur
  /\ x.cur \notin C => y.onwin = x.onwin /\ y.dfbo_ok = x.dfbo_ok
  /\ x.cur \notin C /\ x.cur_dfbo \notin C \ {None} => y.cur_dfbo = x.cur_dfbo
  /\ y.win = x.win /\ y.zc = x.zc

(* of the ring, *)
LosesRing(x, y, C, main) ==
  \A i \in Slots :
    IF main \in C /\ x.os # "windows" THEN y.ring[i] = NoSlot
    ELSE y.ring[i].owner = IF x.ring[i].owner \in C \ {None} THEN Gone ELSE x.ring[i].owner

(* and on macOS of the framebuffers. *)
LosesFbos(x, y, C, main) ==
  /\ \A i \in Levels :
       IF x.dfbo[i].ctx \in C \ {None} THEN y.dfbo[i] = NoFbo
       ELSE /\ y.dfbo[i].ctx = x.dfbo[i].ctx /\ y.dfbo[i].size = x.dfbo[i].size
            /\ y.dfbo[i].attached = (x.dfbo[i].attached /\ main \notin C)
  /\ main \notin C => y.rb.named = x.rb.named /\ y.rb.size = x.rb.size

LEMMA DestroyEffect ==
  ASSUME NEW x, World(x), NEW C, NEW main
  PROVE  LET y == CtxDestroy(x, C, main) IN
         /\ Without(x, y, C \ {None}) /\ Loses(x, y, C) /\ LosesRing(x, y, C, main)
         /\ x.os = "macos" => LosesFbos(x, y, C, main)
<1> DEFINE f == IF main \in C /\ x.os # "windows" THEN RingFreed(x) ELSE x
           n == IF main \in C /\ x.os = "macos" THEN RbForgotten(f) ELSE f
           d == Buried(n, C \ {None})
           y == CtxDestroy(x, C, main)
<1>1. World(f)
  BY RingFreedType
<1>2. KeepsBooks(x, f) /\ f.cur = x.cur /\ f.onwin = x.onwin /\ f.win = x.win /\ f.zc = x.zc
      /\ f.cur_dfbo = x.cur_dfbo /\ f.dfbo_ok = x.dfbo_ok /\ f.dfbo = x.dfbo /\ f.rb = x.rb
  BY DEF RingFreed, World, KeepsBooks
<1>3. \A i \in Slots : f.ring[i] = IF main \in C /\ x.os # "windows" THEN NoSlot ELSE x.ring[i]
  BY DEF RingFreed, World
<1> HIDE DEF f
<1>4. World(n)
  BY <1>1, RbForgottenType
<1>5. KeepsBooks(x, n)
  BY <1>1, <1>2, RbForgottenBooks DEF KeepsBooks, Paged
<1>6. n.cur = x.cur /\ n.onwin = x.onwin /\ n.win = x.win /\ n.zc = x.zc /\ n.ring = f.ring
      /\ n.cur_dfbo = x.cur_dfbo /\ n.dfbo_ok = x.dfbo_ok
  BY <1>1, <1>2 DEF RbForgotten, World
<1>7. ASSUME x.os = "macos", NEW i \in Levels
      PROVE  /\ n.dfbo[i].ctx = x.dfbo[i].ctx /\ n.dfbo[i].size = x.dfbo[i].size
             /\ n.dfbo[i].attached = (x.dfbo[i].attached /\ main \notin C)
  <2>1. CASE main \in C
    <3>1. n = RbForgotten(f)
      BY <1>7, <2>1
    <3>2. RbForgotten(f).dfbo = [j \in Levels |-> [f.dfbo[j] EXCEPT !.attached = FALSE]]
      BY <1>1 DEF RbForgotten, World
    <3>3. n.dfbo = [j \in Levels |-> [x.dfbo[j] EXCEPT !.attached = FALSE]]
      BY <1>2, <3>1, <3>2, Zenon
    <3> HIDE DEF n
    <3>4. n.dfbo[i] = [x.dfbo[i] EXCEPT !.attached = FALSE]
      BY <1>7, <3>3
    <3>5. QED
      BY <2>1, <3>4 DEF World
  <2>2. CASE main \notin C
    <3>1. n.dfbo[i] = x.dfbo[i]
      BY <1>2, <2>2
    <3>2. x.dfbo[i].attached \in BOOLEAN
      BY DEF World
    <3>3. QED
      BY <2>2, <3>1, <3>2
  <2>3. QED
    BY <2>1, <2>2
<1>8. main \notin C => n.rb = x.rb
  BY <1>2
<1> HIDE DEF n
<1>9. Without(n, d, C \ {None}) /\ World(d)
  BY <1>4, BuriedWithout, BuriedType
<1>10. d.cur = n.cur /\ d.onwin = n.onwin /\ d.win = n.win /\ d.zc = n.zc /\ d.dfbo_ok = n.dfbo_ok
  BY <1>4 DEF Buried, World
<1>11. d.cur_dfbo = IF n.cur_dfbo \in C \ {None} THEN Gone ELSE n.cur_dfbo
  BY <1>4 DEF Buried, World
<1>12. \A i \in Slots : d.ring[i] = [n.ring[i] EXCEPT !.owner = IF n.ring[i].owner \in C \ {None} THEN Gone ELSE n.ring[i].owner]
  BY <1>4 DEF Buried, World
<1>13. \A i \in Levels : d.dfbo[i] = IF n.dfbo[i].ctx \in C \ {None} THEN NoFbo ELSE n.dfbo[i]
  BY <1>4 DEF Buried, World
<1>14. d.rb.named = n.rb.named /\ d.rb.size = n.rb.size
  BY <1>4 DEF Buried, World
<1>15. y = IF x.cur \notin C THEN d
           ELSE IF x.os = "linux" THEN [d EXCEPT !.cur = IF d.cur = None THEN None ELSE Gone] ELSE Unbind(d)
  BY DEF CtxDestroy, f, n, d
<1> HIDE DEF d, y
<1>16. KeepsBooks(d, y) /\ y.win = d.win /\ y.zc = d.zc /\ y.ring = d.ring /\ y.dfbo = d.dfbo /\ y.rb = d.rb
  BY <1>9, <1>15 DEF Unbind, World, KeepsBooks
<1>17. y.cur = IF x.cur \in C /\ x.cur # None THEN (IF x.os = "linux" THEN Gone ELSE None) ELSE x.cur
  BY <1>6, <1>9, <1>10, <1>15 DEF Unbind, World
<1>18. x.cur \notin C => y = d
  BY <1>15
<1>19. Without(x, y, C \ {None})
  BY <1>5, <1>9, <1>16 DEF Without, KeepsBooks, Paged
<1>20. Loses(x, y, C)
  BY <1>6, <1>10, <1>11, <1>16, <1>17, <1>18 DEF Loses
<1>21. LosesRing(x, y, C, main)
  <2>1. ASSUME NEW i \in Slots
        PROVE  IF main \in C /\ x.os # "windows" THEN y.ring[i] = NoSlot
               ELSE y.ring[i].owner = IF x.ring[i].owner \in C \ {None} THEN Gone ELSE x.ring[i].owner
    <3>1. y.ring[i] = [f.ring[i] EXCEPT !.owner = IF f.ring[i].owner \in C \ {None} THEN Gone ELSE f.ring[i].owner]
      BY <1>6, <1>12, <1>16
    <3>2. f.ring[i] = IF main \in C /\ x.os # "windows" THEN NoSlot ELSE x.ring[i]
      BY <1>3
    <3>3. QED
      BY <3>1, <3>2 DEF World, NoSlot
  <2>2. QED
    BY <2>1 DEF LosesRing
<1>22. ASSUME x.os = "macos" PROVE LosesFbos(x, y, C, main)
  <2>1. main \notin C => y.rb.named = x.rb.named /\ y.rb.size = x.rb.size
    BY <1>8, <1>14, <1>16
  <2>2. ASSUME NEW i \in Levels
        PROVE  IF x.dfbo[i].ctx \in C \ {None} THEN y.dfbo[i] = NoFbo
               ELSE /\ y.dfbo[i].ctx = x.dfbo[i].ctx /\ y.dfbo[i].size = x.dfbo[i].size
                    /\ y.dfbo[i].attached = (x.dfbo[i].attached /\ main \notin C)
    BY <1>7, <1>13, <1>16, <1>22
  <2>3. QED
    BY <2>1, <2>2 DEF LosesFbos
<1>23. QED
  BY <1>19, <1>20, <1>21, <1>22 DEF y
(* The image of a finite set is finite. *)
LEMMA ImageFinite ==
  ASSUME NEW S, IsFiniteSet(S), NEW h
  PROVE  IsFiniteSet({h[z] : z \in S})
<1> DEFINE f == [z \in S |-> h[z]]
<1>1. f \in Surjection(S, {h[z] : z \in S})
  BY DEF Surjection
<1>2. QED
  BY <1>1, FS_Surjection

LEMMA FreshIsNew ==
  ASSUME NEW x, World(x), IsFiniteSet(x.live)
  PROVE  Fresh(x) \in Contexts \ x.live
<1> DEFINE used == x.live \cup {x.group[z] : z \in x.live}
           n == Cardinality(used)
<1>1. IsFiniteSet(used)
  BY ImageFinite, FS_Union
<1>2. n \in Nat
  BY <1>1, FS_CardinalityType
<1> HIDE DEF n
<1>3. Cardinality(1..n + 1) = n + 1
  BY <1>2, FS_Interval
<1>4. ~ (1..n + 1 \subseteq used)
  <2>1. ASSUME 1..n + 1 \subseteq used PROVE Cardinality(1..n + 1) <= Cardinality(used)
    BY <1>1, <2>1, FS_Subset
  <2>2. QED
    BY <1>2, <1>3, <2>1 DEF n
<1>5. Fresh(x) = CHOOSE z \in 1..n + 1 : z \notin used
  BY DEF Fresh, n
<1>6. Fresh(x) \in 1..n + 1 /\ Fresh(x) \notin used
  BY <1>4, <1>5
<1>7. QED
  BY <1>2, <1>6 DEF Contexts, None

LEMMA CreateEffect ==
  ASSUME NEW x, World(x), IsFiniteSet(x.live), NEW share
  PROVE  LET y == CtxCreate(x, share)
             c == Fresh(x)
         IN /\ World(y) /\ c \in Contexts \ x.live
            /\ y.live = x.live \cup {c}
            /\ \A d \in x.live : y.group[d] = x.group[d]
            /\ share \in x.live => y.group[c] = x.group[share]
<1> DEFINE c == Fresh(x)
           group == [d \in x.live \cup {c} |->
                       IF d # c THEN x.group[d] ELSE IF share \in x.live THEN x.group[share] ELSE c]
           y == CtxCreate(x, share)
<1>1. c \in Contexts \ x.live
  BY FreshIsNew
<1>2. y = [x EXCEPT !.live = x.live \cup {c}, !.group = group]
  BY DEF CtxCreate
<1> HIDE DEF c, y
<1>3. group \in [x.live \cup {c} -> Contexts]
  BY <1>1 DEF World
<1>4. \A d \in x.live : group[d] = x.group[d]
  BY <1>1
<1>5. share \in x.live => group[c] = x.group[share]
  OBVIOUS
<1> HIDE DEF group
<1>6. y.live = x.live \cup {c} /\ y.group = group
  BY <1>2 DEF World
<1>7. World(y)
  BY <1>1, <1>2, <1>3 DEF World
<1>8. QED
  BY <1>1, <1>4, <1>5, <1>6, <1>7 DEF c, y

LEMMA CreateKeeps ==
  ASSUME NEW x, World(x), NEW share
  PROVE  LET y == CtxCreate(x, share) IN
         /\ y.os = x.os /\ y.cur = x.cur /\ y.onwin = x.onwin /\ y.win = x.win /\ y.pb = x.pb /\ y.lost = x.lost
         /\ y.zc = x.zc /\ y.ring = x.ring /\ y.dfbo = x.dfbo /\ y.cur_dfbo = x.cur_dfbo
         /\ y.dfbo_ok = x.dfbo_ok /\ y.rb = x.rb
<1> DEFINE c == Fresh(x)
           group == [d \in x.live \cup {c} |->
                       IF d # c THEN x.group[d] ELSE IF share \in x.live THEN x.group[share] ELSE c]
<1>1. CtxCreate(x, share) = [x EXCEPT !.live = x.live \cup {c}, !.group = group]
  BY DEF CtxCreate
<1> HIDE DEF c, group
<1>2. QED
  BY <1>1 DEF World

(* The same contexts, the same one current, in the same buffers. *)
Keeps(x, y) ==
  /\ KeepsBooks(x, y)
  /\ y.cur = x.cur /\ y.zc = x.zc /\ y.ring = x.ring /\ y.cur_dfbo = x.cur_dfbo /\ y.dfbo_ok = x.dfbo_ok

LEMMA RbEnsureType ==
  ASSUME NEW x, World(x), x.cur \in x.live, NEW size \in Sizes
  PROVE  World(RbEnsure(x, size))
<1> DEFINE gr == x.group[x.cur]
           rb == [named |-> TRUE, size |-> size, groups |-> x.rb.groups \cup {gr}]
           dfbo == [i \in Levels |-> IF x.dfbo[i].attached /\ x.group[x.dfbo[i].ctx] = gr
                                     THEN [x.dfbo[i] EXCEPT !.size = size] ELSE x.dfbo[i]]
<1>1. rb \in [named : BOOLEAN, size : Sizes \cup {0}, groups : SUBSET Contexts]
  BY DEF World
<1>2. dfbo \in [Levels -> [ctx : Contexts \cup {None}, size : Sizes \cup {0}, attached : BOOLEAN]]
  BY DEF World
<1>3. RbEnsure(x, size) = IF x.rb.named /\ x.rb.size = size THEN x ELSE [x EXCEPT !.rb = rb, !.dfbo = dfbo]
  BY DEF RbEnsure
<1> HIDE DEF gr, rb, dfbo
<1>4. World([x EXCEPT !.rb = rb, !.dfbo = dfbo])
  BY <1>1, <1>2 DEF World
<1>5. QED
  BY <1>3, <1>4

LEMMA RbEnsureKeeps ==
  ASSUME NEW x, World(x), NEW size PROVE Keeps(x, RbEnsure(x, size))
BY DEF RbEnsure, World, Keeps, KeepsBooks

(* The renderbuffers get their size, and the framebuffers of the current    *)
(* group follow.                                                            *)
RbFollows(x, y, size) ==
  /\ y.rb.named /\ y.rb.size = size
  /\ \A i \in Levels :
       /\ y.dfbo[i].ctx = x.dfbo[i].ctx /\ y.dfbo[i].attached = x.dfbo[i].attached
       /\ y.dfbo[i].size \in {x.dfbo[i].size, size}
       /\ ~x.dfbo[i].attached => y.dfbo[i].size = x.dfbo[i].size
       /\ x.dfbo[i].attached /\ x.group[x.dfbo[i].ctx] = x.group[x.cur] /\ x.dfbo[i].size = x.rb.size
            => y.dfbo[i].size = size

LEMMA RbEnsureFollows ==
  ASSUME NEW x, World(x), NEW size PROVE RbFollows(x, RbEnsure(x, size), size)
<1> DEFINE gr == x.group[x.cur]
           y == RbEnsure(x, size)
<1>1. CASE x.rb.named /\ x.rb.size = size
  BY <1>1 DEF RbEnsure, RbFollows
<1>2. CASE ~ (x.rb.named /\ x.rb.size = size)
  <2> DEFINE rb == [named |-> TRUE, size |-> size, groups |-> x.rb.groups \cup {gr}]
             dfbo == [i \in Levels |-> IF x.dfbo[i].attached /\ x.group[x.dfbo[i].ctx] = gr
                                       THEN [x.dfbo[i] EXCEPT !.size = size] ELSE x.dfbo[i]]
  <2>1. y = [x EXCEPT !.rb = rb, !.dfbo = dfbo]
    BY <1>2 DEF RbEnsure
  <2>2. y.rb.named /\ y.rb.size = size
    BY <2>1 DEF World
  <2>3. \A i \in Levels : y.dfbo[i] = IF x.dfbo[i].attached /\ x.group[x.dfbo[i].ctx] = gr
                                      THEN [x.dfbo[i] EXCEPT !.size = size] ELSE x.dfbo[i]
    BY <2>1 DEF World
  <2> HIDE DEF y, gr
  <2>4. \A i \in Levels : x.dfbo[i] \in [ctx : Contexts \cup {None}, size : Sizes \cup {0}, attached : BOOLEAN]
    BY DEF World
  <2>5. \A i \in Levels :
          /\ y.dfbo[i].ctx = x.dfbo[i].ctx /\ y.dfbo[i].attached = x.dfbo[i].attached
          /\ y.dfbo[i].size = IF x.dfbo[i].attached /\ x.group[x.dfbo[i].ctx] = gr THEN size ELSE x.dfbo[i].size
    BY <2>3, <2>4
  <2>6. QED
    BY <2>2, <2>5 DEF RbFollows, gr, y
<1>3. QED
  BY <1>1, <1>2
LEMMA DrawableType == ASSUME NEW x, World(x), NEW size \in Sizes PROVE World(Drawable(x, size))
<1>1. World(EglDrawable(x, size)) /\ World(WglDrawable(x, size))
  BY DEF World, EglDrawable, WglDrawable
<1>2. World(CglDrawable(x, size))
  BY RbEnsureType DEF CglDrawable
<1>3. QED
  BY <1>1, <1>2 DEF Drawable

LEMMA DrawableKeeps == ASSUME NEW x, World(x), NEW size PROVE Keeps(x, Drawable(x, size))
<1>1. Keeps(x, EglDrawable(x, size)) /\ Keeps(x, WglDrawable(x, size))
  BY DEF World, EglDrawable, WglDrawable, Keeps, KeepsBooks
<1>2. Keeps(x, CglDrawable(x, size))
  BY RbEnsureKeeps DEF CglDrawable, Keeps, KeepsBooks
<1>3. QED
  BY <1>1, <1>2 DEF Drawable

LEMMA DrawableEffect ==
  ASSUME NEW x, World(x), NEW size
  PROVE  LET y == Drawable(x, size) IN
         /\ x.os # "macos" => y.win = size
         /\ x.os = "linux" => y.onwin = x.onwin
         /\ x.os = "windows" => y.onwin = (x.cur # None)
         /\ x.os = "macos" => y = IF x.cur \in x.live THEN RbEnsure(x, size) ELSE x
<1>1. x.os \in {"linux", "macos", "windows"}
  BY PlatformAssumption DEF World
<1>2. EglDrawable(x, size).win = size /\ EglDrawable(x, size).onwin = x.onwin
  BY DEF World, EglDrawable
<1>3. WglDrawable(x, size).win = size /\ WglDrawable(x, size).onwin = (x.cur # None)
  BY DEF World, WglDrawable
<1>4. QED
  BY <1>1, <1>2, <1>3 DEF Drawable, CglDrawable

LEMMA ReleaseType == ASSUME NEW x, World(x) PROVE World(DrawableRelease(x))
<1>1. World(EglRelease(x))
  BY RingFreedType DEF World, EglRelease
<1>2. World(WglRelease(x))
  <2> DEFINE u == Unbind(x)
  <2>1. World(u)
    BY UnbindType
  <2>2. WglRelease(x) = IF x.win # 0 THEN [u EXCEPT !.win = 0] ELSE x
    BY DEF WglRelease
  <2> HIDE DEF u
  <2>3. World([u EXCEPT !.win = 0])
    BY <2>1 DEF World
  <2>4. QED
    BY <2>2, <2>3
<1>3. QED
  BY <1>1, <1>2 DEF DrawableRelease

LEMMA ReleaseBooks == ASSUME NEW x, World(x) PROVE KeepsBooks(x, DrawableRelease(x))
<1>1. KeepsBooks(x, EglRelease(x))
  BY DEF World, EglRelease, RingFreed, KeepsBooks
<1>2. KeepsBooks(x, WglRelease(x))
  BY DEF World, WglRelease, Unbind, KeepsBooks
<1>3. QED
  BY <1>1, <1>2 DEF DrawableRelease, KeepsBooks

LEMMA ReleaseEffect ==
  ASSUME NEW x, World(x)
  PROVE  LET y == DrawableRelease(x) IN
         /\ y.zc = x.zc /\ (y.cur = x.cur \/ (x.os = "windows" /\ y.cur = None))
         /\ x.os # "macos" => y.win = 0
         /\ x.os = "linux" => \A i \in Slots : y.ring[i] = NoSlot
         /\ x.os # "linux" => y.ring = x.ring
         /\ x.os = "macos" => y = x
<1>1. x.os \in {"linux", "macos", "windows"}
  BY PlatformAssumption DEF World
<1>2. /\ EglRelease(x).zc = x.zc /\ EglRelease(x).cur = x.cur /\ EglRelease(x).win = 0
      /\ \A i \in Slots : EglRelease(x).ring[i] = NoSlot
  BY DEF World, EglRelease, RingFreed
<1>3. /\ WglRelease(x).zc = x.zc /\ WglRelease(x).win = 0 /\ WglRelease(x).ring = x.ring
      /\ WglRelease(x).cur \in {x.cur, None}
  BY DEF World, WglRelease, Unbind
<1>4. QED
  BY <1>1, <1>2, <1>3 DEF DrawableRelease

(* What the current context's framebuffer becomes: the one it had, or a new *)
(* one, which is whole if the renderbuffers are attached to it.             *)
FboMade(r, y, k) ==
  /\ y.rb = r.rb /\ y.cur_dfbo = y.cur /\ y.dfbo[k].ctx = y.cur /\ y.dfbo_ok = (y.dfbo[k].size # 0)
  /\ \A i \in Levels \ {k} : y.dfbo[i] = r.dfbo[i]
  /\ \/ y.dfbo[k] = r.dfbo[k]
     \/ /\ \A i \in Levels : r.dfbo[i].ctx # y.cur
        /\ y.dfbo[k].attached => y.dfbo[k].size = r.rb.size
        /\ y.dfbo[k].size # 0 => y.dfbo[k].attached

LEMMA FboEnsured ==
  ASSUME NEW x, World(x), x.cur \in x.live, NEW size \in Sizes
  PROVE  LET r == RbEnsure(x, size)
             y == DfboEnsure(x, size)
         IN /\ World(y) /\ KeepsBooks(r, y)
            /\ y.cur = r.cur /\ y.zc = r.zc /\ y.ring = r.ring
            /\ (\E i \in Levels : r.dfbo[i].ctx \in {r.cur, None}) => \E k \in Levels : FboMade(r, y, k)
<1> DEFINE r == RbEnsure(x, size)
           y == DfboEnsure(x, size)
           mine == {i \in Levels : r.dfbo[i].ctx = r.cur}
           free == {i \in Levels : r.dfbo[i].ctx = None}
           there == r.group[r.cur] \in r.rb.groups
           entry == [ctx |-> r.cur, size |-> IF there THEN r.rb.size ELSE 0, attached |-> there]
           placed == [r EXCEPT !.dfbo[Min(free)] = entry]
           In(w, i) == [w EXCEPT !.cur_dfbo = w.cur, !.dfbo_ok = w.dfbo[i].size # 0]
<1>1. World(r) /\ r.cur = x.cur /\ r.live = x.live
  BY RbEnsureType, RbEnsureKeeps DEF Keeps, KeepsBooks
<1>2. y = IF mine # {} THEN In(r, Min(mine)) ELSE IF free = {} THEN r ELSE In(placed, Min(free))
  BY DEF DfboEnsure
<1>3. mine \in SUBSET Nat /\ free \in SUBSET Nat
  BY Numbers DEF Levels
<1>4. (mine # {} => Min(mine) \in mine) /\ (free # {} => Min(free) \in free)
  BY <1>3, MinOf
<1> HIDE DEF r, y
<1>5. r.cur \in Contexts
  BY <1>1 DEF World
<1>6. ASSUME NEW w, World(w), NEW i \in Levels
      PROVE  /\ World(In(w, i)) /\ KeepsBooks(w, In(w, i))
             /\ In(w, i).cur = w.cur /\ In(w, i).zc = w.zc /\ In(w, i).ring = w.ring /\ In(w, i).rb = w.rb
             /\ In(w, i).dfbo = w.dfbo /\ In(w, i).cur_dfbo = w.cur /\ In(w, i).dfbo_ok = (w.dfbo[i].size # 0)
  BY <1>6 DEF World, KeepsBooks
<1>7. CASE mine # {}
  <2>1. Min(mine) \in Levels /\ r.dfbo[Min(mine)].ctx = r.cur
    BY <1>4, <1>7
  <2>2. y = In(r, Min(mine))
    BY <1>2, <1>7
  <2> HIDE DEF mine, In
  <2>3. FboMade(r, y, Min(mine))
    BY <1>1, <1>6, <2>1, <2>2 DEF FboMade
  <2>4. QED
    BY <1>1, <1>6, <2>1, <2>2, <2>3 DEF y, r
<1>8. CASE mine = {} /\ free = {}
  <2>1. ~ \E i \in Levels : r.dfbo[i].ctx \in {r.cur, None}
    BY <1>8
  <2>2. y = r
    BY <1>2, <1>8
  <2>3. QED
    BY <1>1, <2>1, <2>2 DEF KeepsBooks, y, r
<1>9. CASE mine = {} /\ free # {}
  <2> DEFINE k == Min(free)
  <2>1. k \in Levels
    BY <1>4, <1>9
  <2>2. y = In(placed, k)
    BY <1>2, <1>9
  <2>3. \A i \in Levels : r.dfbo[i].ctx # r.cur
    BY <1>9
  <2> HIDE DEF k
  <2>4. entry \in [ctx : Contexts \cup {None}, size : Sizes \cup {0}, attached : BOOLEAN]
    BY <1>1, <1>5 DEF World
  <2>5. /\ entry.ctx = r.cur /\ (entry.attached => entry.size = r.rb.size) /\ (entry.size # 0 => entry.attached)
    OBVIOUS
  <2> HIDE DEF entry
  <2>6. placed = [r EXCEPT !.dfbo = [r.dfbo EXCEPT ![k] = entry]]
    BY <1>1 DEF k, World
  <2>7. World(placed)
    BY <1>1, <2>1, <2>4, <2>6 DEF World
  <2>8. /\ KeepsBooks(r, placed) /\ placed.cur = r.cur /\ placed.zc = r.zc /\ placed.ring = r.ring
        /\ placed.rb = r.rb /\ placed.dfbo = [r.dfbo EXCEPT ![k] = entry]
    BY <1>1, <2>6 DEF World, KeepsBooks
  <2>9. placed.dfbo[k] = entry /\ \A i \in Levels \ {k} : placed.dfbo[i] = r.dfbo[i]
    BY <1>1, <2>1, <2>8 DEF World
  <2> HIDE DEF placed, In
  <2>10. World(y) /\ KeepsBooks(placed, y) /\ y.cur = placed.cur /\ y.zc = placed.zc /\ y.ring = placed.ring
         /\ y.rb = placed.rb /\ y.dfbo = placed.dfbo /\ y.cur_dfbo = placed.cur /\ y.dfbo_ok = (placed.dfbo[k].size # 0)
    BY <1>6, <2>1, <2>2, <2>7
  <2>11. FboMade(r, y, k)
    BY <2>3, <2>5, <2>8, <2>9, <2>10 DEF FboMade
  <2>12. QED
    BY <2>1, <2>8, <2>10, <2>11 DEF KeepsBooks, Paged, y, r
<1>10. QED
  BY <1>7, <1>8, <1>9
LEMMA CurrentEffect ==
  ASSUME NEW x, World(x), NEW c \in Handles, NEW size \in Sizes \cup {0},
         x.os = "macos" /\ c # None => c \in x.live
  PROVE  LET y == MakeCurrent(x, c, size) IN
         /\ World(y) /\ KeepsBooks(x, y) /\ y.zc = x.zc /\ y.ring = x.ring
         /\ c # None => y.cur = c
         /\ c = None => y.cur = None \/ (y = x /\ x.os = "linux")
         /\ x.os # "macos" => y.win = x.win
         /\ x.os # "macos" /\ c # None /\ x.win # 0 => y.onwin
<1> DEFINE y == MakeCurrent(x, c, size)
<1>1. x.os \in {"linux", "macos", "windows"} /\ World(Unbind(x)) /\ KeepsBooks(x, Unbind(x))
  BY PlatformAssumption, UnbindType, UnbindBooks DEF World
<1>2. /\ Unbind(x).zc = x.zc /\ Unbind(x).ring = x.ring /\ Unbind(x).cur = None /\ Unbind(x).win = x.win
  BY DEF World, Unbind
<1>3. CASE x.os = "linux"
  <2>1. y = EglMakeCurrent(x, c)
    BY <1>3 DEF MakeCurrent
  <2>2. CASE c = None
    <3>1. y = Unbind(x) \/ y = x
      BY <2>1, <2>2 DEF EglMakeCurrent
    <3>2. KeepsBooks(x, x)
      BY DEF KeepsBooks
    <3>3. QED
      BY <1>1, <1>2, <1>3, <2>2, <3>1, <3>2
  <2>3. CASE c # None
    <3>1. y = [x EXCEPT !.cur = c, !.onwin = x.win # 0]
      BY <2>1, <2>3 DEF EglMakeCurrent
    <3>2. World(y)
      BY <3>1 DEF World, Handles
    <3>3. KeepsBooks(x, y) /\ y.zc = x.zc /\ y.ring = x.ring /\ y.cur = c /\ y.win = x.win /\ y.onwin = (x.win # 0)
      BY <3>1 DEF World, KeepsBooks
    <3>4. QED
      BY <2>3, <3>2, <3>3
  <2>4. QED
    BY <2>2, <2>3
<1>4. CASE x.os = "windows"
  <2>1. y = WglMakeCurrent(x, c)
    BY <1>4 DEF MakeCurrent
  <2>2. CASE c = None
    BY <1>1, <1>2, <2>1, <2>2 DEF WglMakeCurrent
  <2>3. CASE c # None
    <3>1. y = [x EXCEPT !.cur = c, !.onwin = TRUE]
      BY <2>1, <2>3 DEF WglMakeCurrent
    <3>2. World(y)
      BY <3>1 DEF World, Handles
    <3>3. KeepsBooks(x, y) /\ y.zc = x.zc /\ y.ring = x.ring /\ y.cur = c /\ y.win = x.win /\ y.onwin
      BY <3>1 DEF World, KeepsBooks
    <3>4. QED
      BY <2>3, <3>2, <3>3
  <2>4. QED
    BY <2>2, <2>3
<1>5. CASE x.os = "macos"
  <2> DEFINE z == [x EXCEPT !.cur = c, !.onwin = FALSE]
             s == IF size = 0 THEN Default ELSE size
  <2>1. y = IF c = None THEN z ELSE DfboEnsure(z, s)
    BY <1>5 DEF MakeCurrent, CglMakeCurrent
  <2>2. World(z)
    BY DEF World, Handles
  <2>3. KeepsBooks(x, z) /\ z.zc = x.zc /\ z.ring = x.ring /\ z.cur = c /\ z.live = x.live
    BY DEF World, KeepsBooks
  <2>4. s \in Sizes
    BY Numbers
  <2> HIDE DEF y, z, s
  <2>5. CASE c = None
    BY <1>5, <2>1, <2>2, <2>3, <2>5 DEF y
  <2>6. CASE c # None
    <3>1. z.cur \in z.live
      BY <1>5, <2>3, <2>6
    <3>2. Keeps(z, RbEnsure(z, s))
      BY <2>2, RbEnsureKeeps
    <3>3. World(y) /\ KeepsBooks(RbEnsure(z, s), y) /\ y.cur = RbEnsure(z, s).cur
          /\ y.zc = RbEnsure(z, s).zc /\ y.ring = RbEnsure(z, s).ring
      BY <2>1, <2>2, <2>4, <2>6, <3>1, FboEnsured
    <3>4. KeepsBooks(x, y) /\ y.zc = x.zc /\ y.ring = x.ring /\ y.cur = c
      BY <2>3, <3>2, <3>3 DEF Keeps, KeepsBooks, Paged
    <3>5. QED
      BY <1>5, <2>6, <3>3, <3>4 DEF y
  <2>7. QED
    BY <2>5, <2>6
<1>6. QED
  BY <1>1, <1>3, <1>4, <1>5

LEMMA NextSlot == ASSUME NEW s \in Slots PROVE (s + 1) % ZcSlots \in Slots
<1>1. ZcSlots \in Nat \ {0} /\ s \in Nat /\ s < ZcSlots
  BY Numbers DEF Slots
<1>2. (s + 1) % ZcSlots \in 0..ZcSlots - 1
  BY <1>1
<1>3. QED
  BY <1>2 DEF Slots

(* A frame that goes by the ring is in a buffer of its size, by a name of   *)
(* the context that draws or by one the ring had.                           *)
RingTakes(x, y, size) ==
  /\ y.zc => x.zc
  /\ y.zc => \A i \in Slots : y.ring[i].owner \in {x.ring[i].owner, x.cur}
  /\ y.zc => /\ y.ring[x.zc_next].size = size
             /\ \/ y.ring[x.zc_next].owner = x.cur
                \/ y.ring[x.zc_next].owner = x.ring[x.zc_next].owner /\ x.ring[x.zc_next].owner # None

LEMMA SlotTurns ==
  ASSUME NEW x, World(x), NEW s \in Slots PROVE World([x EXCEPT !.zc_next = s])
BY DEF World

LEMMA PresentEffect ==
  ASSUME NEW x, World(x), NEW size \in Sizes \cup {0}, NEW taken
  PROVE  LET y == Present(x, size, taken) IN
         /\ World(y) /\ KeepsBooks(x, y) /\ RingTakes(x, y, size)
         /\ y.cur = x.cur /\ y.onwin = x.onwin /\ y.win = x.win /\ y.dfbo = x.dfbo /\ y.cur_dfbo = x.cur_dfbo
         /\ y.dfbo_ok = x.dfbo_ok /\ y.rb = x.rb
<1> DEFINE y == Present(x, size, taken)
           k == x.zc_next
           there == x.ring[k].owner # None /\ x.ring[k].size = size
           freed == RingFreed(x)
           given == [freed EXCEPT !.zc = FALSE]
           slot == [owner |-> x.cur, size |-> size]
           drawn == [x EXCEPT !.ring = [x.ring EXCEPT ![k] = slot]]
           n == SlotEnsured(x, k, size, taken)
<1>1. k \in Slots /\ x.ring[k] \in [owner : Contexts \cup {None, Gone}, size : Sizes \cup {0}]
  BY DEF World
<1>2. slot \in [owner : Contexts \cup {None, Gone}, size : Sizes \cup {0}]
  BY DEF World
<1>3. SlotFreed(x, k) = [x EXCEPT !.ring = [x.ring EXCEPT ![k] = NoSlot]]
  BY DEF SlotFreed, World
<1>4. [SlotFreed(x, k) EXCEPT !.ring[k] = slot] = drawn
  BY <1>1, <1>3 DEF World
<1>5. n = IF there THEN x ELSE IF taken THEN drawn ELSE given
  BY <1>4 DEF SlotEnsured
<1>6. World(drawn) /\ World(given)
  <2>1. World(drawn)
    BY <1>1, <1>2 DEF World
  <2>2. World(freed)
    BY RingFreedType
  <2> HIDE DEF freed
  <2>3. World(given)
    BY <2>2 DEF World
  <2>4. QED
    BY <2>1, <2>3
<1>7. World(n)
  BY <1>5, <1>6
<1>8. /\ KeepsBooks(x, n) /\ n.cur = x.cur /\ n.onwin = x.onwin /\ n.win = x.win /\ n.dfbo = x.dfbo
      /\ n.cur_dfbo = x.cur_dfbo /\ n.dfbo_ok = x.dfbo_ok /\ n.rb = x.rb /\ n.zc_next = x.zc_next
  BY <1>5 DEF World, KeepsBooks, RingFreed
<1>9. n.zc => x.zc /\ ((n = x /\ there) \/ n = drawn)
  BY <1>5 DEF World
<1>10. drawn.ring[k] = slot /\ \A i \in Slots \ {k} : drawn.ring[i] = x.ring[i]
  BY <1>1 DEF World
<1> HIDE DEF n
<1>11. y = IF ~x.zc THEN x ELSE IF n.zc THEN [n EXCEPT !.zc_next = (n.zc_next + 1) % ZcSlots] ELSE n
  BY DEF Present, n
<1>12. (n.zc_next + 1) % ZcSlots \in Slots
  BY <1>1, <1>8, NextSlot
<1>13. World(y)
  <2>1. World([n EXCEPT !.zc_next = (n.zc_next + 1) % ZcSlots])
    BY <1>7, <1>12, SlotTurns
  <2>2. QED
    BY <1>7, <1>11, <2>1, Zenon
<1>14. /\ KeepsBooks(x, y) /\ y.cur = x.cur /\ y.onwin = x.onwin /\ y.win = x.win /\ y.dfbo = x.dfbo
       /\ y.cur_dfbo = x.cur_dfbo /\ y.dfbo_ok = x.dfbo_ok /\ y.rb = x.rb
  BY <1>7, <1>8, <1>11 DEF World, KeepsBooks
<1>15. y.zc => n.zc /\ y.ring = n.ring /\ x.zc
  BY <1>7, <1>9, <1>11 DEF World
<1> HIDE DEF y, drawn
<1>16. RingTakes(x, y, size)
  BY <1>1, <1>9, <1>10, <1>15 DEF RingTakes
<1>17. QED
  BY <1>13, <1>14, <1>16 DEF y
---------------------------------------------------------------------------
(* The books are kept by a call that neither makes nor destroys a context,  *)
LEMMA BookKept ==
  ASSUME NEW x, NEW y, NEW c, NEW l, Book(x, c, l), World(y), KeepsBooks(x, y)
  PROVE  Book(y, c, l)
<1>1. Tables(y, c, l)
  BY DEF Book, Tables, KeepsBooks
<1>2. NoneLost(y, c, l)
  BY DEF Book, NoneLost, KeepsBooks, Paged
<1>3. LevelsLive(y, c) /\ GlideLive(y, l) /\ PbuffersLive(y)
  BY DEF Book, LevelsLive, GlideLive, PbuffersLive, KeepsBooks, Paged
<1>4. LevelsApart(c) /\ GlideApart(c, l) /\ PbuffersApart(y) /\ PbuffersBeside(y, c, l)
  BY DEF Book, PbuffersApart, PbuffersBeside, KeepsBooks, Paged
<1>5. Share(y, c)
  BY DEF Book, Share, KeepsBooks
<1>6. LostApart(y, c, l)
  BY DEF Book, LostApart, KeepsBooks, Paged
<1>7. QED
  BY <1>1, <1>2, <1>3, <1>4, <1>5, <1>6 DEF Book

(* by one that destroys the contexts in C and takes them out of the tables, *)
Drops(x, y, C) ==
  /\ y.os = x.os /\ y.live = x.live \ C /\ y.lost = x.lost
  /\ \A d \in y.live : y.group[d] = x.group[d]
  /\ Paged(x) => \A i \in Pbuffers : y.pb[i] = IF x.pb[i] \in C THEN None ELSE x.pb[i]

Moved(c, d, C) ==
  /\ d \in [Levels -> Handles] /\ LevelsApart(d)
  /\ \A n \in Levels : d[n] # None => d[n] \notin C /\ \E m \in Levels : c[m] = d[n]
  /\ \A m \in Levels : c[m] # None /\ c[m] \notin C => \E n \in Levels : d[n] = c[m]
  /\ d[0] # None => d[0] = c[0]

LEMMA BookShrinks ==
  ASSUME NEW x, NEW y, NEW c, NEW l, Book(x, c, l), World(y),
         NEW C, None \notin C, \A z \in C : z \notin x.lost, Drops(x, y, C), NEW d, Moved(c, d, C)
  PROVE  Book(y, d, IF l \in C THEN None ELSE l)
<1> DEFINE k == IF l \in C THEN None ELSE l
<1>1. y.os = x.os /\ y.live \subseteq x.live /\ (\A z \in y.live : z \notin C) /\ IsFiniteSet(y.live)
  BY FS_Subset DEF Book, Tables, Drops
<1>2. Tables(y, d, k)
  BY <1>1 DEF Book, Tables, Moved, Handles
<1>3. NoneLost(y, d, k)
  <2>1. ASSUME NEW z \in y.live \ y.lost
        PROVE  (\E n \in Levels : d[n] = z) \/ z = k \/ (Paged(y) /\ \E i \in Pbuffers : y.pb[i] = z)
    <3>1. z \in x.live \ x.lost /\ z \notin C /\ z # None
      BY <1>1, Numbers DEF Book, Tables, World, Drops
    <3>2. (\E n \in Levels : c[n] = z) \/ z = l \/ (Paged(x) /\ \E i \in Pbuffers : x.pb[i] = z)
      BY <3>1 DEF Book, NoneLost
    <3>3. CASE \E n \in Levels : c[n] = z
      BY <3>1, <3>3 DEF Moved
    <3>4. CASE z = l
      BY <3>1, <3>4
    <3>5. CASE Paged(x) /\ \E i \in Pbuffers : x.pb[i] = z
      BY <1>1, <3>1, <3>5 DEF Drops, Paged
    <3>6. QED
      BY <3>2, <3>3, <3>4, <3>5
  <2>2. QED
    BY <2>1 DEF NoneLost
<1>4. LevelsLive(y, d)
  BY DEF Book, LevelsLive, Moved, Drops
<1>5. GlideLive(y, k)
  BY DEF Book, GlideLive, Drops
<1>6. PbuffersLive(y)
  BY DEF Book, PbuffersLive, Drops, Paged
<1>7. GlideApart(d, k)
  BY DEF Book, GlideApart, Moved
<1>8. PbuffersApart(y)
  BY DEF Book, PbuffersApart, Drops, Paged
<1>9. PbuffersBeside(y, d, k)
  <2>1. ASSUME Paged(y), NEW i \in Pbuffers, y.pb[i] # None
        PROVE  y.pb[i] # k /\ \A n \in Levels : d[n] # y.pb[i]
    <3>1. y.pb[i] = x.pb[i] /\ x.pb[i] # None /\ x.pb[i] # l /\ \A n \in Levels : c[n] # x.pb[i]
      BY <2>1 DEF Book, PbuffersBeside, Drops, Paged
    <3>2. QED
      BY <2>1, <3>1 DEF Moved
  <2>2. QED
    BY <2>1 DEF PbuffersBeside
<1>10. Share(y, d)
  <2>1. ASSUME NEW n \in Levels, d[0] # None, d[n] # None
        PROVE  y.group[d[n]] = y.group[d[0]]
    <3>1. d[0] \in y.live /\ d[n] \in y.live
      BY <1>4, <2>1, Numbers DEF LevelsLive
    <3>2. PICK m \in Levels : c[m] = d[n]
      BY <2>1 DEF Moved
    <3>3. d[0] = c[0]
      BY <2>1 DEF Moved
    <3>4. x.group[c[m]] = x.group[c[0]]
      BY <2>1, <3>2, <3>3 DEF Book, Share
    <3>5. QED
      BY <3>1, <3>2, <3>3, <3>4 DEF Drops
  <2>2. QED
    BY <2>1 DEF Share
<1>11. LostApart(y, d, k)
  <2>1. ASSUME NEW z \in y.lost
        PROVE  /\ y.os = "linux" /\ z \in y.live /\ z # k /\ \A n \in Levels : d[n] # z
               /\ Paged(y) => \A i \in Pbuffers : y.pb[i] # z
    <3>1. y.os = "linux" /\ z \in x.lost /\ z \in x.live /\ z # None /\ z # l /\ z \notin C /\ \A n \in Levels : c[n] # z
      BY <2>1, Numbers DEF Book, Tables, World, LostApart, Drops
    <3>2. Paged(x) => \A i \in Pbuffers : x.pb[i] # z
      BY <3>1 DEF Book, LostApart
    <3>3. \A n \in Levels : d[n] # z
      BY <3>1 DEF Moved
    <3>4. QED
      BY <3>1, <3>2, <3>3 DEF Drops, Paged
  <2>2. QED
    BY <2>1 DEF LostApart
<1>12. QED
  BY <1>2, <1>3, <1>4, <1>5, <1>6, <1>7, <1>8, <1>9, <1>10, <1>11 DEF Book, Moved

(* and by one that makes a context k and enters it, in the levels, for      *)
(* Glide, or for a pbuffer.                                                 *)
Makes(x, y, k) ==
  /\ y.os = x.os /\ k \in Contexts \ x.live /\ y.live = x.live \cup {k} /\ y.lost = x.lost
  /\ \A d \in x.live : y.group[d] = x.group[d]

LEMMA BookGrows ==
  ASSUME NEW x, NEW y, NEW c, NEW l, Book(x, c, l), World(y),
         NEW k, Makes(x, y, k),
         NEW d \in [Levels -> Handles], NEW m \in Handles,
         \A n \in Levels : d[n] \in {c[n], k} /\ (c[n] # None => d[n] = c[n]),
         m \in {l, k}, l # None => m = l,
         Paged(x) => \A i \in Pbuffers : y.pb[i] \in {x.pb[i], k} /\ (x.pb[i] # None => y.pb[i] = x.pb[i]),
         (\E n \in Levels : d[n] = k) \/ m = k \/ (Paged(x) /\ \E i \in Pbuffers : y.pb[i] = k),
         \A n, j \in Levels : d[n] = k /\ d[j] = k => n = j,
         m = k => \A n \in Levels : d[n] # k,
         Paged(x) => \A i, j \in Pbuffers : y.pb[i] = k /\ y.pb[j] = k => i = j,
         Paged(x) => \A i \in Pbuffers : y.pb[i] = k => m # k /\ \A n \in Levels : d[n] # k,
         Share(y, d)
  PROVE  Book(y, d, m)
<1>1. y.os = x.os /\ IsFiniteSet(y.live) /\ k # None /\ k \notin x.live /\ k \in y.live
  BY FS_AddElement, Numbers DEF Book, Tables, Makes
<1>2. Tables(y, d, m)
  BY <1>1 DEF Tables
<1>3. NoneLost(y, d, m)
  <2>1. ASSUME NEW z \in y.live \ y.lost
        PROVE  (\E n \in Levels : d[n] = z) \/ z = m \/ (Paged(y) /\ \E i \in Pbuffers : y.pb[i] = z)
    <3>1. z = k \/ (z \in x.live \ x.lost /\ z # None)
      BY Numbers DEF Makes, Book, Tables, World
    <3>2. CASE z = k
      BY <1>1, <3>2 DEF Paged
    <3>3. CASE z \in x.live \ x.lost /\ z # None
      <4>1. (\E n \in Levels : c[n] = z) \/ z = l \/ (Paged(x) /\ \E i \in Pbuffers : x.pb[i] = z)
        BY <3>3 DEF Book, NoneLost
      <4>2. QED
        BY <1>1, <3>3, <4>1 DEF Paged
    <3>4. QED
      BY <3>1, <3>2, <3>3
  <2>2. QED
    BY <2>1 DEF NoneLost
<1>4. LevelsLive(y, d)
  BY <1>1 DEF Book, LevelsLive, Makes
<1>5. GlideLive(y, m)
  BY <1>1 DEF Book, GlideLive, Makes
<1>6. PbuffersLive(y)
  BY <1>1 DEF Book, PbuffersLive, Makes, Paged
<1>7. LevelsApart(d)
  BY <1>1 DEF Book, LevelsLive, LevelsApart
<1>8. GlideApart(d, m)
  BY <1>1 DEF Book, LevelsLive, GlideLive, GlideApart
<1>9. PbuffersApart(y)
  BY <1>1 DEF Book, PbuffersLive, PbuffersApart, Paged
<1>10. PbuffersBeside(y, d, m)
  <2>1. ASSUME Paged(x), NEW i \in Pbuffers, y.pb[i] # None
        PROVE  y.pb[i] # m /\ \A n \in Levels : d[n] # y.pb[i]
    <3>1. CASE y.pb[i] = k
      BY <2>1, <3>1
    <3>2. CASE y.pb[i] # k
      <4>1. y.pb[i] = x.pb[i] /\ x.pb[i] # None /\ x.pb[i] # l /\ \A n \in Levels : c[n] # x.pb[i]
        BY <2>1, <3>2 DEF Book, PbuffersBeside
      <4>2. QED
        BY <3>2, <4>1
    <3>3. QED
      BY <3>1, <3>2
  <2>2. QED
    BY <1>1, <2>1 DEF PbuffersBeside, Paged
<1>11. LostApart(y, d, m)
  <2>1. ASSUME NEW z \in y.lost
        PROVE  /\ y.os = "linux" /\ z \in y.live /\ z # m /\ \A n \in Levels : d[n] # z
               /\ Paged(y) => \A i \in Pbuffers : y.pb[i] # z
    <3>1. y.os = "linux" /\ z \in x.live /\ z # k /\ z # l /\ \A n \in Levels : c[n] # z
      BY <1>1, <2>1 DEF Book, LostApart, Makes
    <3>2. Paged(x) => \A i \in Pbuffers : x.pb[i] # z
      BY <2>1 DEF Book, LostApart, Makes
    <3>3. z # m /\ \A n \in Levels : d[n] # z
      BY <3>1
    <3>4. QED
      BY <1>1, <3>1, <3>2, <3>3 DEF Makes, Paged
  <2>2. QED
    BY <2>1 DEF LostApart
<1>12. QED
  BY <1>2, <1>3, <1>4, <1>5, <1>6, <1>7, <1>8, <1>9, <1>10, <1>11 DEF Book
---------------------------------------------------------------------------
(* The same in the middle of a call, of the bundle w of what it changes.    *)

Frames == [by : Handles, size : Sizes \cup {0}, picture : Sizes \cup {0}, into : Sizes \cup {0}, home : BOOLEAN]

IsBundle(w) ==
  w = [f \in {"g", "ctx", "ready", "size", "readback", "frame"} |-> w[f]]

Parts(w) ==
  /\ IsBundle(w) /\ w.ready \in BOOLEAN /\ {w.size, w.readback} \subseteq Sizes \cup {0} /\ w.frame \in Frames

Kept(w, l, P) == Parts(w) /\ Book(w.g, w.ctx, l) /\ SlotsFree(w.g, P)

LEMMA KeptWorld ==
  ASSUME NEW w, NEW l, NEW P, Kept(w, l, P), NEW y, World(y), KeepsBooks(w.g, y)
  PROVE  Kept([w EXCEPT !.g = y], l, P)
<1>1. Book(y, w.ctx, l)
  BY BookKept DEF Kept
<1>2. SlotsFree(y, P)
  BY DEF Kept, SlotsFree, FreeAt, KeepsBooks, Paged
<1>3. /\ IsBundle([w EXCEPT !.g = y]) /\ [w EXCEPT !.g = y].g = y /\ [w EXCEPT !.g = y].ctx = w.ctx
      /\ [w EXCEPT !.g = y].ready = w.ready /\ [w EXCEPT !.g = y].size = w.size
      /\ [w EXCEPT !.g = y].readback = w.readback /\ [w EXCEPT !.g = y].frame = w.frame
  BY DEF Kept, Parts, IsBundle
<1>4. QED
  BY <1>1, <1>2, <1>3 DEF Kept, Parts

LEMMA UnboundKept ==
  ASSUME NEW w, NEW l, NEW P, Kept(w, l, P) PROVE Kept(Unbound(w), l, P)
<1>1. World(w.g)
  BY DEF Kept, Book, Tables
<1>2. World(Unbind(w.g)) /\ KeepsBooks(w.g, Unbind(w.g))
  BY <1>1, UnbindType, UnbindBooks
<1>3. QED
  BY <1>2, KeptWorld DEF Unbound

LEMMA ResizedIs ==
  ASSUME NEW w, IsBundle(w), NEW size, NEW ok
  PROVE  LET r == Resized(w, size, ok) IN
         /\ IsBundle(r) /\ r.ctx = w.ctx /\ r.ready = w.ready /\ r.frame = w.frame
         /\ IF (w.ready /\ w.size = size) \/ ~(ok \/ w.g.os = "macos") THEN r = w
            ELSE r.g = Drawable(w.g, size) /\ r.size = size /\ r.readback = size
<1> DEFINE e == [w EXCEPT !.g = Drawable(w.g, size), !.size = size, !.readback = size]
<1>1. /\ IsBundle(e) /\ e.ctx = w.ctx /\ e.ready = w.ready /\ e.frame = w.frame
      /\ e.g = Drawable(w.g, size) /\ e.size = size /\ e.readback = size
  BY DEF IsBundle
<1>2. Resized(w, size, ok) = IF (w.ready /\ w.size = size) \/ ~(ok \/ w.g.os = "macos") THEN w ELSE e
  BY DEF Resized
<1> HIDE DEF e
<1>3. QED
  BY <1>1, <1>2

LEMMA ResizedKept ==
  ASSUME NEW w, NEW l, NEW P, Kept(w, l, P), NEW size \in Sizes, NEW ok
  PROVE  Kept(Resized(w, size, ok), l, P)
<1> DEFINE r == Resized(w, size, ok)
<1>1. /\ IsBundle(r) /\ r.ctx = w.ctx /\ r.ready = w.ready /\ r.frame = w.frame
      /\ r = w \/ (r.g = Drawable(w.g, size) /\ r.size = size /\ r.readback = size)
  BY ResizedIs DEF Kept, Parts
<1> HIDE DEF r
<1>2. World(w.g)
  BY DEF Kept, Book, Tables
<1>3. World(Drawable(w.g, size)) /\ KeepsBooks(w.g, Drawable(w.g, size))
  BY <1>2, DrawableType, DrawableKeeps DEF Keeps
<1>4. CASE r = w
  BY <1>4 DEF r
<1>5. CASE r.g = Drawable(w.g, size) /\ r.size = size /\ r.readback = size
  <2>1. Book(r.g, r.ctx, l)
    BY <1>1, <1>3, <1>5, BookKept DEF Kept
  <2>2. SlotsFree(r.g, P)
    BY <1>3, <1>5 DEF Kept, SlotsFree, FreeAt, KeepsBooks, Paged
  <2>3. QED
    BY <1>1, <1>5, <2>1, <2>2 DEF Kept, Parts, r
<1>6. QED
  BY <1>1, <1>4, <1>5

(* Contexts C go, and the table becomes d. *)
LEMMA DropKept ==
  ASSUME NEW w, NEW l, NEW P, Kept(w, l, P), NEW C, NEW main, NEW d, Moved(w.ctx, d, C \ {None}),
         \A z \in C \ {None} : \E n \in Levels : w.ctx[n] = z
  PROVE  Kept([w EXCEPT !.g = CtxDestroy(w.g, C, main), !.ctx = d], l, P)
<1> DEFINE y == CtxDestroy(w.g, C, main)
           e == [w EXCEPT !.g = y, !.ctx = d]
<1>1. Book(w.g, w.ctx, l) /\ World(w.g)
  BY DEF Kept, Book, Tables
<1>2. World(y)
  BY <1>1, DestroyType
<1>3. Without(w.g, y, C \ {None})
  BY <1>1, DestroyEffect
<1> HIDE DEF y
<1>4. l \notin C \ {None}
  BY <1>1 DEF Book, GlideApart
<1>5. Paged(w.g) => \A i \in Pbuffers : w.g.pb[i] \notin C \ {None}
  BY <1>1 DEF Book, PbuffersBeside
<1>6. Drops(w.g, y, C \ {None})
  BY <1>3, <1>5 DEF Without, Drops
<1>7. Book(y, d, l)
  <2>1. \A z \in C \ {None} : z \notin w.g.lost
    BY <1>1 DEF Book, LostApart
  <2>2. QED
    BY <1>1, <1>2, <1>4, <1>6, <2>1, BookShrinks
<1>8. SlotsFree(y, P)
  BY <1>6, <1>5 DEF Kept, SlotsFree, FreeAt, Drops, Paged
<1>9. /\ IsBundle(e) /\ e.g = y /\ e.ctx = d /\ e.ready = w.ready /\ e.size = w.size
      /\ e.readback = w.readback /\ e.frame = w.frame
  BY DEF Kept, Parts, IsBundle
<1> HIDE DEF e
<1>10. Kept(e, l, P)
  BY <1>7, <1>8, <1>9 DEF Kept, Parts
<1>11. QED
  BY <1>10 DEF e, y

(* A table without the levels in N *)
Cleared(c, N) == [n \in Levels |-> IF n \in N THEN None ELSE c[n]]

LEMMA ClearedMoved ==
  ASSUME NEW x, NEW c, NEW l, Book(x, c, l), NEW N \in SUBSET Levels, NEW C,
         \A z \in C : \E n \in N : c[n] = z,
         \A n \in N : c[n] # None => c[n] \in C
  PROVE  Moved(c, Cleared(c, N), C)
<1> DEFINE d == Cleared(c, N)
<1>1. c \in [Levels -> Handles] /\ LevelsApart(c) /\ 0 \in Levels
  BY Numbers DEF Book, Tables
<1>2. \A n \in Levels : d[n] = IF n \in N THEN None ELSE c[n]
  BY DEF Cleared
<1>3. d \in [Levels -> Handles]
  BY <1>1 DEF Cleared, Handles
<1> HIDE DEF d
<1>4. LevelsApart(d)
  BY <1>1, <1>2 DEF LevelsApart
<1>5. \A n \in Levels : d[n] # None => d[n] \notin C
  BY <1>1, <1>2 DEF LevelsApart
<1>6. \A m \in Levels : c[m] # None /\ c[m] \notin C => d[m] = c[m]
  BY <1>2
<1>7. QED
  BY <1>1, <1>2, <1>3, <1>4, <1>5, <1>6 DEF Moved, d

LEMMA DestroyedKept ==
  ASSUME NEW w, NEW l, NEW P, Kept(w, l, P), NEW N \in SUBSET Levels
  PROVE  Kept(Destroyed(w, N), l, P)
<1> DEFINE C == {w.ctx[n] : n \in N} \ {None}
<1>1. Moved(w.ctx, Cleared(w.ctx, N), C \ {None})
  BY ClearedMoved DEF Kept
<1>2. Destroyed(w, N) = [w EXCEPT !.g = CtxDestroy(w.g, C, w.ctx[0]), !.ctx = Cleared(w.ctx, N)]
  BY DEF Destroyed, Cleared
<1>3. \A z \in C \ {None} : \E n \in Levels : w.ctx[n] = z
  OBVIOUS
<1> HIDE DEF C
<1>4. Kept([w EXCEPT !.g = CtxDestroy(w.g, C, w.ctx[0]), !.ctx = Cleared(w.ctx, N)], l, P)
  BY <1>1, <1>3, DropKept
<1>5. QED
  BY <1>2, <1>4
(* A context is made for level n; all see the objects of the main one. *)
LEMMA EntersKept ==
  ASSUME NEW w, NEW l, NEW P, Kept(w, l, P), NEW n \in Levels, w.ctx[n] = None, NEW share,
         n = 0 => \A j \in Levels : w.ctx[j] = None,
         n # 0 /\ w.ctx[0] # None => share \in w.g.live /\ w.g.group[share] = w.g.group[w.ctx[0]]
  PROVE  Kept([w EXCEPT !.ctx = [w.ctx EXCEPT ![n] = Fresh(w.g)], !.g = CtxCreate(w.g, share)], l, P)
<1> DEFINE x == w.g
           c == w.ctx
           k == Fresh(x)
           y == CtxCreate(x, share)
           d == [c EXCEPT ![n] = k]
           e == [w EXCEPT !.ctx = d, !.g = y]
<1>1. Book(x, c, l) /\ World(x) /\ IsFiniteSet(x.live) /\ c \in [Levels -> Handles] /\ l \in Handles
  BY DEF Kept, Book, Tables
<1>2. /\ World(y) /\ k \in Contexts \ x.live /\ y.live = x.live \cup {k}
      /\ \A z \in x.live : y.group[z] = x.group[z]
      /\ share \in x.live => y.group[k] = x.group[share]
  BY <1>1, CreateEffect
<1>3. y.os = x.os /\ y.pb = x.pb /\ y.lost = x.lost
  BY <1>1, CreateKeeps
<1> HIDE DEF k, y
<1>4. d[n] = k /\ \A j \in Levels \ {n} : d[j] = c[j]
  BY <1>1
<1>5. d \in [Levels -> Handles]
  BY <1>1, <1>2 DEF Handles
<1>6. /\ IsBundle(e) /\ e.g = y /\ e.ctx = d /\ e.ready = w.ready /\ e.size = w.size
      /\ e.readback = w.readback /\ e.frame = w.frame
  BY DEF Kept, Parts, IsBundle
<1> HIDE DEF d, e
<1>7. Makes(x, y, k)
  BY <1>2, <1>3 DEF Makes
<1>8. l # k /\ (Paged(x) => \A i \in Pbuffers : x.pb[i] # k)
  BY <1>1, <1>2, Numbers DEF Book, GlideLive, PbuffersLive
<1>9. \A j \in Levels : c[j] # k
  BY <1>1, <1>2, Numbers DEF Book, LevelsLive
<1>10. Share(y, d)
  <2>1. ASSUME NEW j \in Levels, d[0] # None, d[j] # None
        PROVE  y.group[d[j]] = y.group[d[0]]
    <3>1. CASE n = 0
      <4>1. j = 0
        BY <1>4, <2>1, <3>1
      <4>2. QED
        BY <4>1
    <3>2. CASE n # 0
      <4>1. d[0] = c[0] /\ c[0] # None /\ c[0] \in x.live
        BY <1>1, <1>4, <2>1, <3>2, Numbers DEF Book, LevelsLive
      <4>2. y.group[k] = x.group[c[0]]
        BY <1>2, <3>2, <4>1
      <4>3. CASE j = n
        BY <1>2, <1>4, <4>1, <4>2, <4>3
      <4>4. CASE j # n
        <5>1. d[j] = c[j] /\ c[j] \in x.live /\ x.group[c[j]] = x.group[c[0]]
          BY <1>1, <1>4, <2>1, <4>1, <4>4 DEF Book, LevelsLive, Share
        <5>2. QED
          BY <1>2, <4>1, <5>1
      <4>5. QED
        BY <4>3, <4>4
    <3>3. QED
      BY <3>1, <3>2
  <2>2. QED
    BY <2>1 DEF Share
<1>11. Book(y, d, l)
  <2>1. \A j \in Levels : d[j] \in {c[j], k} /\ (c[j] # None => d[j] = c[j])
    BY <1>4
  <2>2. Paged(x) => \A i \in Pbuffers : y.pb[i] \in {x.pb[i], k} /\ (x.pb[i] # None => y.pb[i] = x.pb[i])
    BY <1>3
  <2>3. (\E j \in Levels : d[j] = k) \/ l = k \/ (Paged(x) /\ \E i \in Pbuffers : y.pb[i] = k)
    BY <1>4
  <2>4. \A i, j \in Levels : d[i] = k /\ d[j] = k => i = j
    BY <1>4, <1>9
  <2>5. l = k => \A j \in Levels : d[j] # k
    BY <1>8
  <2>6. Paged(x) => \A i, j \in Pbuffers : y.pb[i] = k /\ y.pb[j] = k => i = j
    BY <1>3, <1>8
  <2>7. Paged(x) => \A i \in Pbuffers : y.pb[i] = k => l # k /\ \A j \in Levels : d[j] # k
    BY <1>3, <1>8
  <2>8. QED
    BY <1>1, <1>2, <1>5, <1>7, <1>10, <2>1, <2>2, <2>3, <2>4, <2>5, <2>6, <2>7, BookGrows
<1>12. SlotsFree(y, P)
  BY <1>3 DEF Kept, SlotsFree, FreeAt, Paged
<1>13. Kept(e, l, P)
  BY <1>6, <1>11, <1>12 DEF Kept, Parts
<1>14. QED
  BY <1>13 DEF e, d, y, k

(* The host may refuse it. *)
LEMMA CreatedKept ==
  ASSUME NEW w, NEW l, NEW P, Kept(w, l, P), NEW n \in Levels, w.ctx[n] = None, NEW share,
         n = 0 => \A j \in Levels : w.ctx[j] = None,
         n # 0 /\ w.ctx[0] # None => share \in w.g.live /\ w.g.group[share] = w.g.group[w.ctx[0]],
         NEW ok
  PROVE  Kept(Created(w, n, share, ok), l, P)
<1> DEFINE e == [w EXCEPT !.ctx = [w.ctx EXCEPT ![n] = Fresh(w.g)], !.g = CtxCreate(w.g, share)]
           r == [w EXCEPT !.ctx = [w.ctx EXCEPT ![n] = None]]
<1>1. Kept(e, l, P)
  BY EntersKept
<1>2. IsBundle(w) /\ w.ctx \in [Levels -> Handles]
  BY DEF Kept, Parts, Book, Tables
<1>3. [w.ctx EXCEPT ![n] = None] = w.ctx
  BY <1>2
<1>4. r = w
  BY <1>2, <1>3 DEF IsBundle
<1>5. Created(w, n, share, ok) = IF ~ok THEN r ELSE e
  BY <1>2 DEF Created, IsBundle
<1> HIDE DEF e, r
<1>6. QED
  BY <1>1, <1>4, <1>5

LEMMA PublishedIs ==
  ASSUME NEW w, IsBundle(w), NEW taken
  PROVE  LET r == Published(w, taken)
             n == Present(w.g, w.size, taken)
         IN /\ IsBundle(r) /\ r.ctx = w.ctx /\ r.ready = w.ready /\ r.size = w.size /\ r.readback = w.readback
            /\ IF ~w.ready \/ w.readback = 0 \/ (w.g.os = "macos" /\ ~w.g.dfbo_ok) THEN r = w
               ELSE /\ r.g = n
                    /\ r.frame = [by |-> w.g.cur, size |-> w.size, picture |-> Picture(w.g),
                                  into |-> IF n.zc THEN n.ring[w.g.zc_next].size ELSE w.readback,
                                  home |-> n.zc => n.ring[w.g.zc_next].owner = w.g.cur]
<1> DEFINE n == Present(w.g, w.size, taken)
           fr == [by |-> w.g.cur, size |-> w.size, picture |-> Picture(w.g),
                  into |-> IF n.zc THEN n.ring[w.g.zc_next].size ELSE w.readback,
                  home |-> n.zc => n.ring[w.g.zc_next].owner = w.g.cur]
           e == [w EXCEPT !.g = n, !.frame = fr]
<1>1. Published(w, taken) =
        IF ~w.ready \/ w.readback = 0 \/ (w.g.os = "macos" /\ ~w.g.dfbo_ok) THEN w ELSE e
  BY DEF Published
<1> HIDE DEF n, fr
<1>2. /\ IsBundle(e) /\ e.ctx = w.ctx /\ e.ready = w.ready /\ e.size = w.size /\ e.readback = w.readback
      /\ e.g = n /\ e.frame = fr
  BY DEF IsBundle
<1> HIDE DEF e
<1>3. QED
  BY <1>1, <1>2 DEF n, fr

LEMMA PictureType == ASSUME NEW x, World(x) PROVE Picture(x) \in Sizes \cup {0}
<1> DEFINE mine == {i \in Levels : x.dfbo[i].ctx = x.cur_dfbo}
<1>1. mine \in SUBSET Nat
  BY Numbers DEF Levels
<1>2. mine # {} => Min(mine) \in Levels
  BY <1>1, MinOf
<1>3. FboPicture(x) = IF x.dfbo_ok /\ mine # {} THEN x.dfbo[Min(mine)].size ELSE 0
  BY DEF FboPicture
<1> HIDE DEF mine
<1>4. FboPicture(x) \in Sizes \cup {0}
  BY <1>2, <1>3 DEF World
<1>5. WindowPicture(x) \in Sizes \cup {0}
  BY DEF World, WindowPicture
<1>6. QED
  BY <1>4, <1>5 DEF Picture

LEMMA PublishedKept ==
  ASSUME NEW w, NEW l, NEW P, Kept(w, l, P), w.g.cur \in Handles, NEW taken
  PROVE  Kept(Published(w, taken), l, P)
<1> DEFINE r == Published(w, taken)
           n == Present(w.g, w.size, taken)
<1>1. World(w.g) /\ IsBundle(w) /\ w.size \in Sizes \cup {0} /\ w.readback \in Sizes \cup {0}
  BY DEF Kept, Book, Tables, Parts
<1>2. World(n) /\ KeepsBooks(w.g, n)
  BY <1>1, PresentEffect
<1>3. /\ IsBundle(r) /\ r.ctx = w.ctx /\ r.ready = w.ready /\ r.size = w.size /\ r.readback = w.readback
      /\ r = w \/
           /\ r.g = n
           /\ r.frame = [by |-> w.g.cur, size |-> w.size, picture |-> Picture(w.g),
                         into |-> IF n.zc THEN n.ring[w.g.zc_next].size ELSE w.readback,
                         home |-> n.zc => n.ring[w.g.zc_next].owner = w.g.cur]
  BY <1>1, PublishedIs
<1> HIDE DEF r, n
<1>4. CASE r = w
  BY <1>4 DEF r
<1>5. CASE r # w
  <2>1. w.g.zc_next \in Slots /\ n.ring[w.g.zc_next].size \in Sizes \cup {0}
    BY <1>1, <1>2 DEF World
  <2>2. r.frame \in Frames
    <3> DEFINE into == IF n.zc THEN n.ring[w.g.zc_next].size ELSE w.readback
               home == n.zc => n.ring[w.g.zc_next].owner = w.g.cur
    <3>1. into \in Sizes \cup {0}
      BY <1>1, <2>1
    <3>2. home \in BOOLEAN
      OBVIOUS
    <3>3. r.frame = [by |-> w.g.cur, size |-> w.size, picture |-> Picture(w.g), into |-> into, home |-> home]
      BY <1>3, <1>5
    <3> HIDE DEF into, home
    <3>4. Picture(w.g) \in Sizes \cup {0}
      BY <1>1, PictureType
    <3>5. QED
      BY <1>1, <3>1, <3>2, <3>3, <3>4 DEF Frames, Handles
  <2>3. Book(r.g, r.ctx, l)
    BY <1>2, <1>3, <1>5, BookKept DEF Kept
  <2>4. SlotsFree(r.g, P)
    BY <1>2, <1>3, <1>5 DEF Kept, SlotsFree, FreeAt, KeepsBooks, Paged
  <2>5. QED
    BY <1>3, <2>2, <2>3, <2>4 DEF Kept, Parts, r
<1>6. QED
  BY <1>4, <1>5
LEMMA PresentedKept ==
  ASSUME NEW w, NEW l, NEW P, Kept(w, l, P), mode \in Sizes, NEW taken, NEW ok
  PROVE  Kept(Presented(w, taken, ok), l, P)
<1> DEFINE n == IF w.g.cur = w.ctx[0] THEN Published(w, taken) ELSE w
<1>1. w.ctx[0] \in Handles
  BY Numbers DEF Kept, Book, Tables
<1>2. Kept(n, l, P)
  BY <1>1, PublishedKept
<1>3. Presented(w, taken, ok) = IF n.size = mode THEN n ELSE Resized(n, mode, ok)
  BY DEF Presented
<1> HIDE DEF n
<1>4. QED
  BY <1>2, <1>3, ResizedKept

LEMMA LevelCurrentKept ==
  ASSUME NEW w, NEW l, NEW P, Kept(w, l, P), NEW n \in Levels
  PROVE  Kept([w EXCEPT !.g = MakeCurrent(w.g, w.ctx[n], w.size)], l, P)
<1>1. World(w.g) /\ w.ctx[n] \in Handles /\ (w.ctx[n] # None => w.ctx[n] \in w.g.live)
  BY DEF Kept, Book, Tables, LevelsLive
<1>2. w.size \in Sizes \cup {0}
  BY DEF Kept, Parts
<1>3. World(MakeCurrent(w.g, w.ctx[n], w.size)) /\ KeepsBooks(w.g, MakeCurrent(w.g, w.ctx[n], w.size))
  BY <1>1, <1>2, CurrentEffect
<1>4. QED
  BY <1>3, KeptWorld

LEMMA ReleasedKept ==
  ASSUME NEW w, NEW l, NEW P, Kept(w, l, P)
  PROVE  Kept([w EXCEPT !.g = DrawableRelease(w.g), !.size = 0, !.ready = FALSE], l, P)
<1> DEFINE y == DrawableRelease(w.g)
           e == [w EXCEPT !.g = y, !.size = 0, !.ready = FALSE]
<1>1. World(w.g)
  BY DEF Kept, Book, Tables
<1>2. World(y) /\ KeepsBooks(w.g, y)
  BY <1>1, ReleaseType, ReleaseBooks
<1> HIDE DEF y
<1>3. Book(y, w.ctx, l) /\ SlotsFree(y, P)
  BY <1>2, BookKept DEF Kept, SlotsFree, FreeAt, KeepsBooks, Paged
<1>4. /\ IsBundle(e) /\ e.g = y /\ e.ctx = w.ctx /\ e.ready = FALSE /\ e.size = 0
      /\ e.readback = w.readback /\ e.frame = w.frame
  BY DEF Kept, Parts, IsBundle
<1> HIDE DEF e
<1>5. Kept(e, l, P)
  BY <1>3, <1>4 DEF Kept, Parts
<1>6. QED
  BY <1>5 DEF e, y

(* Level 1 makes room: the levels above it move down. *)
ShiftedTable(c) == [n \in Levels |-> IF n \in 1..MaxLevels - 2 THEN c[n + 1] ELSE IF n = 0 THEN c[0] ELSE None]

LEMMA ShiftMoved ==
  ASSUME NEW x, NEW c, NEW l, Book(x, c, l)
  PROVE  Moved(c, ShiftedTable(c), {c[1]})
<1> DEFINE d == ShiftedTable(c)
<1>1. c \in [Levels -> Handles] /\ LevelsApart(c)
  BY DEF Book, Tables
<1>2. MaxLevels \in Nat /\ MaxLevels > 1 /\ Levels = 0..MaxLevels - 1
  BY Numbers DEF Levels
<1>3. \A n \in Levels : d[n] = IF n \in 1..MaxLevels - 2 THEN c[n + 1] ELSE IF n = 0 THEN c[0] ELSE None
  BY DEF ShiftedTable
<1>4. d \in [Levels -> Handles]
  BY <1>1, <1>2 DEF ShiftedTable, Handles
<1> HIDE DEF d
<1>5. LevelsApart(d)
  <2>1. ASSUME NEW n \in Levels, NEW m \in Levels, n # m, d[n] # None, d[n] = d[m] PROVE FALSE
    <3>1. n \in 0..MaxLevels - 2 /\ m \in 0..MaxLevels - 2
      BY <1>2, <1>3, <2>1
    <3>2. CASE n = 0
      <4>1. m + 1 \in Levels /\ m + 1 # 0 /\ d[m] = c[m + 1] /\ d[n] = c[0] /\ 0 \in Levels
        BY <1>2, <1>3, <2>1, <3>1, <3>2
      <4>2. QED
        BY <1>1, <2>1, <4>1 DEF LevelsApart
    <3>3. CASE m = 0
      <4>1. n + 1 \in Levels /\ n + 1 # 0 /\ d[n] = c[n + 1] /\ d[m] = c[0] /\ 0 \in Levels
        BY <1>2, <1>3, <2>1, <3>1, <3>3
      <4>2. QED
        BY <1>1, <2>1, <4>1 DEF LevelsApart
    <3>4. CASE n # 0 /\ m # 0
      <4>1. n + 1 \in Levels /\ m + 1 \in Levels /\ n + 1 # m + 1 /\ d[n] = c[n + 1] /\ d[m] = c[m + 1]
        BY <1>2, <1>3, <2>1, <3>1, <3>4
      <4>2. QED
        BY <1>1, <2>1, <4>1 DEF LevelsApart
    <3>5. QED
      BY <3>2, <3>3, <3>4
  <2>2. QED
    BY <2>1 DEF LevelsApart
<1>6. ASSUME NEW n \in Levels, d[n] # None
      PROVE  d[n] \notin {c[1]} /\ \E m \in Levels : c[m] = d[n]
  <2>1. PICK m \in Levels : m # 1 /\ d[n] = c[m]
    <3>1. CASE n = 0
      BY <1>2, <1>3, <1>6, <3>1
    <3>2. CASE n # 0
      <4>1. n \in 1..MaxLevels - 2
        BY <1>2, <1>3, <1>6, <3>2
      <4>2. n + 1 \in Levels /\ n + 1 # 1 /\ d[n] = c[n + 1]
        BY <1>2, <1>3, <4>1
      <4>3. QED
        BY <4>2
    <3>3. QED
      BY <3>1, <3>2
  <2>2. QED
    BY <1>1, <1>2, <1>6, <2>1 DEF LevelsApart
<1>7. ASSUME NEW m \in Levels, c[m] # None, c[m] \notin {c[1]}
      PROVE  \E n \in Levels : d[n] = c[m]
  <2>1. CASE m = 0
    BY <1>2, <1>3, <2>1
  <2>2. CASE m # 0
    <3>1. m - 1 \in 1..MaxLevels - 2 /\ m - 1 \in Levels /\ (m - 1) + 1 = m
      BY <1>2, <1>7, <2>2
    <3>2. d[m - 1] = c[m]
      BY <1>3, <3>1
    <3>3. QED
      BY <3>1, <3>2
  <2>3. QED
    BY <2>1, <2>2
<1>8. d[0] = c[0]
  BY <1>2, <1>3
<1>9. QED
  BY <1>4, <1>5, <1>6, <1>7, <1>8 DEF Moved, d
---------------------------------------------------------------------------
(* The books, action by action.                                             *)

OtherTypes ==
  /\ uses \in Programs /\ {fx_active, glide_open, shared, bare} \subseteq BOOLEAN /\ attribs \in Lists \cup {None}
  /\ glide_res \in Sizes \cup {0} /\ mode \in Sizes /\ faults \in 0..MaxFaults

LEMMA TypeSplit == TypeOK <=>
  /\ OtherTypes /\ World(g) /\ ctx \in [Levels -> Handles] /\ glide_ctx \in Handles /\ win_ready \in BOOLEAN
  /\ {win_size, readback} \subseteq Sizes \cup {0} /\ pbuffers \subseteq Pbuffers /\ frame \in Frames
BY DEF TypeOK, OtherTypes, Frames, Handles

LEMMA BooksNow ==
  ASSUME BookInv
  PROVE  /\ Kept(Bundle, glide_ctx, pbuffers) /\ OtherTypes /\ pbuffers \subseteq Pbuffers
         /\ Bundle.g = g /\ Bundle.ctx = ctx /\ Bundle.ready = win_ready /\ Bundle.size = win_size
         /\ Bundle.readback = readback /\ Bundle.frame = NoFrame
<1>1. /\ IsBundle(Bundle) /\ Bundle.g = g /\ Bundle.ctx = ctx /\ Bundle.ready = win_ready /\ Bundle.size = win_size
      /\ Bundle.readback = readback /\ Bundle.frame = NoFrame
  BY DEF IsBundle, Bundle
<1>2. NoFrame \in Frames
  BY DEF NoFrame, Frames, Handles
<1>3. QED
  BY <1>1, <1>2, TypeSplit DEF BookInv, Kept, Parts

(* What Next says of the history: the host's refusals are not forgotten. *)
History ==
  /\ UNCHANGED uses
  /\ shared' = (shared \/ (glide_ctx' # None /\ (g.os = "macos" \/ ctx'[0] # None \/ ~win_ready')))
  /\ bare' = (g'.cur # None /\ (win_size' = 0 \/ (bare /\ g'.cur = g.cur)))
  /\ faults' = 0 => faults = 0

LEMMA BooksThen ==
  ASSUME NEW w, NEW l, NEW P, Parts(w), Book(w.g, w.ctx, l), FreeAt(w.g, P, faults'), Becomes(w), OtherTypes',
         glide_ctx' = l, pbuffers' = P, P \subseteq Pbuffers
  PROVE  BookInv'
<1>1. /\ g' = w.g /\ ctx' = w.ctx /\ win_ready' = w.ready /\ win_size' = w.size
      /\ readback' = w.readback /\ frame' = w.frame
  BY DEF Becomes
<1>2. Book(g, ctx, glide_ctx)' /\ SlotsFree(g, pbuffers)'
  <2>1. Book(g, ctx, glide_ctx)'
    BY <1>1
  <2>2. SlotsFree(g, pbuffers)'
    BY <1>1 DEF SlotsFree
  <2>3. QED
    BY <2>1, <2>2
<1>3. (World(g) /\ ctx \in [Levels -> Handles] /\ glide_ctx \in Handles)'
  BY <1>2 DEF Book, Tables
<1>4. TypeOK'
  <2>1. (TypeOK <=>
          /\ OtherTypes /\ World(g) /\ ctx \in [Levels -> Handles] /\ glide_ctx \in Handles /\ win_ready \in BOOLEAN
          /\ {win_size, readback} \subseteq Sizes \cup {0} /\ pbuffers \subseteq Pbuffers /\ frame \in Frames)'
    BY TypeSplit, PTL
  <2>2. QED
    BY <1>1, <1>3, <2>1 DEF Parts
<1>5. QED
  BY <1>2, <1>4 DEF BookInv

LEMMA BooksAfter ==
  ASSUME NEW w, NEW l, NEW P, Kept(w, l, P), Becomes(w), History, OtherTypes', glide_ctx' = l, pbuffers' = P, P \subseteq Pbuffers
  PROVE  BookInv'
<1>1. FreeAt(w.g, P, faults')
  BY DEF Kept, SlotsFree, FreeAt, History
<1>2. QED
  BY <1>1, BooksThen DEF Kept

LEMMA HistoryTypes == ASSUME History PROVE shared' \in BOOLEAN /\ bare' \in BOOLEAN
BY DEF History

LEMMA FaultyType ==
  ASSUME OtherTypes, NEW ok \in Outcomes, Faulty(ok) PROVE faults' \in 0..MaxFaults
<1>1. CASE ok
  BY <1>1 DEF OtherTypes, Faulty
<1>2. CASE ~ok
  <2>1. faults < MaxFaults
    BY <1>2 DEF Outcomes
  <2>2. faults' = faults + 1
    BY <1>2 DEF Faulty
  <2>3. QED
    BY <2>1, <2>2, GuestAssumption DEF OtherTypes
<1>3. QED
  BY <1>1, <1>2

LEMMA OthersAfter ==
  ASSUME OtherTypes, History, attribs' \in Lists \cup {None}, fx_active' \in BOOLEAN, glide_open' \in BOOLEAN,
         glide_res' \in Sizes \cup {0}, mode' \in Sizes, faults' \in 0..MaxFaults
  PROVE  OtherTypes'
BY HistoryTypes DEF OtherTypes, History

LEMMA PixelFormatBooks ==
  ASSUME BookInv, History, NEW set \in BOOLEAN, PixelFormat(set) PROVE BookInv'
<1>1. PICK ok \in Outcomes :
        /\ Becomes(IF set THEN Purged(Preset(Bundle, ok)) ELSE Preset(Bundle, ok)) /\ Faulty(ok)
        /\ UNCHANGED <<attribs, pbuffers, glide, fx_active, mode, shared>>
  BY DEF PixelFormat
<1> DEFINE w == Preset(Bundle, ok)
           z == [Bundle EXCEPT !.ready = TRUE, !.size = 0]
<1>2. Kept(Bundle, glide_ctx, pbuffers) /\ OtherTypes /\ pbuffers \subseteq Pbuffers
  BY BooksNow
<1>3. /\ IsBundle(z) /\ z.g = Bundle.g /\ z.ctx = Bundle.ctx /\ z.ready = TRUE /\ z.size = 0
      /\ z.readback = Bundle.readback /\ z.frame = Bundle.frame
  BY <1>2 DEF Kept, Parts, IsBundle
<1> HIDE DEF z
<1>4. Kept(z, glide_ctx, pbuffers)
  BY <1>2, <1>3 DEF Kept, Parts
<1>5. w = IF Bundle.ready THEN Bundle ELSE Resized(z, mode, ok)
  BY DEF Preset, z
<1> HIDE DEF w
<1>6. Kept(w, glide_ctx, pbuffers)
  BY <1>2, <1>4, <1>5, ResizedKept DEF OtherTypes
<1>7. Kept(Purged(w), glide_ctx, pbuffers)
  BY <1>6, DestroyedKept, Numbers DEF Purged
<1>8. OtherTypes'
  BY <1>1, <1>2, FaultyType, OthersAfter DEF glide, OtherTypes
<1>9. PICK v \in {w, Purged(w)} : Becomes(v)
  BY <1>1 DEF w
<1>10. QED
  BY <1>1, <1>2, <1>6, <1>7, <1>8, <1>9, BooksAfter DEF glide

LEMMA NoLevelsLeft ==
  ASSUME NEW w, NEW N, IsBundle(w)
  PROVE  /\ IsBundle(Destroyed(w, N)) /\ Destroyed(w, N).ctx = Cleared(w.ctx, N)
         /\ Destroyed(w, N).ready = w.ready /\ Destroyed(w, N).size = w.size
         /\ Destroyed(w, N).readback = w.readback /\ Destroyed(w, N).frame = w.frame
         /\ Destroyed(w, N).g = CtxDestroy(w.g, {w.ctx[n] : n \in N} \ {None}, w.ctx[0])
<1> DEFINE y == CtxDestroy(w.g, {w.ctx[n] : n \in N} \ {None}, w.ctx[0])
           d == Cleared(w.ctx, N)
<1>1. Destroyed(w, N) = [w EXCEPT !.g = y, !.ctx = d]
  BY DEF Destroyed, Cleared
<1> HIDE DEF y, d
<1>2. QED
  BY <1>1 DEF IsBundle, y, d

LEMMA CreateContextBooks ==
  ASSUME BookInv, History, NEW ok \in Outcomes, CreateContext(ok) PROVE BookInv'
<1> DEFINE w == Destroyed(Unbound(Bundle), Levels \ {0})
<1>1. /\ Becomes(IF w.ctx[0] = None THEN Created(w, 0, None, ok) ELSE w) /\ Faulty(ok)
      /\ UNCHANGED <<attribs, pbuffers, glide, fx_active, mode>>
  BY DEF CreateContext
<1>2. Kept(Bundle, glide_ctx, pbuffers) /\ OtherTypes /\ pbuffers \subseteq Pbuffers
  BY BooksNow
<1>3. Kept(Unbound(Bundle), glide_ctx, pbuffers)
  BY <1>2, UnboundKept
<1>4. Kept(w, glide_ctx, pbuffers)
  BY <1>3, DestroyedKept
<1>5. \A j \in Levels \ {0} : w.ctx[j] = None
  BY <1>3, NoLevelsLeft DEF Kept, Parts, Cleared
<1> HIDE DEF w
<1>6. w.ctx[0] = None => Kept(Created(w, 0, None, ok), glide_ctx, pbuffers)
  BY <1>4, <1>5, CreatedKept, Numbers
<1>7. OtherTypes'
  BY <1>1, <1>2, FaultyType, OthersAfter DEF glide, OtherTypes
<1>8. PICK v : Becomes(v) /\ Kept(v, glide_ctx, pbuffers)
  BY <1>1, <1>4, <1>6
<1>9. QED
  BY <1>1, <1>2, <1>7, <1>8, BooksAfter DEF glide

LEMMA CreateMainBooks ==
  ASSUME BookInv, History, NEW list \in Lists, NEW ok \in Outcomes, CreateMain(list, ok) PROVE BookInv'
<1> DEFINE w == Unbound(Bundle)
           d == Destroyed(w, Levels)
<1>1. /\ Becomes(IF attribs = list THEN w ELSE Created(d, 0, None, ok)) /\ Faulty(ok)
      /\ attribs' = list /\ fx_active' = (fx_active /\ attribs = list) /\ UNCHANGED <<pbuffers, glide, mode>>
  BY DEF CreateMain
<1>2. Kept(Bundle, glide_ctx, pbuffers) /\ OtherTypes /\ pbuffers \subseteq Pbuffers
  BY BooksNow
<1>3. Kept(w, glide_ctx, pbuffers)
  BY <1>2, UnboundKept
<1>4. Kept(d, glide_ctx, pbuffers)
  BY <1>3, DestroyedKept
<1>5. \A j \in Levels : d.ctx[j] = None
  <2>1. IsBundle(w)
    BY <1>3 DEF Kept, Parts
  <2> HIDE DEF w
  <2>2. d.ctx = Cleared(w.ctx, Levels)
    BY <2>1, NoLevelsLeft
  <2>3. QED
    BY <2>2 DEF Cleared
<1> HIDE DEF d
<1>6. Kept(Created(d, 0, None, ok), glide_ctx, pbuffers)
  BY <1>4, <1>5, CreatedKept, Numbers
<1>7. fx_active' \in BOOLEAN
  BY <1>1
<1>8. OtherTypes'
  BY <1>1, <1>2, <1>7, FaultyType, OthersAfter DEF glide, OtherTypes
<1>9. PICK v : Becomes(v) /\ Kept(v, glide_ctx, pbuffers)
  BY <1>1, <1>3, <1>6
<1>10. QED
  BY <1>1, <1>2, <1>8, <1>9, BooksAfter DEF glide
LEMMA CreatedIs ==
  ASSUME NEW w, IsBundle(w), w.ctx \in [Levels -> Handles], NEW n \in Levels, NEW share, NEW ok \in BOOLEAN
  PROVE  LET r == Created(w, n, share, ok) IN
         /\ IsBundle(r) /\ r.ctx = [w.ctx EXCEPT ![n] = IF ok THEN Fresh(w.g) ELSE None]
         /\ r.g = IF ok THEN CtxCreate(w.g, share) ELSE w.g
         /\ r.ready = w.ready /\ r.size = w.size /\ r.readback = w.readback /\ r.frame = w.frame
<1> DEFINE y == CtxCreate(w.g, share)
           k == Fresh(w.g)
           a == [w EXCEPT !.ctx = [w.ctx EXCEPT ![n] = None]]
           b == [w EXCEPT !.ctx = [w.ctx EXCEPT ![n] = k], !.g = y]
<1>1. Created(w, n, share, ok) = IF ~ok THEN a ELSE b
  BY DEF Created, IsBundle
<1> HIDE DEF y, k
<1>2. /\ IsBundle(a) /\ a.ctx = [w.ctx EXCEPT ![n] = None] /\ a.g = w.g
      /\ a.ready = w.ready /\ a.size = w.size /\ a.readback = w.readback /\ a.frame = w.frame
  BY DEF IsBundle
<1>3. /\ IsBundle(b) /\ b.ctx = [w.ctx EXCEPT ![n] = k] /\ b.g = y
      /\ b.ready = w.ready /\ b.size = w.size /\ b.readback = w.readback /\ b.frame = w.frame
  BY DEF IsBundle
<1> HIDE DEF a, b
<1>4. CASE ok
  BY <1>1, <1>3, <1>4 DEF y, k
<1>5. CASE ~ok
  BY <1>1, <1>2, <1>5 DEF y, k
<1>6. QED
  BY <1>4, <1>5

LEMMA SameBundle ==
  ASSUME NEW a, NEW b, IsBundle(a), IsBundle(b), a.g = b.g, a.ctx = b.ctx, a.ready = b.ready, a.size = b.size,
         a.readback = b.readback, a.frame = b.frame
  PROVE  a = b
BY DEF IsBundle

LEMMA ShiftedIs ==
  ASSUME NEW w, IsBundle(w)
  PROVE  LET r == Shifted(w) IN
         /\ IsBundle(r) /\ r.g = CtxDestroy(w.g, {w.ctx[1]}, w.ctx[0])
         /\ r.ctx = [n \in Levels |-> IF n \in 1..MaxLevels - 2 THEN w.ctx[n + 1] ELSE w.ctx[n]]
         /\ r.ready = w.ready /\ r.size = w.size /\ r.readback = w.readback /\ r.frame = w.frame
<1> DEFINE y == CtxDestroy(w.g, {w.ctx[1]}, w.ctx[0])
           d == [n \in Levels |-> IF n \in 1..MaxLevels - 2 THEN w.ctx[n + 1] ELSE w.ctx[n]]
<1>1. Shifted(w) = [w EXCEPT !.g = y, !.ctx = d]
  BY DEF Shifted
<1> HIDE DEF y, d
<1>2. QED
  BY <1>1 DEF IsBundle, y, d

(* With every level in use, a new one takes the place of level 1: what was  *)
(* copied to the last place is overwritten there.                           *)
MadeRoom(w) == [w EXCEPT !.g = CtxDestroy(w.g, {w.ctx[1]}, w.ctx[0]), !.ctx = ShiftedTable(w.ctx)]

LEMMA MadeRoomIs ==
  ASSUME NEW w, IsBundle(w)
  PROVE  LET z == MadeRoom(w) IN
         /\ IsBundle(z) /\ z.g = CtxDestroy(w.g, {w.ctx[1]}, w.ctx[0]) /\ z.ctx = ShiftedTable(w.ctx)
         /\ z.ready = w.ready /\ z.size = w.size /\ z.readback = w.readback /\ z.frame = w.frame
<1> DEFINE y == CtxDestroy(w.g, {w.ctx[1]}, w.ctx[0])
           d == ShiftedTable(w.ctx)
<1>1. MadeRoom(w) = [w EXCEPT !.g = y, !.ctx = d]
  BY DEF MadeRoom
<1> HIDE DEF y, d
<1>2. QED
  BY <1>1 DEF IsBundle, y, d

LEMMA PushedIs ==
  ASSUME NEW w, IsBundle(w), w.ctx \in [Levels -> Handles], \A n \in Levels : w.ctx[n] # None, NEW ok \in BOOLEAN
  PROVE  LET m     == MaxLevels - 1
             share == MadeRoom(w).ctx[MaxLevels - 2]
         IN /\ Created(Shifted(w), m, Shifted(w).ctx[MaxLevels - 2], ok) = Created(MadeRoom(w), m, share, ok)
            /\ m \in Levels /\ m # 0 /\ MadeRoom(w).ctx[m] = None
            /\ MaxLevels - 2 \in Levels /\ share # None
<1> DEFINE s == Shifted(w)
           y == CtxDestroy(w.g, {w.ctx[1]}, w.ctx[0])
           z == MadeRoom(w)
           m == MaxLevels - 1
           share == s.ctx[MaxLevels - 2]
<1>1. MaxLevels \in Nat /\ MaxLevels > 1 /\ Levels = 0..m /\ m \in Levels /\ 1 \in Levels /\ 0 \in Levels
  BY Numbers DEF Levels
<1>2. /\ IsBundle(z) /\ z.g = y /\ z.ctx = ShiftedTable(w.ctx) /\ z.ready = w.ready /\ z.size = w.size
      /\ z.readback = w.readback /\ z.frame = w.frame
  BY MadeRoomIs
<1>3. /\ IsBundle(s) /\ s.g = y /\ s.ready = w.ready /\ s.size = w.size /\ s.readback = w.readback /\ s.frame = w.frame
      /\ s.ctx = [n \in Levels |-> IF n \in 1..MaxLevels - 2 THEN w.ctx[n + 1] ELSE w.ctx[n]]
  BY ShiftedIs
<1> HIDE DEF s, y, z
<1>4. s.ctx \in [Levels -> Handles] /\ z.ctx \in [Levels -> Handles]
  BY <1>1, <1>2, <1>3 DEF ShiftedTable, Handles
<1>5. \A n \in Levels \ {m} : s.ctx[n] = z.ctx[n] /\ z.ctx[n] # None
  BY <1>1, <1>2, <1>3 DEF ShiftedTable
<1>6. z.ctx[m] = None
  BY <1>1, <1>2 DEF ShiftedTable
<1>7. share = z.ctx[MaxLevels - 2] /\ share # None /\ MaxLevels - 2 \in Levels /\ m # 0
  BY <1>1, <1>5
<1> HIDE DEF m
<1>8. [s.ctx EXCEPT ![m] = IF ok THEN Fresh(y) ELSE None] = [z.ctx EXCEPT ![m] = IF ok THEN Fresh(y) ELSE None]
  BY <1>1, <1>4, <1>5
<1>9. Created(s, m, share, ok) = Created(z, m, share, ok)
  <2> HIDE DEF share
  <2> DEFINE a == Created(s, m, share, ok)
             b == Created(z, m, share, ok)
  <2>1. /\ IsBundle(a) /\ a.ctx = [s.ctx EXCEPT ![m] = IF ok THEN Fresh(s.g) ELSE None]
        /\ a.g = (IF ok THEN CtxCreate(s.g, share) ELSE s.g)
        /\ a.ready = s.ready /\ a.size = s.size /\ a.readback = s.readback /\ a.frame = s.frame
    <3>1. IsBundle(s) /\ s.ctx \in [Levels -> Handles] /\ m \in Levels
      BY <1>1, <1>3, <1>4
    <3>2. QED
      BY <3>1, CreatedIs
  <2>2. /\ IsBundle(b) /\ b.ctx = [z.ctx EXCEPT ![m] = IF ok THEN Fresh(z.g) ELSE None]
        /\ b.g = (IF ok THEN CtxCreate(z.g, share) ELSE z.g)
        /\ b.ready = z.ready /\ b.size = z.size /\ b.readback = z.readback /\ b.frame = z.frame
    BY <1>1, <1>2, <1>4, CreatedIs
  <2> HIDE DEF a, b
  <2>3. a.g = b.g /\ a.ctx = b.ctx
    BY <1>2, <1>3, <1>8, <2>1, <2>2
  <2>4. a = b
    BY <1>2, <1>3, <2>1, <2>2, <2>3, SameBundle
  <2>5. QED
    BY <2>4 DEF a, b
<1>10. QED
  BY <1>1, <1>6, <1>7, <1>9 DEF s, m, z

LEMMA PushedKept ==
  ASSUME NEW w, NEW l, NEW P, Kept(w, l, P), \A n \in Levels : w.ctx[n] # None, NEW ok \in BOOLEAN
  PROVE  Kept(Created(Shifted(w), MaxLevels - 1, Shifted(w).ctx[MaxLevels - 2], ok), l, P)
<1> DEFINE z == MadeRoom(w)
           m == MaxLevels - 1
           share == z.ctx[MaxLevels - 2]
<1>1. IsBundle(w) /\ w.ctx \in [Levels -> Handles]
  BY DEF Kept, Parts, Book, Tables
<1>2. /\ Created(Shifted(w), m, Shifted(w).ctx[MaxLevels - 2], ok) = Created(z, m, share, ok)
      /\ m \in Levels /\ m # 0 /\ z.ctx[m] = None /\ MaxLevels - 2 \in Levels /\ share # None
  BY <1>1, PushedIs
<1>3. Moved(w.ctx, ShiftedTable(w.ctx), {w.ctx[1]} \ {None})
  <2>1. {w.ctx[1]} \ {None} = {w.ctx[1]}
    BY Numbers
  <2>2. Moved(w.ctx, ShiftedTable(w.ctx), {w.ctx[1]})
    BY ShiftMoved DEF Kept
  <2>3. QED
    BY <2>1, <2>2
<1>4. Kept(z, l, P)
  BY <1>3, DropKept, Numbers DEF MadeRoom
<1> HIDE DEF z, m
<1>5. share \in z.g.live /\ (z.ctx[0] # None => z.g.group[share] = z.g.group[z.ctx[0]])
  BY <1>2, <1>4 DEF Kept, Book, LevelsLive, Share
<1>6. Kept(Created(z, m, share, ok), l, P)
  BY <1>2, <1>4, <1>5, CreatedKept
<1>7. QED
  BY <1>2, <1>6 DEF m

LEMMA CreateLevelBooks ==
  ASSUME BookInv, History, NEW ok \in Outcomes, CreateLevel(ok) PROVE BookInv'
<1> DEFINE free == {n \in Levels : ctx[n] = None}
<1>1. Kept(Bundle, glide_ctx, pbuffers) /\ OtherTypes /\ pbuffers \subseteq Pbuffers /\ Bundle.ctx = ctx /\ Bundle.g = g
  BY BooksNow
<1>2. ctx[0] # None /\ Faulty(ok) /\ UNCHANGED <<attribs, pbuffers, glide, fx_active, mode>>
  BY DEF CreateLevel
<1>3. OtherTypes'
  BY <1>1, <1>2, FaultyType, OthersAfter DEF glide, OtherTypes
<1>4. ok \in BOOLEAN
  BY DEF Outcomes
<1>5. CASE free = {}
  <2>1. \A n \in Levels : Bundle.ctx[n] # None
    BY <1>1, <1>5
  <2>2. Kept(Created(Shifted(Bundle), MaxLevels - 1, Shifted(Bundle).ctx[MaxLevels - 2], ok), glide_ctx, pbuffers)
    BY <1>1, <1>4, <2>1, PushedKept
  <2>3. Becomes(Created(Shifted(Bundle), MaxLevels - 1, Shifted(Bundle).ctx[MaxLevels - 1 - 1], ok))
    BY <1>5 DEF CreateLevel
  <2>4. MaxLevels - 1 - 1 = MaxLevels - 2
    BY Numbers
  <2>5. QED
    BY <1>1, <1>2, <1>3, <2>2, <2>3, <2>4, BooksAfter DEF glide
<1>6. CASE free # {}
  <2> DEFINE n == Min(free)
  <2>1. Becomes(Created(Bundle, n, Bundle.ctx[n - 1], ok))
    BY <1>6 DEF CreateLevel
  <2>2. free \in SUBSET Nat
    BY DEF Levels
  <2>3. n \in free /\ \A j \in free : n <= j
    BY <1>6, <2>2, MinOf
  <2> HIDE DEF n
  <2>4. n \in Levels /\ ctx[n] = None /\ n # 0
    BY <1>2, <2>3
  <2>5. n - 1 \in Levels /\ n - 1 < n
    BY <2>4, Numbers DEF Levels
  <2>6. ctx[n - 1] # None
    BY <2>2, <2>3, <2>5 DEF Levels
  <2>7. /\ Bundle.ctx[n - 1] \in Bundle.g.live
        /\ Bundle.ctx[0] # None => Bundle.g.group[Bundle.ctx[n - 1]] = Bundle.g.group[Bundle.ctx[0]]
    BY <1>1, <2>5, <2>6 DEF Kept, Book, LevelsLive, Share
  <2>8. Kept(Created(Bundle, n, Bundle.ctx[n - 1], ok), glide_ctx, pbuffers)
    BY <1>1, <2>4, <2>7, CreatedKept
  <2>9. QED
    BY <1>1, <1>2, <1>3, <2>1, <2>8, BooksAfter DEF glide
<1>7. QED
  BY <1>5, <1>6
LEMMA MakeLevelCurrentBooks ==
  ASSUME BookInv, History, NEW n \in Levels, NEW ok \in Outcomes, MakeLevelCurrent(n, ok) PROVE BookInv'
<1> DEFINE w == Resized(Bundle, mode, ok)
<1>1. /\ Becomes([w EXCEPT !.g = MakeCurrent(w.g, ctx[n], w.size)]) /\ Faulty(ok)
      /\ fx_active' = (fx_active \/ n = 0) /\ UNCHANGED <<attribs, pbuffers, glide, mode>>
  BY DEF MakeLevelCurrent
<1>2. Kept(Bundle, glide_ctx, pbuffers) /\ OtherTypes /\ pbuffers \subseteq Pbuffers /\ Bundle.ctx = ctx
  BY BooksNow
<1>3. Kept(w, glide_ctx, pbuffers)
  BY <1>2, ResizedKept DEF OtherTypes
<1>4. w.ctx = ctx
  BY <1>2, ResizedIs DEF Kept, Parts
<1> HIDE DEF w
<1>5. Kept([w EXCEPT !.g = MakeCurrent(w.g, ctx[n], w.size)], glide_ctx, pbuffers)
  BY <1>3, <1>4, LevelCurrentKept
<1>6. fx_active' \in BOOLEAN
  BY <1>1
<1>7. OtherTypes'
  BY <1>1, <1>2, <1>6, FaultyType, OthersAfter DEF glide, OtherTypes
<1>8. QED
  BY <1>1, <1>2, <1>5, <1>7, BooksAfter DEF glide

LEMMA SwapBuffersBooks ==
  ASSUME BookInv, History, NEW taken, NEW ok \in Outcomes, SwapBuffers(taken, ok) PROVE BookInv'
<1>1. /\ Becomes(Presented(Bundle, taken, ok)) /\ Faulty(ok) /\ fx_active' = TRUE
      /\ UNCHANGED <<attribs, pbuffers, glide, mode>>
  BY DEF SwapBuffers
<1>2. Kept(Bundle, glide_ctx, pbuffers) /\ OtherTypes /\ pbuffers \subseteq Pbuffers
  BY BooksNow
<1>3. Kept(Presented(Bundle, taken, ok), glide_ctx, pbuffers)
  BY <1>2, PresentedKept DEF OtherTypes
<1>4. OtherTypes'
  BY <1>1, <1>2, FaultyType, OthersAfter DEF glide, OtherTypes
<1>5. QED
  BY <1>1, <1>2, <1>3, <1>4, BooksAfter DEF glide

LEMMA FlushFrontBooks ==
  ASSUME BookInv, History, NEW taken, FlushFront(taken) PROVE BookInv'
<1>1. /\ Becomes(Presented(Bundle, taken, TRUE)) /\ UNCHANGED <<attribs, pbuffers, glide, fx_active, mode, faults>>
  BY DEF FlushFront
<1>2. Kept(Bundle, glide_ctx, pbuffers) /\ OtherTypes /\ pbuffers \subseteq Pbuffers
  BY BooksNow
<1>3. Kept(Presented(Bundle, taken, TRUE), glide_ctx, pbuffers)
  BY <1>2, PresentedKept DEF OtherTypes
<1>4. OtherTypes'
  BY <1>1, <1>2, OthersAfter DEF glide, OtherTypes
<1>5. QED
  BY <1>1, <1>2, <1>3, <1>4, BooksAfter DEF glide

LEMMA DeleteContextBooks ==
  ASSUME BookInv, History, NEW n \in Levels, DeleteContext(n) PROVE BookInv'
<1> DEFINE w == Unbound(Bundle)
           C == {ctx[n]}
           v == [w EXCEPT !.g = CtxDestroy(w.g, C, ctx[0]), !.ctx = [w.ctx EXCEPT ![n] = None]]
<1>1. /\ fx_active' = (fx_active /\ n # 0) /\ UNCHANGED <<attribs, pbuffers, glide, mode, faults>>
  BY DEF DeleteContext
<1>2. Kept(Bundle, glide_ctx, pbuffers) /\ OtherTypes /\ pbuffers \subseteq Pbuffers /\ Bundle.ctx = ctx
  BY BooksNow
<1>3. Kept(w, glide_ctx, pbuffers)
  BY <1>2, UnboundKept
<1>4. w.ctx = ctx /\ IsBundle(w) /\ ctx \in [Levels -> Handles]
  <2>1. w = [Bundle EXCEPT !.g = Unbind(Bundle.g)] /\ IsBundle(Bundle)
    BY <1>2 DEF Unbound, Kept, Parts
  <2>2. w.ctx = ctx
    BY <1>2, <2>1 DEF IsBundle
  <2>3. QED
    BY <1>3, <2>2 DEF Kept, Parts, Book, Tables
<1>5. Becomes(IF n = 0 THEN Destroyed(w, Levels \ {0}) ELSE v)
  BY <1>4 DEF DeleteContext, IsBundle
<1> HIDE DEF w
<1>6. Kept(Destroyed(w, Levels \ {0}), glide_ctx, pbuffers)
  BY <1>3, DestroyedKept
<1>7. [w.ctx EXCEPT ![n] = None] = Cleared(w.ctx, {n})
  BY <1>4 DEF Cleared
<1>8. Moved(w.ctx, Cleared(w.ctx, {n}), C \ {None})
  BY <1>3, <1>4, ClearedMoved DEF Kept
<1>9. \A z \in C \ {None} : \E j \in Levels : w.ctx[j] = z
  BY <1>4
<1>10. Kept(v, glide_ctx, pbuffers)
  BY <1>3, <1>7, <1>8, <1>9, DropKept
<1> HIDE DEF v
<1>11. PICK u : Becomes(u) /\ Kept(u, glide_ctx, pbuffers)
  BY <1>5, <1>6, <1>10
<1>12. fx_active' \in BOOLEAN
  BY <1>1
<1>13. OtherTypes'
  BY <1>1, <1>2, <1>12, OthersAfter DEF glide, OtherTypes
<1>14. QED
  BY <1>1, <1>2, <1>11, <1>13, BooksAfter DEF glide

LEMMA WndReleaseBooks == ASSUME BookInv, History, WndRelease PROVE BookInv'
<1> DEFINE w == Destroyed(Unbound(Bundle), {0})
<1>1. /\ Becomes([w EXCEPT !.g = DrawableRelease(w.g), !.size = 0, !.ready = FALSE])
      /\ attribs' = None /\ fx_active' = FALSE /\ UNCHANGED <<pbuffers, glide, mode, faults>>
  BY DEF WndRelease
<1>2. Kept(Bundle, glide_ctx, pbuffers) /\ OtherTypes /\ pbuffers \subseteq Pbuffers
  BY BooksNow
<1>3. Kept(w, glide_ctx, pbuffers)
  BY <1>2, UnboundKept, DestroyedKept, Numbers
<1> HIDE DEF w
<1>4. Kept([w EXCEPT !.g = DrawableRelease(w.g), !.size = 0, !.ready = FALSE], glide_ctx, pbuffers)
  BY <1>3, ReleasedKept
<1>5. OtherTypes'
  BY <1>1, <1>2, OthersAfter DEF glide, OtherTypes
<1>6. QED
  BY <1>1, <1>2, <1>4, <1>5, BooksAfter DEF glide

(* The same contexts, and nothing else of the bundle. *)
LEMMA StayBooks ==
  ASSUME BookInv, History, Becomes(Bundle), UNCHANGED <<attribs, pbuffers, glide_ctx>>,
         glide_open' \in BOOLEAN, fx_active' \in BOOLEAN, glide_res' \in Sizes \cup {0}, mode' \in Sizes, faults' \in 0..MaxFaults
  PROVE  BookInv'
<1>1. Kept(Bundle, glide_ctx, pbuffers) /\ OtherTypes /\ pbuffers \subseteq Pbuffers
  BY BooksNow
<1>2. OtherTypes'
  BY <1>1, OthersAfter DEF OtherTypes
<1>3. QED
  BY <1>1, <1>2, BooksAfter

LEMMA MakePbufferCurrentBooks ==
  ASSUME BookInv, History, NEW i \in Pbuffers, MakePbufferCurrent(i) PROVE BookInv'
<1> DEFINE y == PbufferCurrent(g, i)
<1>1. Kept(Bundle, glide_ctx, pbuffers) /\ OtherTypes /\ pbuffers \subseteq Pbuffers /\ Bundle.g = g
  BY BooksNow
<1>2. /\ Becomes([Bundle EXCEPT !.g = y]) /\ UNCHANGED <<attribs, pbuffers, glide, fx_active, mode, faults>>
  BY <1>1 DEF MakePbufferCurrent
<1>3. World(g)
  BY DEF BookInv, Book, Tables
<1>4. World(y) /\ KeepsBooks(g, y)
  BY <1>3 DEF PbufferCurrent, World, KeepsBooks
<1> HIDE DEF y
<1>5. Kept([Bundle EXCEPT !.g = y], glide_ctx, pbuffers)
  BY <1>1, <1>4, KeptWorld
<1>6. OtherTypes'
  BY <1>1, <1>2, OthersAfter DEF glide, OtherTypes
<1>7. QED
  BY <1>1, <1>2, <1>5, <1>6, BooksAfter DEF glide
LEMMA PbufferThen ==
  ASSUME BookInv, History, NEW y, Book(y, ctx, glide_ctx), NEW P \in SUBSET Pbuffers, FreeAt(y, P, faults'),
         Becomes([Bundle EXCEPT !.g = y]), pbuffers' = P, UNCHANGED <<attribs, glide, fx_active, mode>>, faults' \in 0..MaxFaults
  PROVE  BookInv'
<1> DEFINE w == [Bundle EXCEPT !.g = y]
<1>1. Kept(Bundle, glide_ctx, pbuffers) /\ OtherTypes /\ Bundle.ctx = ctx
  BY BooksNow
<1>2. /\ IsBundle(w) /\ w.g = y /\ w.ctx = ctx /\ w.ready = Bundle.ready /\ w.size = Bundle.size
      /\ w.readback = Bundle.readback /\ w.frame = Bundle.frame
  BY <1>1 DEF Kept, Parts, IsBundle
<1> HIDE DEF w
<1>3. Parts(w) /\ Book(w.g, w.ctx, glide_ctx) /\ FreeAt(w.g, P, faults')
  BY <1>1, <1>2 DEF Kept, Parts
<1>4. OtherTypes'
  BY <1>1, OthersAfter DEF glide, OtherTypes
<1>5. Becomes(w)
  BY DEF w
<1>6. QED
  BY <1>3, <1>4, <1>5, BooksThen DEF glide

LEMMA PbufferAfter ==
  ASSUME BookInv, History, NEW y, Book(y, ctx, glide_ctx), NEW P \in SUBSET Pbuffers, SlotsFree(y, P),
         Becomes([Bundle EXCEPT !.g = y]), pbuffers' = P, UNCHANGED <<attribs, glide, fx_active, mode, faults>>
  PROVE  BookInv'
<1>1. FreeAt(y, P, faults') /\ faults' \in 0..MaxFaults
  BY BooksNow DEF SlotsFree, OtherTypes
<1>2. QED
  BY <1>1, PbufferThen

(* The handle of a slot is given up, and the context it names is lost. *)
Forgets(x, i) == [x EXCEPT !.pb[i] = None, !.lost = @ \cup ({x.pb[i]} \ {None})]

LEMMA BookForgets ==
  ASSUME NEW x, NEW c, NEW l, Book(x, c, l), Paged(x), NEW i \in Pbuffers, x.os # "linux" => x.pb[i] = None
  PROVE  LET y == Forgets(x, i) IN
         /\ Book(y, c, l) /\ y.os = x.os /\ y.live = x.live /\ y.group = x.group
         /\ y.pb[i] = None /\ \A j \in Pbuffers \ {i} : y.pb[j] = x.pb[j]
         /\ x.pb[i] = None => y.lost = x.lost
<1> DEFINE y == Forgets(x, i)
           pb == [x.pb EXCEPT ![i] = None]
           lost == x.lost \cup ({x.pb[i]} \ {None})
<1>1. World(x) /\ (x.pb[i] # None => x.pb[i] \in x.live)
  BY DEF Book, Tables, PbuffersLive
<1>2. pb \in [Pbuffers -> Contexts \cup {None, Gone}] /\ lost \in SUBSET Contexts
  BY <1>1 DEF World
<1>3. y = [x EXCEPT !.pb = pb, !.lost = lost]
  BY <1>1 DEF Forgets, World
<1>4. pb[i] = None /\ \A j \in Pbuffers \ {i} : pb[j] = x.pb[j]
  BY <1>1 DEF World
<1> HIDE DEF pb, y
<1>5. World(y) /\ y.os = x.os /\ y.live = x.live /\ y.group = x.group /\ y.pb = pb /\ y.lost = lost
  BY <1>1, <1>2, <1>3 DEF World
<1>6. Tables(y, c, l) /\ LevelsLive(y, c) /\ GlideLive(y, l) /\ Share(y, c)
  BY <1>5 DEF Book, Tables, LevelsLive, GlideLive, Share
<1>7. PbuffersLive(y) /\ PbuffersApart(y) /\ PbuffersBeside(y, c, l)
  BY <1>4, <1>5 DEF Book, PbuffersLive, PbuffersApart, PbuffersBeside, Paged
<1>8. NoneLost(y, c, l)
  <2>1. ASSUME NEW z \in y.live \ y.lost
        PROVE  (\E n \in Levels : c[n] = z) \/ z = l \/ (Paged(y) /\ \E j \in Pbuffers : y.pb[j] = z)
    <3>1. z \in x.live \ x.lost /\ (z # None => x.pb[i] # z) /\ z # None
      BY <1>1, <1>5, Numbers DEF World
    <3>2. (\E n \in Levels : c[n] = z) \/ z = l \/ (Paged(x) /\ \E j \in Pbuffers : x.pb[j] = z)
      BY <3>1 DEF Book, NoneLost
    <3>3. QED
      BY <1>4, <1>5, <3>1, <3>2 DEF Paged
  <2>2. QED
    BY <2>1 DEF NoneLost
<1>9. LostApart(y, c, l)
  <2>1. ASSUME NEW z \in y.lost
        PROVE  /\ y.os = "linux" /\ z \in y.live /\ z # l /\ \A n \in Levels : c[n] # z
               /\ Paged(y) => \A j \in Pbuffers : y.pb[j] # z
    <3>1. CASE z \in x.lost
      <4>1. /\ x.os = "linux" /\ z \in x.live /\ z # l /\ (\A n \in Levels : c[n] # z) /\ (\A j \in Pbuffers : x.pb[j] # z)
        BY <3>1 DEF Book, LostApart
      <4>2. z # None
        BY <1>1, <4>1, Numbers DEF World
      <4>3. QED
        BY <1>4, <1>5, <4>1, <4>2
    <3>2. CASE z = x.pb[i] /\ z # None
      <4>1. x.os = "linux" /\ z \in x.live /\ z # l /\ \A n \in Levels : c[n] # z
        BY <1>1, <3>2 DEF Book, PbuffersBeside
      <4>2. \A j \in Pbuffers \ {i} : x.pb[j] # z
        BY <3>2 DEF Book, PbuffersApart
      <4>3. QED
        BY <1>4, <1>5, <3>2, <4>1, <4>2
    <3>3. QED
      BY <1>5, <2>1, <3>1, <3>2
  <2>2. QED
    BY <2>1 DEF LostApart
<1>10. Book(y, c, l)
  BY <1>6, <1>7, <1>8, <1>9 DEF Book
<1>11. x.pb[i] = None => lost = x.lost
  OBVIOUS
<1> HIDE DEF lost
<1>12. QED
  BY <1>4, <1>5, <1>10, <1>11 DEF y

(* What a pbuffer's creation with a new context comes to. *)
LEMMA PbufferNewIs ==
  ASSUME NEW x, World(x), IsFiniteSet(x.live), NEW i \in Pbuffers, NEW how, how # "context"
  PROVE  LET y == PbufferContext(x, i, how)
             k == Fresh(x)
             f == Forgets(x, i) IN
         /\ World(f) => World(y) /\ Makes(f, y, k)
         /\ k \in Contexts \ x.live /\ y.live = x.live \cup {k}
         /\ y.pb[i] = k /\ \A j \in Pbuffers \ {i} : y.pb[j] = x.pb[j]
         /\ y.os = x.os /\ y.cur = x.cur /\ y.onwin = x.onwin /\ y.win = x.win /\ y.zc = x.zc /\ y.ring = x.ring
         /\ y.lost = f.lost
<1> DEFINE k == Fresh(x)
           z == CtxCreate(x, x.cur)
           y == PbufferContext(x, i, how)
           pb == [x.pb EXCEPT ![i] = k]
           lost == x.lost \cup ({x.pb[i]} \ {None})
           none == [x.pb EXCEPT ![i] = None]
           f == Forgets(x, i)
<1>1. /\ World(z) /\ k \in Contexts \ x.live /\ z.live = x.live \cup {k}
      /\ \A d \in x.live : z.group[d] = x.group[d]
  BY CreateEffect
<1>2. /\ z.os = x.os /\ z.cur = x.cur /\ z.onwin = x.onwin /\ z.win = x.win /\ z.pb = x.pb /\ z.lost = x.lost
      /\ z.zc = x.zc /\ z.ring = x.ring
  BY CreateKeeps
<1>3. y = [z EXCEPT !.pb[i] = k, !.lost = z.lost \cup ({x.pb[i]} \ {None})]
  BY DEF PbufferContext
<1>4. f = [x EXCEPT !.pb = none, !.lost = lost]
  BY DEF Forgets, World
<1>5. pb[i] = k /\ \A j \in Pbuffers \ {i} : pb[j] = x.pb[j]
  BY DEF World
<1> HIDE DEF z, y, k, f
<1>6. y = [z EXCEPT !.pb = pb, !.lost = lost]
  BY <1>1, <1>2, <1>3 DEF World
<1>7. pb \in [Pbuffers -> Contexts \cup {None, Gone}]
  BY <1>1 DEF World
<1> HIDE DEF pb, lost, none
<1>8. f.os = x.os /\ f.live = x.live /\ f.group = x.group /\ f.lost = lost
  BY <1>4 DEF World
<1>9. /\ y.os = z.os /\ y.live = z.live /\ y.group = z.group /\ y.pb = pb /\ y.lost = lost /\ y.cur = z.cur
      /\ y.onwin = z.onwin /\ y.win = z.win /\ y.zc = z.zc /\ y.ring = z.ring
  BY <1>1, <1>6 DEF World
<1>10. ASSUME World(f) PROVE World(y)
  <2>1. lost \in SUBSET Contexts
    BY <1>8, <1>10 DEF World
  <2>2. QED
    BY <1>1, <1>6, <1>7, <2>1 DEF World
<1>11. Makes(f, y, k)
  BY <1>1, <1>2, <1>8, <1>9 DEF Makes
<1>12. QED
  BY <1>1, <1>2, <1>5, <1>8, <1>9, <1>10, <1>11 DEF y, k, f

LEMMA CreatePbufferBooks ==
  ASSUME BookInv, History, NEW how \in Answers(g), CreatePbuffer(how) PROVE BookInv'
<1> DEFINE i == Min(Pbuffers \ pbuffers)
           y == PbufferCreate(g, i, how)
           P == IF how = "made" THEN pbuffers \cup {i} ELSE pbuffers
           k == Fresh(g)
           f == Forgets(g, i)
<1>1. /\ World(g) /\ IsFiniteSet(g.live) /\ pbuffers \subseteq Pbuffers /\ glide_ctx \in Handles /\ ctx \in [Levels -> Handles]
      /\ Book(g, ctx, glide_ctx)
  BY BooksNow DEF BookInv, Book, Tables
<1>2. /\ Becomes([Bundle EXCEPT !.g = y]) /\ pbuffers' = P /\ pbuffers # Pbuffers
      /\ UNCHANGED <<attribs, glide, fx_active, mode>> /\ (how = "made") \in Outcomes /\ Faulty(how = "made")
  BY BooksNow DEF CreatePbuffer
<1>3. i \in Pbuffers \ pbuffers
  <2>1. Pbuffers \ pbuffers # {}
    BY <1>1, <1>2
  <2>2. Pbuffers \ pbuffers \in SUBSET Nat
    BY Numbers DEF Pbuffers
  <2>3. QED
    BY <2>1, <2>2, MinOf
<1> HIDE DEF i
<1>4. P \in SUBSET Pbuffers /\ pbuffers \subseteq P
  BY <1>1, <1>3
<1>5. faults' \in 0..MaxFaults /\ faults' \in {faults, faults + 1} /\ faults \in Nat
  <2>1. OtherTypes /\ faults \in Nat
    BY BooksNow, GuestAssumption DEF OtherTypes
  <2>2. faults' \in 0..MaxFaults
    BY <1>2, <2>1, FaultyType
  <2>3. QED
    BY <1>2, <2>1, <2>2 DEF Faulty
<1>6. SlotsFree(g, pbuffers)
  BY DEF BookInv
<1>7. CASE how \in {"config", "pbuffer"}
  <2>1. y = g
    BY <1>7 DEF PbufferCreate
  <2>2. FreeAt(y, P, faults')
    BY <1>4, <1>5, <1>6, <2>1 DEF SlotsFree, FreeAt
  <2> HIDE DEF y, P
  <2>3. QED
    BY <1>1, <1>2, <1>4, <1>5, <2>1, <2>2, PbufferThen
<1>8. CASE how \notin {"config", "pbuffer"} /\ g.os = "macos"
  <2>1. y = [g EXCEPT !.pb = [g.pb EXCEPT ![i] = g.cur]]
    BY <1>1, <1>8 DEF PbufferCreate, PbufferFbo, World
  <2>2. World(y) /\ KeepsBooks(g, y)
    <3> DEFINE pb == [g.pb EXCEPT ![i] = g.cur]
    <3>1. pb \in [Pbuffers -> Contexts \cup {None, Gone}]
      BY <1>1 DEF World
    <3> HIDE DEF pb
    <3>2. World([g EXCEPT !.pb = pb]) /\ KeepsBooks(g, [g EXCEPT !.pb = pb])
      BY <1>1, <1>8, <3>1 DEF World, KeepsBooks, Paged
    <3>3. QED
      BY <2>1, <3>2 DEF pb
  <2> HIDE DEF y, P
  <2>3. Book(y, ctx, glide_ctx)
    BY <1>1, <2>2, BookKept
  <2>4. FreeAt(y, P, faults')
    BY <1>6, <1>8, <2>2 DEF SlotsFree, FreeAt, Paged, KeepsBooks
  <2>5. QED
    BY <1>1, <1>2, <1>4, <1>5, <2>3, <2>4, PbufferThen
<1>9. CASE how = "context" /\ g.os # "macos"
  <2>1. Paged(g) /\ g.os = "linux"
    BY <1>9 DEF Paged, Answers
  <2>2. y = f
    BY <1>9 DEF PbufferCreate, PbufferContext, Forgets
  <2>3. Book(y, ctx, glide_ctx) /\ y.os = g.os
    BY <1>1, <1>3, <2>1, <2>2, BookForgets
  <2>4. faults' # 0
    BY <1>2, <1>5, <1>9 DEF Faulty
  <2> HIDE DEF y, P, f
  <2>5. FreeAt(y, P, faults')
    BY <2>1, <2>3, <2>4 DEF FreeAt
  <2>6. QED
    BY <1>1, <1>2, <1>4, <1>5, <2>3, <2>5, PbufferThen
<1>10. CASE how \notin {"config", "pbuffer", "context"} /\ g.os # "macos"
  <2>1. Paged(g) /\ (g.os # "linux" => g.pb[i] = None)
    BY <1>3, <1>6, <1>10 DEF Paged, SlotsFree, FreeAt
  <2>2. /\ Book(f, ctx, glide_ctx) /\ f.os = g.os /\ f.live = g.live
        /\ f.pb[i] = None /\ \A j \in Pbuffers \ {i} : f.pb[j] = g.pb[j]
        /\ g.pb[i] = None => f.lost = g.lost
    BY <1>1, <1>3, <2>1, BookForgets
  <2>3. y = PbufferContext(g, i, how)
    BY <1>10 DEF PbufferCreate
  <2>4. World(f)
    BY <2>2 DEF Book, Tables
  <2>5. /\ World(y) /\ Makes(f, y, k) /\ k \in Contexts \ g.live /\ y.os = g.os
        /\ y.pb[i] = k /\ (\A j \in Pbuffers \ {i} : y.pb[j] = g.pb[j]) /\ y.lost = f.lost
    BY <1>1, <1>3, <1>10, <2>3, <2>4, PbufferNewIs
  <2> HIDE DEF y, f, k, P
  <2>6. Paged(f)
    BY <2>1, <2>2 DEF Paged
  <2>7. k # None /\ k # glide_ctx /\ (\A n \in Levels : ctx[n] # k) /\ \A j \in Pbuffers : f.pb[j] # k
    BY <1>1, <2>2, <2>5, <2>6, Numbers DEF Book, LevelsLive, GlideLive, PbuffersLive
  <2>8. Share(y, ctx)
    <3>1. \A n \in Levels : ctx[n] # None => ctx[n] \in f.live
      BY <2>2 DEF Book, LevelsLive
    <3>2. QED
      BY <2>2, <2>5, <3>1, Numbers DEF Book, Share, Makes
  <2>9. Book(y, ctx, glide_ctx)
    <3>1. \A j \in Pbuffers : y.pb[j] \in {f.pb[j], k} /\ (f.pb[j] # None => y.pb[j] = f.pb[j])
      BY <2>2, <2>5
    <3>2. \A j, n \in Pbuffers : y.pb[j] = k /\ y.pb[n] = k => j = n
      BY <2>2, <2>5, <2>7
    <3>3. \E j \in Pbuffers : y.pb[j] = k
      BY <1>3, <2>5
    <3>4. QED
      BY <1>1, <2>2, <2>5, <2>6, <2>7, <2>8, <3>1, <3>2, <3>3, BookGrows
  <2>10. FreeAt(y, P, faults')
    <3>1. ASSUME g.os = "linux" => faults' = 0
          PROVE  y.lost = {} /\ \A j \in Pbuffers \ P : y.pb[j] = None
      <4>1. g.os = "linux" => faults = 0
        BY <1>5, <3>1
      <4>2. g.lost = {} /\ \A j \in Pbuffers \ pbuffers : g.pb[j] = None
        BY <1>6, <2>1, <4>1 DEF SlotsFree, FreeAt
      <4>3. y.lost = {}
        BY <1>3, <2>2, <2>5, <4>2
      <4>4. i \in P
        BY <1>2, <1>3, <1>5, <1>10, <3>1 DEF P, Faulty, Answers
      <4>5. QED
        BY <1>4, <2>5, <4>2, <4>3, <4>4
    <3>2. QED
      BY <2>5, <3>1 DEF FreeAt
  <2>11. QED
    BY <1>1, <1>2, <1>4, <1>5, <2>9, <2>10, PbufferThen
<1>11. QED
  BY <1>7, <1>8, <1>9, <1>10

LEMMA DestroyPbufferBooks ==
  ASSUME BookInv, History, NEW i \in Pbuffers, DestroyPbuffer(i) PROVE BookInv'
<1> DEFINE y == PbufferDestroy(g, i)
           C == {g.pb[i]}
           z == CtxDestroy(g, C, Gone)
<1>1. World(g) /\ IsFiniteSet(g.live) /\ pbuffers \subseteq Pbuffers /\ glide_ctx \in Handles /\ ctx \in [Levels -> Handles]
  BY BooksNow DEF BookInv, Book, Tables
<1>2. /\ Becomes([Bundle EXCEPT !.g = y]) /\ pbuffers' = pbuffers \ {i}
      /\ UNCHANGED <<attribs, glide, fx_active, mode, faults>>
  BY BooksNow DEF DestroyPbuffer
<1>3. CASE g.os = "macos" \/ g.pb[i] = None
  <2>1. y = [g EXCEPT !.pb = [g.pb EXCEPT ![i] = None]]
    BY <1>1, <1>3 DEF PbufferDestroy, World
  <2>2. World(y) /\ y.os = g.os /\ y.live = g.live /\ y.group = g.group /\ y.pb = [g.pb EXCEPT ![i] = None] /\ y.lost = g.lost
    <3> DEFINE pb == [g.pb EXCEPT ![i] = None]
    <3>1. pb \in [Pbuffers -> Contexts \cup {None, Gone}]
      BY <1>1 DEF World
    <3>2. y = [g EXCEPT !.pb = pb]
      BY <2>1
    <3> HIDE DEF pb, y
    <3>3. World(y) /\ y.os = g.os /\ y.live = g.live /\ y.group = g.group /\ y.pb = pb /\ y.lost = g.lost
      BY <1>1, <3>1, <3>2 DEF World
    <3>4. QED
      BY <3>3 DEF pb
  <2> HIDE DEF y
  <2>3. g.pb[i] = None => y.pb = g.pb
    BY <1>1, <2>2 DEF World
  <2>4. KeepsBooks(g, y)
    BY <1>3, <2>2, <2>3 DEF KeepsBooks, Paged
  <2>5. Book(y, ctx, glide_ctx)
    BY <2>2, <2>4, BookKept DEF BookInv
  <2>6. SlotsFree(y, pbuffers \ {i})
    BY <1>3, <2>2, <2>3 DEF BookInv, SlotsFree, FreeAt, Paged
  <2>7. QED
    BY <1>1, <1>2, <2>5, <2>6, PbufferAfter
<1>4. CASE g.os # "macos" /\ g.pb[i] # None
  <2>1. World(z)
    BY <1>1, DestroyType
  <2>2. Without(g, z, C \ {None})
    BY <1>1, DestroyEffect
  <2>3. C \ {None} = C /\ None \notin C
    BY <1>4
  <2>4. y = [z EXCEPT !.pb = [z.pb EXCEPT ![i] = None]]
    BY <1>4, <2>1 DEF PbufferDestroy, World
  <2> HIDE DEF y, z
  <2>5. World(y)
    BY <2>1, <2>4 DEF World
  <2>6. y.os = z.os /\ y.live = z.live /\ y.group = z.group /\ y.lost = z.lost /\ y.pb[i] = None /\ \A j \in Pbuffers \ {i} : y.pb[j] = z.pb[j]
    BY <2>1, <2>4 DEF World
  <2>7. \A j \in Pbuffers \ {i} : g.pb[j] \notin C
    BY <1>4 DEF BookInv, Book, PbuffersApart, Paged
  <2>8. Drops(g, y, C)
    <3>1. \A j \in Pbuffers : y.pb[j] = IF g.pb[j] \in C THEN None ELSE g.pb[j]
      BY <1>4, <2>2, <2>3, <2>6, <2>7 DEF Without, Paged
    <3>2. QED
      BY <2>2, <2>3, <2>6, <3>1 DEF Without, Drops
  <2>9. (\A n \in Levels : ctx[n] \notin C) /\ glide_ctx \notin C
    BY <1>4 DEF BookInv, Book, PbuffersBeside, Paged
  <2>10. Moved(ctx, ctx, C)
    BY <1>1, <2>9 DEF Moved, BookInv, Book
  <2>11. Book(g, ctx, glide_ctx)
    BY DEF BookInv
  <2>16. \A q \in C : q \notin g.lost
    BY <1>4, <2>11 DEF Book, LostApart, Paged
  <2> HIDE DEF C
  <2>12. Book(y, ctx, IF glide_ctx \in C THEN None ELSE glide_ctx)
    BY <2>3, <2>5, <2>8, <2>10, <2>11, <2>16, BookShrinks
  <2>13. Book(y, ctx, glide_ctx)
    BY <2>9, <2>12
  <2>14. SlotsFree(y, pbuffers \ {i})
    BY <2>6, <2>8 DEF BookInv, SlotsFree, FreeAt, Drops, Paged
  <2>15. QED
    BY <1>1, <1>2, <2>13, <2>14, PbufferAfter
<1>5. QED
  BY <1>3, <1>4
(* Glide's window: the bundle and the context that its opening ends with. *)
LEMMA BegunIs ==
  ASSUME BookInv, glide_res \in Sizes, NEW ok, NEW made
  PROVE  LET d == Resized(Bundle, glide_res, ok)
             x == d.g
             b == Begun(ok, made)
             c == IF glide_ctx # None THEN glide_ctx ELSE IF made THEN Fresh(x) ELSE None
             n == IF glide_ctx = None /\ made THEN CtxCreate(x, None) ELSE x
         IN /\ IsBundle(b.w) /\ b.w.ctx = ctx /\ b.w.ready = TRUE /\ b.w.size = d.size /\ b.w.readback = d.readback
            /\ b.w.frame = NoFrame /\ b.ctx = c
            /\ b.w.g = IF c = None THEN x ELSE MakeCurrent(n, c, d.size)
<1> DEFINE d == Resized(Bundle, glide_res, ok)
           r == [d EXCEPT !.ready = TRUE]
           c == IF glide_ctx # None THEN glide_ctx ELSE IF made THEN Fresh(r.g) ELSE None
           n == IF glide_ctx = None /\ made THEN CtxCreate(r.g, None) ELSE r.g
           y == MakeCurrent(n, c, r.size)
           e == [r EXCEPT !.g = y]
           w == IF c = None THEN r ELSE e
<1>1. Begun(ok, made) = [w |-> w, ctx |-> c]
  BY DEF Begun
<1>2. IsBundle(d) /\ d.ctx = ctx /\ d.frame = NoFrame
  BY BooksNow, ResizedIs DEF Kept, Parts
<1> HIDE DEF d
<1>3. /\ IsBundle(r) /\ r.g = d.g /\ r.ctx = ctx /\ r.ready = TRUE /\ r.size = d.size /\ r.readback = d.readback
      /\ r.frame = NoFrame
  BY <1>2 DEF IsBundle
<1> HIDE DEF r, y
<1>4. /\ IsBundle(e) /\ e.g = y /\ e.ctx = ctx /\ e.ready = TRUE /\ e.size = d.size /\ e.readback = d.readback
      /\ e.frame = NoFrame
  BY <1>3 DEF IsBundle
<1> HIDE DEF e
<1>5. y = MakeCurrent(n, c, d.size)
  BY <1>3 DEF y
<1> HIDE DEF c, n
<1>6. /\ IsBundle(w) /\ w.ctx = ctx /\ w.ready = TRUE /\ w.size = d.size /\ w.readback = d.readback
      /\ w.frame = NoFrame /\ w.g = IF c = None THEN d.g ELSE MakeCurrent(n, c, d.size)
  BY <1>3, <1>4, <1>5
<1> HIDE DEF w
<1>7. Begun(ok, made).w = w /\ Begun(ok, made).ctx = c
  BY <1>1
<1>8. /\ c = IF glide_ctx # None THEN glide_ctx ELSE IF made THEN Fresh(d.g) ELSE None
      /\ n = IF glide_ctx = None /\ made THEN CtxCreate(d.g, None) ELSE d.g
  BY <1>3 DEF c, n
<1>9. QED
  BY <1>6, <1>7, <1>8 DEF d

(* A context for Glide *)
LEMMA GlideEnters ==
  ASSUME NEW x, NEW c, Book(x, c, None)
  PROVE  Book(CtxCreate(x, None), c, Fresh(x)) /\ CtxCreate(x, None).pb = x.pb /\ CtxCreate(x, None).os = x.os
         /\ CtxCreate(x, None).lost = x.lost
<1> DEFINE k == Fresh(x)
           y == CtxCreate(x, None)
<1>1. World(x) /\ IsFiniteSet(x.live) /\ c \in [Levels -> Handles]
  BY DEF Book, Tables
<1>2. /\ World(y) /\ k \in Contexts \ x.live /\ y.live = x.live \cup {k}
      /\ \A d \in x.live : y.group[d] = x.group[d]
  BY <1>1, CreateEffect
<1>3. y.os = x.os /\ y.pb = x.pb /\ y.lost = x.lost
  BY <1>1, CreateKeeps
<1> HIDE DEF k, y
<1>4. Makes(x, y, k)
  BY <1>2, <1>3 DEF Makes
<1>5. k # None /\ (\A n \in Levels : c[n] # k) /\ (Paged(x) => \A i \in Pbuffers : x.pb[i] # k)
  BY <1>2, Numbers DEF Book, LevelsLive, PbuffersLive
<1>6. Share(y, c)
  <2>1. \A n \in Levels : c[n] # None => c[n] \in x.live
    BY DEF Book, LevelsLive
  <2>2. QED
    BY <1>2, <2>1, Numbers DEF Book, Share
<1>7. Book(y, c, k)
  <2>1. k \in Handles /\ None \in Handles
    BY <1>2 DEF Handles
  <2>2. Paged(x) => \A i \in Pbuffers : y.pb[i] \in {x.pb[i], k} /\ (x.pb[i] # None => y.pb[i] = x.pb[i])
    BY <1>3
  <2>3. Paged(x) => \A i \in Pbuffers : y.pb[i] # k
    BY <1>3, <1>5
  <2>4. QED
    BY <1>1, <1>2, <1>4, <1>5, <1>6, <2>1, <2>2, <2>3, BookGrows
<1>8. QED
  BY <1>3, <1>7 DEF k, y

LEMMA GlideOpenBooks ==
  ASSUME BookInv, History, NEW made \in Outcomes, GlideOpen(made) PROVE BookInv'
<1> DEFINE b == Begun(TRUE, made)
           d == Resized(Bundle, glide_res, TRUE)
           x == d.g
           c == IF glide_ctx # None THEN glide_ctx ELSE IF made THEN Fresh(x) ELSE None
           n == IF glide_ctx = None /\ made THEN CtxCreate(x, None) ELSE x
           opens == b.ctx # None /\ (g.os # "macos" \/ b.w.g.cur_dfbo = b.ctx)
<1>1. /\ glide_res # 0 /\ Becomes(b.w) /\ glide_ctx' = b.ctx /\ Faulty(made)
      /\ glide_open' = opens /\ fx_active' = (fx_active \/ opens) /\ UNCHANGED <<attribs, pbuffers, glide_res, mode>>
  BY DEF GlideOpen
<1>2. Kept(Bundle, glide_ctx, pbuffers) /\ OtherTypes /\ pbuffers \subseteq Pbuffers
  BY BooksNow
<1>3. glide_res \in Sizes /\ made \in BOOLEAN
  BY <1>1, <1>2 DEF OtherTypes, Outcomes
<1>4. Kept(d, glide_ctx, pbuffers)
  BY <1>2, <1>3, ResizedKept
<1>5. /\ IsBundle(b.w) /\ b.w.ctx = ctx /\ b.w.ready = TRUE /\ b.w.size = d.size /\ b.w.readback = d.readback
      /\ b.w.frame = NoFrame /\ b.ctx = c
      /\ b.w.g = IF c = None THEN x ELSE MakeCurrent(n, c, d.size)
  BY <1>3, BegunIs
<1>6. d.ctx = ctx
  <2>1. IsBundle(Bundle) /\ Bundle.ctx = ctx
    BY BooksNow DEF Kept, Parts
  <2>2. \A ok : Resized(Bundle, glide_res, ok).ctx = Bundle.ctx
    BY <2>1, ResizedIs
  <2>3. QED
    BY <2>1, <2>2
<1>7. opens \in BOOLEAN /\ glide_open' \in BOOLEAN /\ fx_active' \in BOOLEAN
  BY <1>1
<1>8. OtherTypes'
  BY <1>1, <1>2, <1>7, FaultyType, OthersAfter DEF OtherTypes
<1> HIDE DEF b, d, opens
<1>9. Book(n, ctx, c) /\ SlotsFree(n, pbuffers)
  <2>1. CASE glide_ctx = None /\ made
    <3>1. Book(x, ctx, None)
      BY <1>4, <1>6, <2>1 DEF Kept
    <3>2. Book(n, ctx, c) /\ n.pb = x.pb /\ n.os = x.os /\ n.lost = x.lost
      BY <2>1, <3>1, GlideEnters
    <3>3. QED
      BY <1>4, <3>2 DEF Kept, SlotsFree, FreeAt, Paged
  <2>2. CASE ~ (glide_ctx = None /\ made)
    <3>1. n = x /\ c = glide_ctx
      BY <2>2
    <3>2. QED
      BY <1>4, <1>6, <3>1 DEF Kept
  <2>3. QED
    BY <2>1, <2>2
<1>10. c = None => n = x
  <2>1. World(x) /\ IsFiniteSet(x.live)
    BY <1>4 DEF Kept, Book, Tables
  <2>2. Fresh(x) # None
    BY <2>1, FreshIsNew, Numbers
  <2>3. QED
    BY <2>2
<1> HIDE DEF c, n, x
<1>11. World(n) /\ c \in Handles /\ (c # None => c \in n.live) /\ d.size \in Sizes \cup {0}
  BY <1>4, <1>9 DEF Book, Tables, GlideLive, Kept, Parts
<1>12. World(MakeCurrent(n, c, d.size)) /\ KeepsBooks(n, MakeCurrent(n, c, d.size))
  BY <1>11, CurrentEffect
<1>13. Book(b.w.g, ctx, c) /\ SlotsFree(b.w.g, pbuffers)
  <2>1. CASE c = None
    BY <1>5, <1>9, <1>10, <2>1
  <2>2. CASE c # None
    <3>1. Book(MakeCurrent(n, c, d.size), ctx, c)
      BY <1>9, <1>12, BookKept
    <3>2. SlotsFree(MakeCurrent(n, c, d.size), pbuffers)
      BY <1>9, <1>12 DEF SlotsFree, FreeAt, KeepsBooks, Paged
    <3>3. QED
      BY <1>5, <2>2, <3>1, <3>2
  <2>3. QED
    BY <2>1, <2>2
<1>14. NoFrame \in Frames
  BY DEF NoFrame, Frames, Handles
<1>15. Kept(b.w, c, pbuffers)
  BY <1>4, <1>5, <1>13, <1>14 DEF Kept, Parts
<1>16. QED
  BY <1>1, <1>2, <1>5, <1>8, <1>15, BooksAfter
LEMMA GlideSwapBooks ==
  ASSUME BookInv, History, NEW taken, GlideSwap(taken) PROVE BookInv'
<1>1. /\ g.cur = glide_ctx /\ Becomes(Published(Bundle, taken))
      /\ UNCHANGED <<attribs, pbuffers, glide, fx_active, mode, faults>>
  BY DEF GlideSwap
<1>2. Kept(Bundle, glide_ctx, pbuffers) /\ OtherTypes /\ pbuffers \subseteq Pbuffers /\ Bundle.g = g
  BY BooksNow
<1>3. glide_ctx \in Handles
  BY DEF BookInv, Book, Tables
<1>4. Kept(Published(Bundle, taken), glide_ctx, pbuffers)
  BY <1>1, <1>2, <1>3, PublishedKept
<1>5. OtherTypes'
  BY <1>1, <1>2, OthersAfter DEF glide, OtherTypes
<1>6. QED
  BY <1>1, <1>2, <1>4, <1>5, BooksAfter DEF glide

(* Glide's context goes. *)
LEMMA GlideLeaves ==
  ASSUME NEW x, NEW c, NEW l, Book(x, c, l), l # None, NEW P, SlotsFree(x, P), NEW main
  PROVE  Book(CtxDestroy(x, {l}, main), c, None) /\ SlotsFree(CtxDestroy(x, {l}, main), P)
<1> DEFINE y == CtxDestroy(x, {l}, main)
<1>1. World(x) /\ c \in [Levels -> Handles]
  BY DEF Book, Tables
<1>2. World(y)
  BY <1>1, DestroyType
<1>3. Without(x, y, {l} \ {None}) /\ {l} \ {None} = {l}
  BY <1>1, DestroyEffect
<1> HIDE DEF y
<1>4. Drops(x, y, {l})
  BY <1>3 DEF Drops, Without, Book, PbuffersBeside
<1>5. Moved(c, c, {l})
  BY <1>1 DEF Moved, Book, GlideApart
<1>6. Book(y, c, IF l \in {l} THEN None ELSE l)
  <2>1. \A z \in {l} : z \notin x.lost
    BY DEF Book, LostApart
  <2>2. QED
    BY <1>2, <1>4, <1>5, <2>1, BookShrinks
<1>7. SlotsFree(y, P)
  BY <1>4 DEF SlotsFree, FreeAt, Drops, Paged
<1>8. QED
  BY <1>6, <1>7 DEF y

LEMMA GlideReleaseBooks == ASSUME BookInv, History, GlideRelease PROVE BookInv'
<1> DEFINE u == Unbind(g)
           d == CtxDestroy(u, {glide_ctx}, ctx[0])
           a == [Bundle EXCEPT !.g = d]
           z == [Bundle EXCEPT !.g = DrawableRelease(d), !.size = 0, !.ready = FALSE]
<1>1. /\ Becomes(IF glide_ctx = None THEN Bundle ELSE IF ctx[0] # None THEN a ELSE z)
      /\ glide_ctx' = None /\ glide_open' = FALSE /\ fx_active' = FALSE
      /\ UNCHANGED <<attribs, pbuffers, glide_res, mode, faults>>
  BY DEF GlideRelease
<1>2. /\ Kept(Bundle, glide_ctx, pbuffers) /\ OtherTypes /\ pbuffers \subseteq Pbuffers
      /\ Bundle.g = g /\ Bundle.ctx = ctx
  BY BooksNow
<1>3. OtherTypes'
  BY <1>1, <1>2, OthersAfter DEF OtherTypes
<1>4. CASE glide_ctx = None
  <2>1. Becomes(Bundle)
    BY <1>1, <1>4
  <2>2. QED
    BY <1>1, <1>2, <1>3, <1>4, <2>1, BooksAfter
<1>5. CASE glide_ctx # None
  <2>1. World(g) /\ Book(g, ctx, glide_ctx) /\ SlotsFree(g, pbuffers)
    BY DEF BookInv, Book, Tables
  <2>2. World(u) /\ KeepsBooks(g, u)
    BY <2>1, UnbindType, UnbindBooks
  <2>3. Book(u, ctx, glide_ctx) /\ SlotsFree(u, pbuffers)
    BY <2>1, <2>2, BookKept DEF SlotsFree, FreeAt, KeepsBooks, Paged
  <2> HIDE DEF u
  <2>4. Book(d, ctx, None) /\ SlotsFree(d, pbuffers)
    BY <1>5, <2>3, GlideLeaves
  <2>5. /\ IsBundle(a) /\ a.g = d /\ a.ctx = ctx /\ a.ready = Bundle.ready /\ a.size = Bundle.size
        /\ a.readback = Bundle.readback /\ a.frame = Bundle.frame
    BY <1>2 DEF Kept, Parts, IsBundle
  <2> HIDE DEF a, d
  <2>6. Kept(a, None, pbuffers)
    BY <1>2, <2>4, <2>5 DEF Kept, Parts
  <2>7. Kept([a EXCEPT !.g = DrawableRelease(a.g), !.size = 0, !.ready = FALSE], None, pbuffers)
    BY <2>6, ReleasedKept
  <2>8. [a EXCEPT !.g = DrawableRelease(a.g), !.size = 0, !.ready = FALSE] = z
    <3> DEFINE y == DrawableRelease(d)
    <3>1. a = [Bundle EXCEPT !.g = d] /\ IsBundle(Bundle) /\ a.g = d
      BY <1>2, <2>5 DEF a, Kept, Parts
    <3> HIDE DEF y
    <3>2. [a EXCEPT !.g = y, !.size = 0, !.ready = FALSE] = [Bundle EXCEPT !.g = y, !.size = 0, !.ready = FALSE]
      BY <3>1 DEF IsBundle
    <3>3. QED
      BY <3>1, <3>2 DEF y
  <2> HIDE DEF z
  <2>9. PICK v : Becomes(v) /\ Kept(v, None, pbuffers)
    BY <1>1, <1>5, <2>6, <2>7, <2>8
  <2>10. QED
    BY <1>1, <1>2, <1>3, <2>9, BooksAfter
<1>6. QED
  BY <1>4, <1>5

LEMMA StayingBooks ==
  ASSUME BookInv, History,
         \/ \E size \in Sizes : GlidePrepare(size) \/ SetMode(size)
         \/ GlideRefused \/ \E on \in BOOLEAN : GlideControl(on)
  PROVE  BookInv'
<1>1. OtherTypes
  BY BooksNow
<1>2. CASE \E size \in Sizes : GlidePrepare(size)
  <2>1. PICK size \in Sizes : GlidePrepare(size)
    BY <1>2
  <2>2. /\ Becomes(Bundle) /\ glide_res' \in Sizes
        /\ UNCHANGED <<attribs, pbuffers, glide_ctx, glide_open, fx_active, mode, faults>>
    BY <2>1 DEF GlidePrepare
  <2>3. QED
    BY <1>1, <2>2, StayBooks DEF OtherTypes
<1>3. CASE \E size \in Sizes : SetMode(size)
  <2>1. PICK size \in Sizes : SetMode(size)
    BY <1>3
  <2>2. Becomes(Bundle) /\ mode' \in Sizes /\ UNCHANGED <<attribs, pbuffers, glide, fx_active, faults>>
    BY <2>1 DEF SetMode
  <2>3. QED
    BY <1>1, <2>2, StayBooks DEF OtherTypes, glide
<1>4. CASE GlideRefused
  <2>1. /\ Becomes(Bundle) /\ faults < MaxFaults /\ Faulty(FALSE)
        /\ UNCHANGED <<attribs, pbuffers, glide, fx_active, mode>>
    BY <1>4 DEF GlideRefused
  <2>2. faults' \in 0..MaxFaults
    BY <1>1, <2>1, FaultyType DEF Outcomes
  <2>3. QED
    BY <1>1, <2>1, <2>2, StayBooks DEF OtherTypes, glide
<1>5. CASE \E on \in BOOLEAN : GlideControl(on)
  <2>1. PICK on \in BOOLEAN : GlideControl(on)
    BY <1>5
  <2>2. Becomes(Bundle) /\ fx_active' \in BOOLEAN /\ UNCHANGED <<attribs, pbuffers, glide, mode, faults>>
    BY <2>1 DEF GlideControl
  <2>3. QED
    BY <1>1, <2>2, StayBooks DEF OtherTypes, glide
<1>6. QED
  BY <1>2, <1>3, <1>4, <1>5
LEMMA BookInit == Init => BookInv
<1> SUFFICES ASSUME Init PROVE BookInv
  OBVIOUS
<1>1. PICK os \in Platforms : g = Ready(os)
  BY DEF Init
<1> DEFINE none == [c \in {} |-> None]
           pb == [i \in Pbuffers |-> None]
           ring == [i \in Slots |-> NoSlot]
           dfbo == [i \in Levels |-> NoFbo]
<1>2. /\ none \in [{} -> Contexts] /\ pb \in [Pbuffers -> Contexts \cup {None, Gone}]
      /\ ring \in [Slots -> [owner : Contexts \cup {None, Gone}, size : Sizes \cup {0}]]
      /\ dfbo \in [Levels -> [ctx : Contexts \cup {None}, size : Sizes \cup {0}, attached : BOOLEAN]]
      /\ NoRb \in [named : BOOLEAN, size : Sizes \cup {0}, groups : SUBSET Contexts]
      /\ (os # "windows") \in BOOLEAN
  BY DEF NoSlot, NoFbo, NoRb
<1>3. g = [os |-> os, live |-> {}, group |-> none, lost |-> {}, cur |-> None, onwin |-> FALSE, win |-> 0, pb |-> pb,
           zc |-> os # "windows", ring |-> ring, zc_next |-> 0, dfbo |-> dfbo, cur_dfbo |-> None,
           dfbo_ok |-> FALSE, rb |-> NoRb]
  BY <1>1 DEF Ready
<1> HIDE DEF none, pb, ring, dfbo
<1>4. World(g) /\ g.live = {} /\ g.lost = {} /\ g.pb = pb
  BY <1>2, <1>3, Numbers DEF World
<1>5. ctx = NoLevels /\ glide_ctx = None /\ pbuffers = {}
  BY DEF Init
<1>6. \A n \in Levels : ctx[n] = None
  BY <1>5 DEF NoLevels
<1>7. \A i \in Pbuffers : g.pb[i] = None
  BY <1>4 DEF pb
<1>8. Book(g, ctx, glide_ctx)
  <2>1. IsFiniteSet(g.live)
    BY <1>4, FS_EmptySet
  <2>2. ctx \in [Levels -> Handles] /\ glide_ctx \in Handles
    BY <1>5 DEF NoLevels, Handles
  <2>3. Tables(g, ctx, glide_ctx) /\ NoneLost(g, ctx, glide_ctx)
    BY <1>4, <2>1, <2>2 DEF Tables, NoneLost
  <2>4. LevelsLive(g, ctx) /\ GlideLive(g, glide_ctx) /\ PbuffersLive(g)
    BY <1>5, <1>6, <1>7 DEF LevelsLive, GlideLive, PbuffersLive
  <2>5. LevelsApart(ctx) /\ GlideApart(ctx, glide_ctx) /\ PbuffersApart(g) /\ PbuffersBeside(g, ctx, glide_ctx)
    BY <1>5, <1>6, <1>7 DEF LevelsApart, GlideApart, PbuffersApart, PbuffersBeside
  <2>6. Share(g, ctx) /\ LostApart(g, ctx, glide_ctx)
    BY <1>4, <1>6, Numbers DEF Share, LostApart
  <2>7. QED
    BY <2>3, <2>4, <2>5, <2>6 DEF Book
<1>9. SlotsFree(g, pbuffers)
  BY <1>4, <1>7 DEF SlotsFree, FreeAt
<1>10. OtherTypes
  <2>1. {fx_active, glide_open, shared, bare} \subseteq BOOLEAN /\ attribs = None
    BY DEF Init
  <2>2. uses \in Programs /\ glide_res = 0 /\ mode \in Sizes /\ faults = 0
    BY DEF Init
  <2>3. QED
    BY <2>1, <2>2, GuestAssumption DEF OtherTypes
<1>11. frame \in Frames /\ win_ready \in BOOLEAN /\ {win_size, readback} \subseteq Sizes \cup {0}
  BY DEF Init, NoFrame, Frames, Handles
<1>12. TypeOK
  BY <1>4, <1>5, <1>8, <1>10, <1>11, TypeSplit DEF Book, Tables
<1>13. QED
  BY <1>8, <1>9, <1>12 DEF BookInv

(* The calls of a step. *)
LEMMA Calls ==
  ASSUME OtherTypes, Next
  PROVE  /\ History
         /\ \/ \E set \in BOOLEAN : PixelFormat(set)
            \/ \E ok \in Outcomes : CreateContext(ok)
            \/ \E list \in Lists, ok \in Outcomes : CreateMain(list, ok)
            \/ \E ok \in Outcomes : CreateLevel(ok)
            \/ \E n \in Levels, ok \in Outcomes : MakeLevelCurrent(n, ok)
            \/ \E taken \in BOOLEAN, ok \in Outcomes : SwapBuffers(taken, ok)
            \/ \E taken \in BOOLEAN : FlushFront(taken)
            \/ \E n \in Levels : DeleteContext(n)
            \/ WndRelease
            \/ \E how \in Answers(g) : CreatePbuffer(how)
            \/ \E i \in Pbuffers : DestroyPbuffer(i)
            \/ \E i \in Pbuffers : MakePbufferCurrent(i)
            \/ \E made \in Outcomes : GlideOpen(made)
            \/ \E taken \in BOOLEAN : GlideSwap(taken)
            \/ GlideRelease
            \/ \/ \E size \in Sizes : GlidePrepare(size) \/ SetMode(size)
               \/ GlideRefused \/ \E on \in BOOLEAN : GlideControl(on)
<1> DEFINE Call ==
            \/ \E set \in BOOLEAN : PixelFormat(set)
            \/ \E ok \in Outcomes : CreateContext(ok)
            \/ \E list \in Lists, ok \in Outcomes : CreateMain(list, ok)
            \/ \E ok \in Outcomes : CreateLevel(ok)
            \/ \E n \in Levels, ok \in Outcomes : MakeLevelCurrent(n, ok)
            \/ \E taken \in BOOLEAN, ok \in Outcomes : SwapBuffers(taken, ok)
            \/ \E taken \in BOOLEAN : FlushFront(taken)
            \/ \E n \in Levels : DeleteContext(n)
            \/ WndRelease
            \/ \E how \in Answers(g) : CreatePbuffer(how)
            \/ \E i \in Pbuffers : DestroyPbuffer(i)
            \/ \E i \in Pbuffers : MakePbufferCurrent(i)
            \/ \E made \in Outcomes : GlideOpen(made)
            \/ \E taken \in BOOLEAN : GlideSwap(taken)
            \/ GlideRelease
            \/ \/ \E size \in Sizes : GlidePrepare(size) \/ SetMode(size)
               \/ GlideRefused \/ \E on \in BOOLEAN : GlideControl(on)
<1>1. Call
  BY Numbers DEF Next, MesaCalls, LevelCalls, PbufferCalls, GlideCalls
<1>2. faults \in Nat
  BY GuestAssumption DEF OtherTypes
<1>3. faults' \in {faults, faults + 1}
  BY <1>1 DEF PixelFormat, CreateContext, CreateMain, CreateLevel, MakeLevelCurrent, SwapBuffers, FlushFront,
     DeleteContext, WndRelease, CreatePbuffer, DestroyPbuffer, MakePbufferCurrent, GlideOpen, GlideSwap,
     GlideRelease, GlidePrepare, SetMode, GlideRefused, GlideControl, Faulty
<1>4. faults' = 0 => faults = 0
  BY <1>2, <1>3
<1>5. History
  BY <1>4 DEF Next, History
<1>6. QED
  BY <1>1, <1>5

LEMMA BookNext == BookInv /\ [Next]_vars => BookInv'
<1>1. ASSUME BookInv, Next PROVE BookInv'
  <2>1. History
    BY <1>1, BooksNow, Calls
  <2>2. \A set \in BOOLEAN : PixelFormat(set) => BookInv'
    BY <1>1, <2>1, PixelFormatBooks
  <2>3. \A ok \in Outcomes : CreateContext(ok) \/ (\E list \in Lists : CreateMain(list, ok)) \/ CreateLevel(ok) => BookInv'
    BY <1>1, <2>1, CreateContextBooks, CreateMainBooks, CreateLevelBooks
  <2>4. \A n \in Levels, ok \in Outcomes : MakeLevelCurrent(n, ok) => BookInv'
    BY <1>1, <2>1, MakeLevelCurrentBooks
  <2>5. \A taken \in BOOLEAN, ok \in Outcomes : SwapBuffers(taken, ok) => BookInv'
    BY <1>1, <2>1, SwapBuffersBooks
  <2>6. \A taken \in BOOLEAN : FlushFront(taken) \/ GlideSwap(taken) => BookInv'
    BY <1>1, <2>1, FlushFrontBooks, GlideSwapBooks
  <2>7. \A n \in Levels : DeleteContext(n) => BookInv'
    BY <1>1, <2>1, DeleteContextBooks
  <2>8. WndRelease \/ (\E how \in Answers(g) : CreatePbuffer(how)) \/ GlideRelease => BookInv'
    BY <1>1, <2>1, WndReleaseBooks, CreatePbufferBooks, GlideReleaseBooks
  <2>9. \A i \in Pbuffers : DestroyPbuffer(i) \/ MakePbufferCurrent(i) => BookInv'
    BY <1>1, <2>1, DestroyPbufferBooks, MakePbufferCurrentBooks
  <2>10. \A made \in Outcomes : GlideOpen(made) => BookInv'
    BY <1>1, <2>1, GlideOpenBooks
  <2>11. (\/ \E size \in Sizes : GlidePrepare(size) \/ SetMode(size)
          \/ GlideRefused \/ \E on \in BOOLEAN : GlideControl(on)) => BookInv'
    BY <1>1, <2>1, StayingBooks
  <2>12. QED
    BY <1>1, <2>2, <2>3, <2>4, <2>5, <2>6, <2>7, <2>8, <2>9, <2>10, <2>11, BooksNow, Calls
<1>2. ASSUME BookInv, UNCHANGED vars PROVE BookInv'
  BY <1>2 DEF vars, mesa, glide, BookInv, TypeOK, SlotsFree, FreeAt, LostApart, Book, Tables, NoneLost, LevelsLive, GlideLive, PbuffersLive,
     LevelsApart, GlideApart, PbuffersApart, PbuffersBeside, Share, Paged, World
<1>3. QED
  BY <1>1, <1>2

LEMMA BooksKept == Spec => []BookInv
BY BookInit, BookNext, PTL DEF Spec

(* The host's state, the tables and the frames keep their types, for any    *)
(* number of contexts: their names are not bounded.                         *)
THEOREM TypeCorrect == Spec => []TypeOK
<1>1. BookInv => TypeOK
  BY DEF BookInv
<1>2. QED
  BY <1>1, BooksKept, PTL

(* Every context of the host is in one place, the levels, Glide's or a      *)
(* pbuffer's, and none of these names one that was destroyed.  What is lost *)
(* is lost on Linux, to a host that refused a part of a pbuffer.            *)
THEOREM NoneIsLost == Spec => []ContextsHeld
<1>1. ASSUME BookInv PROVE ContextsHeld
  <2>1. Book(g, ctx, glide_ctx)
    BY <1>1 DEF BookInv
  <2>2. ASSUME NEW p \in Held
        PROVE  \/ \E n \in Levels : p = <<"ctx", n>> /\ HeldIn(p) = ctx[n]
               \/ p = <<"glide", 0>> /\ HeldIn(p) = glide_ctx
               \/ \E i \in Pbuffers : p = <<"pb", i>> /\ HeldIn(p) = (IF Paged(g) THEN g.pb[i] ELSE None)
    BY <2>2 DEF Held, HeldIn, Paged
  <2>3. \A n \in Levels : <<"ctx", n>> \in Held /\ HeldIn(<<"ctx", n>>) = ctx[n]
    BY DEF Held, HeldIn
  <2>4. <<"glide", 0>> \in Held /\ HeldIn(<<"glide", 0>>) = glide_ctx
    BY DEF Held, HeldIn
  <2>5. \A i \in Pbuffers : <<"pb", i>> \in Held /\ HeldIn(<<"pb", i>>) = IF Paged(g) THEN g.pb[i] ELSE None
    BY DEF Held, HeldIn, Paged
  <2>6. g.live \ g.lost \subseteq {HeldIn(p) : p \in Held} \ {None}
    <3>1. ASSUME NEW z \in g.live \ g.lost PROVE z # None /\ \E p \in Held : HeldIn(p) = z
      <4>1. z # None
        BY <2>1, Numbers DEF Book, Tables, World
      <4>2. (\E n \in Levels : ctx[n] = z) \/ z = glide_ctx \/ (Paged(g) /\ \E i \in Pbuffers : g.pb[i] = z)
        BY <2>1 DEF Book, NoneLost
      <4>3. QED
        BY <2>3, <2>4, <2>5, <4>1, <4>2
    <3>2. QED
      BY <3>1
  <2>7. \A p \in Held : HeldIn(p) # None => HeldIn(p) \in g.live \ g.lost
    BY <2>1, <2>2 DEF Book, LevelsLive, GlideLive, PbuffersLive, LostApart, Paged
  <2>8. ASSUME NEW p \in Held, NEW q \in Held, p # q, HeldIn(p) # None PROVE HeldIn(p) # HeldIn(q)
    BY <2>1, <2>2, <2>8 DEF Book, LevelsApart, GlideApart, PbuffersApart, PbuffersBeside
  <2>9. g.os # "linux" \/ faults = 0 => g.lost = {}
    BY <1>1 DEF BookInv, SlotsFree, FreeAt
  <2>10. QED
    BY <2>6, <2>7, <2>8, <2>9 DEF ContextsHeld
<1>2. QED
  BY <1>1, BooksKept, PTL

(* The levels share the objects of the main context, whatever levels were   *)
(* deleted, pushed out and made anew.                                       *)
THEOREM LevelsShareAlways == Spec => []LevelsShare
<1>1. BookInv => LevelsShare
  BY DEF BookInv, Book, Share, LevelsShare
<1>2. QED
  BY <1>1, BooksKept, PTL

---------------------------------------------------------------------------
(* Who is current and where it draws, whose names the ring has, of what     *)
(* size the drawable is: what a part of a call leaves of that.              *)

SizeKept(w) ==
  /\ w.size # 0 => w.readback = w.size
  /\ w.g.os # "macos" => w.g.win = w.size

Readied(w) ==
  /\ ~w.ready => w.size = 0
  /\ w.g.os = "macos" /\ w.ready => w.size # 0

(* A context that is current in r was so in w, in the same place, and draws *)
(* where it drew.                                                           *)
Goes(w, r) ==
  /\ r.g.cur \in {w.g.cur, None, Gone} /\ (w.g.cur = None => r.g.cur = None)
  /\ r.g.os # "macos" /\ r.g.cur \notin {None, Gone} =>
       /\ w.g.onwin => r.g.onwin
       /\ \A n \in Levels : r.ctx[n] = r.g.cur => \E m \in Levels : w.ctx[m] = w.g.cur

(* Where Glide has no context the framebuffers of macOS stay in order. *)
FramesGo(w, r, l) ==
  w.g.os = "macos" /\ l = None /\ Framed(w.g, w.ctx, w.size) => Framed(r.g, r.ctx, r.size)

Follows(w, r, l) ==
  /\ r.g.os = w.g.os /\ CurrentKnown(r.g)
  /\ RingNamed(w.g, w.ctx, l) => RingNamed(r.g, r.ctx, l)
  /\ SizeKept(w) => SizeKept(r)
  /\ Goes(w, r) /\ FramesGo(w, r, l)

Still(w, r, l) ==
  /\ Follows(w, r, l)
  /\ r.ready = w.ready /\ r.size = w.size /\ r.readback = w.readback /\ r.frame = w.frame

LEMMA StillSelf == ASSUME NEW w, NEW l, CurrentKnown(w.g) PROVE Still(w, w, l)
BY DEF Still, Follows, Goes, FramesGo

LEMMA FollowsOn ==
  ASSUME NEW w, NEW v, NEW r, NEW l, Follows(w, v, l), Follows(v, r, l)
  PROVE  Follows(w, r, l)
<1>1. Goes(w, r)
  BY DEF Follows, Goes
<1>2. FramesGo(w, r, l)
  BY DEF Follows, FramesGo
<1>3. QED
  BY <1>1, <1>2 DEF Follows

LEMMA StillOn ==
  ASSUME NEW w, NEW v, NEW r, NEW l, Still(w, v, l), Still(v, r, l)
  PROVE  Still(w, r, l)
BY FollowsOn DEF Still

(* On macOS, without Glide, a context is a level's. *)
LEMMA OnlyLevels ==
  ASSUME NEW x, NEW c, Book(x, c, None), x.os = "macos"
  PROVE  \A z \in x.live : z # None /\ \E n \in Levels : c[n] = z
BY Numbers DEF Book, Tables, World, NoneLost, LostApart, Paged

LEMMA UnboundIs ==
  ASSUME NEW w, IsBundle(w)
  PROVE  LET r == Unbound(w) IN
         /\ IsBundle(r) /\ r.g = Unbind(w.g) /\ r.ctx = w.ctx /\ r.ready = w.ready /\ r.size = w.size
         /\ r.readback = w.readback /\ r.frame = w.frame
BY DEF IsBundle, Unbound

LEMMA UnboundStill ==
  ASSUME NEW w, NEW l, NEW P, Kept(w, l, P), CurrentKnown(w.g)
  PROVE  Still(w, Unbound(w), l) /\ Unbound(w).g.cur = None
<1> DEFINE r == Unbound(w)
<1>1. /\ IsBundle(r) /\ r.g = Unbind(w.g) /\ r.ctx = w.ctx /\ r.ready = w.ready /\ r.size = w.size
      /\ r.readback = w.readback /\ r.frame = w.frame
  BY UnboundIs DEF Kept, Parts
<1> HIDE DEF r
<1>2. /\ r.g.os = w.g.os /\ r.g.cur = None /\ r.g.live = w.g.live /\ r.g.zc = w.g.zc /\ r.g.ring = w.g.ring
      /\ r.g.win = w.g.win /\ r.g.dfbo = w.g.dfbo /\ r.g.rb = w.g.rb
  BY <1>1 DEF Unbind, Kept, Book, Tables, World
<1>3. CurrentKnown(r.g)
  BY <1>2, Numbers DEF CurrentKnown
<1>4. RingNamed(w.g, w.ctx, l) => RingNamed(r.g, r.ctx, l)
  BY <1>1, <1>2 DEF RingNamed
<1>5. SizeKept(w) => SizeKept(r)
  BY <1>1, <1>2 DEF SizeKept
<1>6. FramesGo(w, r, l)
  BY <1>1, <1>2 DEF FramesGo, Framed, FbosApart, FboCurrent, RbSized, FbosSized, FbosWhole, FboComplete
<1>7. QED
  BY <1>1, <1>2, <1>3, <1>4, <1>5, <1>6 DEF Still, Follows, Goes, r

LEMMA DropStill ==
  ASSUME NEW w, NEW l, NEW P, Kept(w, l, P), CurrentKnown(w.g), NEW C, NEW d, Moved(w.ctx, d, C \ {None}),
         \A z \in C \ {None} : \E n \in Levels : w.ctx[n] = z,
         d[0] = w.ctx[0] \/ w.ctx[0] \in C \ {None}
  PROVE  Still(w, [w EXCEPT !.g = CtxDestroy(w.g, C, w.ctx[0]), !.ctx = d], l)
<1> DEFINE y == CtxDestroy(w.g, C, w.ctx[0])
           r == [w EXCEPT !.g = y, !.ctx = d]
<1>1. World(w.g) /\ IsBundle(w)
  BY DEF Kept, Book, Tables, Parts
<1>2. Without(w.g, y, C \ {None}) /\ Loses(w.g, y, C) /\ LosesRing(w.g, y, C, w.ctx[0])
  BY <1>1, DestroyEffect
<1> HIDE DEF y
<1>3. /\ IsBundle(r) /\ r.g = y /\ r.ctx = d /\ r.ready = w.ready /\ r.size = w.size /\ r.readback = w.readback
      /\ r.frame = w.frame
  BY <1>1 DEF IsBundle
<1> HIDE DEF r
<1>4. y.os = w.g.os /\ y.win = w.g.win /\ y.zc = w.g.zc
  BY <1>2 DEF Without, Loses
<1>5. CurrentKnown(y)
  BY <1>2, Numbers DEF CurrentKnown, Without, Loses
<1>6. ASSUME RingNamed(w.g, w.ctx, l) PROVE RingNamed(y, d, l)
  <2>1. y.os = "windows" => ~y.zc
    BY <1>4, <1>6 DEF RingNamed
  <2>2. ASSUME y.zc, NEW i \in Slots PROVE y.ring[i].owner \in {None, d[0], l}
    <3>1. w.g.os # "windows" /\ w.g.ring[i].owner \in {None, w.ctx[0], l}
      BY <1>4, <1>6, <2>2 DEF RingNamed
    <3>2. l \notin C \ {None}
      BY DEF Kept, Book, GlideApart
    <3>3. CASE w.ctx[0] \in C
      <4>1. y.ring[i] = NoSlot
        BY <1>2, <3>1, <3>3 DEF LosesRing
      <4>2. QED
        BY <4>1 DEF NoSlot
    <3>4. CASE w.ctx[0] \notin C
      <4>1. y.ring[i].owner = w.g.ring[i].owner
        BY <1>2, <3>1, <3>2, <3>4 DEF LosesRing
      <4>2. QED
        BY <3>1, <3>4, <4>1
    <3>5. QED
      BY <3>3, <3>4
  <2>3. QED
    BY <2>1, <2>2 DEF RingNamed
<1>7. SizeKept(w) => SizeKept(r)
  BY <1>3, <1>4 DEF SizeKept
<1>8. Goes(w, r)
  <2>1. y.cur \in {w.g.cur, None, Gone} /\ (w.g.cur = None => y.cur = None)
    BY <1>2 DEF Loses
  <2>2. ASSUME y.cur \notin {None, Gone} PROVE y.cur = w.g.cur /\ y.onwin = w.g.onwin
    BY <1>2, <2>2 DEF Loses
  <2>3. \A n \in Levels : d[n] # None => \E m \in Levels : w.ctx[m] = d[n]
    BY DEF Moved
  <2>4. QED
    BY <1>3, <2>1, <2>2, <2>3 DEF Goes
<1>9. ASSUME w.g.os = "macos", Framed(w.g, w.ctx, w.size) PROVE Framed(y, d, w.size)
  <2>1. LosesFbos(w.g, y, C, w.ctx[0]) /\ Loses(w.g, y, C) /\ Without(w.g, y, C \ {None})
    BY <1>1, <1>2, <1>9, DestroyEffect DEF y
  <2>2. ASSUME NEW i \in Levels, y.dfbo[i].attached PROVE w.g.dfbo[i].attached /\ w.ctx[0] \notin C
    <3>1. w.g.dfbo[i].ctx \notin C \ {None}
      <4>1. ~NoFbo.attached
        BY DEF NoFbo
      <4>2. QED
        BY <2>1, <2>2, <4>1 DEF LosesFbos
    <3>2. y.dfbo[i].attached = (w.g.dfbo[i].attached /\ w.ctx[0] \notin C)
      BY <2>1, <3>1 DEF LosesFbos
    <3>3. QED
      BY <2>2, <3>2, Zenon
  <2>3. \A i \in Levels : y.dfbo[i].ctx \in {w.g.dfbo[i].ctx, None}
    <3>1. NoFbo.ctx = None
      BY DEF NoFbo
    <3>2. ASSUME NEW i \in Levels PROVE y.dfbo[i].ctx \in {w.g.dfbo[i].ctx, None}
      <4>1. CASE w.g.dfbo[i].ctx \in C \ {None}
        BY <2>1, <3>1, <4>1 DEF LosesFbos
      <4>2. CASE w.g.dfbo[i].ctx \notin C \ {None}
        BY <2>1, <4>2 DEF LosesFbos
      <4>3. QED
        BY <4>1, <4>2
    <3>3. QED
      BY <3>2
  <2>4. \A i \in Levels : y.dfbo[i].ctx # None => y.dfbo[i].ctx \notin C \ {None} /\ y.dfbo[i].size = w.g.dfbo[i].size
    <3>1. NoFbo.ctx = None
      BY DEF NoFbo
    <3>2. \A i \in Levels : y.dfbo[i].ctx # None => w.g.dfbo[i].ctx \notin C \ {None}
      BY <2>1, <3>1 DEF LosesFbos
    <3>3. QED
      BY <2>1, <2>3, <3>2 DEF LosesFbos
  <2>5. \A i \in Levels : y.dfbo[i].size \in {w.g.dfbo[i].size, 0}
    BY <2>1 DEF LosesFbos, NoFbo
  <2>6. ASSUME NEW i \in Levels, y.dfbo[i].ctx = None PROVE ~y.dfbo[i].attached /\ y.dfbo[i].size = 0
    <3>1. CASE w.g.dfbo[i].ctx \in C \ {None}
      <4>1. y.dfbo[i] = NoFbo
        BY <2>1, <3>1 DEF LosesFbos
      <4>2. QED
        BY <4>1 DEF NoFbo
    <3>2. CASE w.g.dfbo[i].ctx \notin C \ {None}
      <4>1. w.g.dfbo[i].ctx = None
        BY <2>1, <2>6, <3>2 DEF LosesFbos
      <4>2. ~w.g.dfbo[i].attached /\ w.g.dfbo[i].size = 0
        BY <1>9, <4>1 DEF Framed, FbosApart
      <4>3. y.dfbo[i].size = 0 
        BY <2>1, <3>2, <4>2 DEF LosesFbos
      <4>4. QED
        BY <2>2, <4>2, <4>3
    <3>3. QED
      BY <3>1, <3>2
  <2>7. FbosApart(y)
    <3>1. \A i \in Levels : y.dfbo[i].ctx # None => y.dfbo[i].ctx \in y.live
      BY <1>9, <2>1, <2>3, <2>4 DEF Without, Framed, FbosApart
    <3>2. \A i, j \in Levels : i # j /\ y.dfbo[i].ctx # None => y.dfbo[i].ctx # y.dfbo[j].ctx
      BY <1>9, <2>3, <2>4 DEF Framed, FbosApart
    <3>3. QED
      BY <2>6, <3>1, <3>2 DEF FbosApart
  <2>8. y.cur # None => y.cur = w.g.cur /\ w.g.cur \notin C
    BY <1>9, <2>1 DEF Loses
  <2>9. FboCurrent(y)
    <3>1. ASSUME y.cur # None PROVE y.cur_dfbo = y.cur /\ y.cur \in y.live
      BY <1>9, <2>1, <2>8, <3>1 DEF Loses, Without, Framed, FboCurrent
    <3>2. ASSUME y.cur # None PROVE \E i \in Levels : y.dfbo[i].ctx = y.cur
      <4>1. PICK i \in Levels : w.g.dfbo[i].ctx = w.g.cur
        BY <1>9, <2>8, <3>2 DEF Framed, FboCurrent
      <4>2. y.dfbo[i].ctx = w.g.dfbo[i].ctx
        BY <2>1, <2>8, <3>2, <4>1 DEF LosesFbos
      <4>3. QED
        BY <2>8, <3>2, <4>1, <4>2
    <3>3. QED
      BY <3>1, <3>2 DEF FboCurrent
  <2>10. ASSUME d[0] # None PROVE RbSized(y, w.size) /\ FbosSized(y) /\ FbosWhole(y) /\ FboComplete(y)
    <3>1. w.ctx[0] \notin C /\ w.ctx[0] # None
      BY <2>10, Numbers DEF Moved
    <3>2. RbSized(w.g, w.size) /\ FbosSized(w.g) /\ FbosWhole(w.g) /\ FboComplete(w.g)
      BY <1>9, <3>1 DEF Framed
    <3>3. y.rb.named = w.g.rb.named /\ y.rb.size = w.g.rb.size
      BY <2>1, <3>1 DEF LosesFbos
    <3>4. RbSized(y, w.size)
      BY <2>8, <3>2, <3>3 DEF RbSized
    <3>5. \A i \in Levels : y.dfbo[i].ctx # None => y.dfbo[i].attached = (w.g.dfbo[i].attached /\ TRUE)
      BY <2>1, <3>1 DEF LosesFbos, NoFbo
    <3>6. FbosSized(y)
      BY <2>4, <2>6, <3>2, <3>3, <3>5 DEF FbosSized
    <3>7. FbosWhole(y)
      BY <2>4, <2>6, <3>2, <3>5 DEF FbosWhole
    <3>8. FboComplete(y)
      BY <2>1, <2>3, <2>8, <3>2, <3>5 DEF FboComplete, Loses
    <3>9. QED
      BY <3>4, <3>6, <3>7, <3>8
  <2>11. QED
    BY <2>7, <2>9, <2>10 DEF Framed
<1>10. FramesGo(w, r, l)
  BY <1>3, <1>9 DEF FramesGo
<1>11. Still(w, r, l)
  BY <1>3, <1>4, <1>5, <1>6, <1>7, <1>8, <1>10 DEF Still, Follows
<1>12. QED
  BY <1>11 DEF r, y

LEMMA DestroyedStill ==
  ASSUME NEW w, NEW l, NEW P, Kept(w, l, P), CurrentKnown(w.g), NEW N \in SUBSET Levels
  PROVE  Still(w, Destroyed(w, N), l)
<1> DEFINE C == {w.ctx[n] : n \in N} \ {None}
<1>1. Moved(w.ctx, Cleared(w.ctx, N), C \ {None})
  BY ClearedMoved DEF Kept
<1>2. Destroyed(w, N) = [w EXCEPT !.g = CtxDestroy(w.g, C, w.ctx[0]), !.ctx = Cleared(w.ctx, N)]
  BY DEF Destroyed, Cleared
<1>3. \A z \in C \ {None} : \E n \in Levels : w.ctx[n] = z
  OBVIOUS
<1>4. Cleared(w.ctx, N)[0] = w.ctx[0] \/ w.ctx[0] \in C \ {None}
  BY Numbers DEF Cleared
<1> HIDE DEF C
<1>5. Still(w, [w EXCEPT !.g = CtxDestroy(w.g, C, w.ctx[0]), !.ctx = Cleared(w.ctx, N)], l)
  BY <1>1, <1>3, <1>4, DropStill
<1>6. QED
  BY <1>2, <1>5

LEMMA CreatedStill ==
  ASSUME NEW w, NEW l, NEW P, Kept(w, l, P), CurrentKnown(w.g), NEW n \in Levels, w.ctx[n] = None, NEW share,
         n = 0 => \A j \in Levels : w.ctx[j] = None, NEW ok \in BOOLEAN
  PROVE  Still(w, Created(w, n, share, ok), l)
<1> DEFINE r == Created(w, n, share, ok)
           y == CtxCreate(w.g, share)
           k == Fresh(w.g)
<1>1. IsBundle(w) /\ w.ctx \in [Levels -> Handles] /\ World(w.g) /\ IsFiniteSet(w.g.live)
  BY DEF Kept, Parts, Book, Tables
<1>2. /\ IsBundle(r) /\ r.ctx = [w.ctx EXCEPT ![n] = IF ok THEN k ELSE None]
      /\ r.g = (IF ok THEN y ELSE w.g)
      /\ r.ready = w.ready /\ r.size = w.size /\ r.readback = w.readback /\ r.frame = w.frame
  BY <1>1, CreatedIs
<1>3. y.live = w.g.live \cup {k} /\ k \in Contexts \ w.g.live
  BY <1>1, CreateEffect
<1>4. y.os = w.g.os /\ y.cur = w.g.cur /\ y.onwin = w.g.onwin /\ y.win = w.g.win /\ y.zc = w.g.zc /\ y.ring = w.g.ring
      /\ y.dfbo = w.g.dfbo /\ y.cur_dfbo = w.g.cur_dfbo /\ y.dfbo_ok = w.g.dfbo_ok /\ y.rb = w.g.rb
  BY <1>1, CreateKeeps
<1> HIDE DEF r, y, k
<1>5. CASE ~ok
  <2>1. r.ctx = w.ctx /\ r.g = w.g
    BY <1>1, <1>2, <1>5
  <2>2. QED
    BY <1>2, <2>1 DEF Still, Follows, Goes, FramesGo, SizeKept, r
<1>6. CASE ok
  <2>1. r.ctx = [w.ctx EXCEPT ![n] = k] /\ r.g = y
    BY <1>2, <1>6
  <2>2. r.ctx[n] = k /\ \A j \in Levels \ {n} : r.ctx[j] = w.ctx[j]
    BY <1>1, <2>1
  <2>3. CurrentKnown(y)
    BY <1>3, <1>4 DEF CurrentKnown
  <2>4. RingNamed(w.g, w.ctx, l) => RingNamed(r.g, r.ctx, l)
    <3>1. r.ctx[0] = w.ctx[0] \/ w.ctx[0] = None
      BY <2>2, Numbers
    <3>2. QED
      BY <1>4, <2>1, <3>1 DEF RingNamed
  <2>5. SizeKept(w) => SizeKept(r)
    BY <1>2, <1>4, <2>1 DEF SizeKept
  <2>6. Goes(w, r)
    <3>1. w.g.cur \notin {None, Gone} => w.g.cur # k
      BY <1>3 DEF CurrentKnown
    <3>2. QED
      BY <1>4, <2>1, <2>2, <3>1 DEF Goes
  <2>7. ASSUME w.g.os = "macos", l = None, Framed(w.g, w.ctx, w.size) PROVE Framed(y, r.ctx, w.size)
    <3>1. FbosApart(y) /\ FboCurrent(y)
      BY <1>3, <1>4, <2>7 DEF Framed, FbosApart, FboCurrent
    <3>2. CASE n # 0
      <4>1. r.ctx[0] = w.ctx[0]
        BY <2>2, <3>2, Numbers
      <4>2. QED
        BY <1>4, <2>7, <3>1, <4>1 DEF Framed, RbSized, FbosSized, FbosWhole, FboComplete
    <3>3. CASE n = 0
      <4>1. w.g.live = {}
        BY <2>7, <3>3, OnlyLevels DEF Kept
      <4>2. y.cur = None /\ \A i \in Levels : y.dfbo[i].ctx = None
        BY <1>4, <2>7, <4>1 DEF Framed, FbosApart, FboCurrent
      <4>3. QED
        BY <3>1, <4>2 DEF Framed, FbosApart, RbSized, FbosSized, FbosWhole, FboComplete
    <3>4. QED
      BY <3>2, <3>3
  <2>8. FramesGo(w, r, l)
    BY <1>2, <2>1, <2>7 DEF FramesGo
  <2>9. QED
    BY <1>2, <1>4, <2>1, <2>3, <2>4, <2>5, <2>6, <2>8 DEF Still, Follows, r
<1>7. QED
  BY <1>5, <1>6

(* The renderbuffers get a size while a context is current, on macOS:      *)
(* every framebuffer that has them is of a level, and follows.              *)
LEMMA RbFramed ==
  ASSUME NEW x, NEW c, Book(x, c, None), x.os = "macos", x.cur \in x.live, NEW size, FbosApart(x),
         c[0] # None => FbosSized(x) /\ FbosWhole(x)
  PROVE  LET y == RbEnsure(x, size) IN
         /\ Keeps(x, y) /\ FbosApart(y) /\ y.rb.named /\ y.rb.size = size
         /\ \A i \in Levels : y.dfbo[i].ctx = x.dfbo[i].ctx /\ y.dfbo[i].attached = x.dfbo[i].attached
         /\ c[0] # None => FbosSized(y) /\ FbosWhole(y)
<1> DEFINE y == RbEnsure(x, size)
<1>1. World(x)
  BY DEF Book, Tables
<1>2. RbFollows(x, y, size) /\ Keeps(x, y)
  BY <1>1, RbEnsureFollows, RbEnsureKeeps
<1> HIDE DEF y
<1>3. FbosApart(y)
  BY <1>2 DEF FbosApart, RbFollows, Keeps, KeepsBooks
<1>4. ASSUME c[0] # None PROVE FbosSized(y) /\ FbosWhole(y)
  <2>1. FbosSized(x) /\ FbosWhole(x)
    BY <1>4
  <2>2. \A z \in x.live : x.group[z] = x.group[c[0]]
    <3>1. \A z \in x.live : z # None /\ \E n \in Levels : c[n] = z
      BY OnlyLevels
    <3>2. QED
      BY <1>4, <3>1 DEF Book, Share
  <2>3. \A i \in Levels : x.dfbo[i].attached => x.dfbo[i].ctx \in x.live
    BY DEF FbosApart
  <2>4. FbosSized(y)
    BY <1>2, <2>1, <2>2, <2>3 DEF FbosSized, RbFollows
  <2>5. FbosWhole(y)
    BY <1>2, <2>1 DEF FbosWhole, RbFollows
  <2>6. QED
    BY <2>4, <2>5
<1>5. QED
  BY <1>2, <1>3, <1>4 DEF RbFollows, y

(* The drawable gets a size. *)
LEMMA ResizedFollows ==
  ASSUME NEW w, NEW l, NEW P, Kept(w, l, P), CurrentKnown(w.g), NEW size \in Sizes, NEW ok
  PROVE  LET r == Resized(w, size, ok) IN
         /\ Follows(w, r, l) /\ r.ready = w.ready /\ r.frame = w.frame /\ r.ctx = w.ctx /\ r.g.cur = w.g.cur
         /\ r.size \in {w.size, size} /\ (w.g.os = "macos" => r.size = size)
<1> DEFINE r == Resized(w, size, ok)
           y == Drawable(w.g, size)
<1>1. /\ IsBundle(r) /\ r.ctx = w.ctx /\ r.ready = w.ready /\ r.frame = w.frame
      /\ IF (w.ready /\ w.size = size) \/ ~(ok \/ w.g.os = "macos") THEN r = w
         ELSE r.g = y /\ r.size = size /\ r.readback = size
  BY ResizedIs DEF Kept, Parts
<1>2. World(w.g)
  BY DEF Kept, Book, Tables
<1>3. Keeps(w.g, y)
  BY <1>2, DrawableKeeps
<1>4. /\ w.g.os # "macos" => y.win = size
      /\ w.g.os = "linux" => y.onwin = w.g.onwin
      /\ w.g.os = "windows" => y.onwin = (w.g.cur # None)
      /\ w.g.os = "macos" => y = IF w.g.cur \in w.g.live THEN RbEnsure(w.g, size) ELSE w.g
  BY <1>2, DrawableEffect
<1>5. w.g.os \in {"linux", "macos", "windows"}
  BY <1>2, PlatformAssumption DEF World
<1> HIDE DEF r, y
<1>6. w.g.os = "macos" => r.size = size
  BY <1>1
<1>7. CASE r = w
  BY <1>1, <1>6, <1>7 DEF Follows, Goes, FramesGo, r
<1>8. CASE r # w
  <2>1. r.g = y /\ r.size = size /\ r.readback = size
    BY <1>1, <1>8
  <2>2. /\ y.os = w.g.os /\ y.live = w.g.live /\ y.group = w.g.group /\ y.cur = w.g.cur /\ y.zc = w.g.zc
        /\ y.ring = w.g.ring /\ y.cur_dfbo = w.g.cur_dfbo /\ y.dfbo_ok = w.g.dfbo_ok
    BY <1>3 DEF Keeps, KeepsBooks
  <2>3. CurrentKnown(y)
    BY <2>2 DEF CurrentKnown
  <2>4. RingNamed(w.g, w.ctx, l) => RingNamed(r.g, r.ctx, l)
    BY <1>1, <2>1, <2>2 DEF RingNamed
  <2>5. SizeKept(r)
    BY <1>4, <2>1, <2>2 DEF SizeKept
  <2>6. Goes(w, r)
    BY <1>1, <1>4, <1>5, <2>1, <2>2 DEF Goes
  <2>7. ASSUME w.g.os = "macos", l = None, Framed(w.g, w.ctx, w.size) PROVE Framed(y, w.ctx, size)
    <3>1. CASE w.g.cur \notin w.g.live
      <4>1. y = w.g /\ w.g.cur = None
        BY <1>4, <2>7, <3>1 DEF CurrentKnown
      <4>2. QED
        BY <2>7, <4>1 DEF Framed, RbSized
    <3>2. CASE w.g.cur \in w.g.live
      <4>1. y = RbEnsure(w.g, size)
        BY <1>4, <2>7, <3>2
      <4>2. FbosApart(w.g) /\ (w.ctx[0] # None => FbosSized(w.g) /\ FbosWhole(w.g)) /\ Book(w.g, w.ctx, None)
        BY <2>7 DEF Framed, Kept
      <4>3. /\ FbosApart(y) /\ y.rb.named /\ y.rb.size = size
            /\ \A i \in Levels : y.dfbo[i].ctx = w.g.dfbo[i].ctx /\ y.dfbo[i].attached = w.g.dfbo[i].attached
            /\ w.ctx[0] # None => FbosSized(y) /\ FbosWhole(y)
        BY <2>7, <3>2, <4>1, <4>2, RbFramed
      <4>4. FboCurrent(y) /\ RbSized(y, size) /\ (w.ctx[0] # None => FboComplete(y))
        BY <2>2, <2>7, <4>3 DEF Framed, FboCurrent, RbSized, FboComplete
      <4>5. QED
        BY <4>3, <4>4 DEF Framed
    <3>3. QED
      BY <3>1, <3>2
  <2>8. FramesGo(w, r, l)
    BY <1>1, <2>1, <2>7 DEF FramesGo
  <2>9. Follows(w, r, l)
    BY <2>1, <2>2, <2>3, <2>4, <2>5, <2>6, <2>8 DEF Follows
  <2>10. QED
    BY <1>1, <1>6, <2>1, <2>2, <2>9 DEF r
<1>9. QED
  BY <1>7, <1>8

(* A frame goes to the frontend. *)
LEMMA PublishedFollows ==
  ASSUME NEW w, NEW l, NEW P, Kept(w, l, P), CurrentKnown(w.g), w.g.cur \in {w.ctx[0], l}, NEW taken
  PROVE  LET r == Published(w, taken) IN
         /\ Follows(w, r, l) /\ r.ready = w.ready /\ r.size = w.size /\ r.ctx = w.ctx /\ r.g.cur = w.g.cur
<1> DEFINE r == Published(w, taken)
           n == Present(w.g, w.size, taken)
<1>1. World(w.g) /\ IsBundle(w) /\ w.size \in Sizes \cup {0}
  BY DEF Kept, Book, Tables, Parts
<1>2. /\ KeepsBooks(w.g, n) /\ RingTakes(w.g, n, w.size)
      /\ n.cur = w.g.cur /\ n.onwin = w.g.onwin /\ n.win = w.g.win /\ n.dfbo = w.g.dfbo /\ n.cur_dfbo = w.g.cur_dfbo
      /\ n.dfbo_ok = w.g.dfbo_ok /\ n.rb = w.g.rb
  BY <1>1, PresentEffect
<1>3. /\ r.ctx = w.ctx /\ r.ready = w.ready /\ r.size = w.size /\ r.readback = w.readback /\ (r = w \/ r.g = n)
  BY <1>1, PublishedIs
<1> HIDE DEF r, n
<1>4. CASE r = w
  BY <1>4 DEF Follows, Goes, FramesGo, r
<1>5. CASE r # w
  <2>1. r.g = n /\ n.os = w.g.os /\ n.live = w.g.live
    BY <1>2, <1>3, <1>5 DEF KeepsBooks
  <2>2. CurrentKnown(n)
    BY <1>2, <2>1 DEF CurrentKnown
  <2>3. RingNamed(w.g, w.ctx, l) => RingNamed(n, w.ctx, l)
    BY <1>2, <2>1 DEF RingNamed, RingTakes
  <2>4. SizeKept(w) => SizeKept(r)
    BY <1>2, <1>3, <2>1 DEF SizeKept
  <2>5. Goes(w, r)
    BY <1>2, <1>3, <2>1 DEF Goes
  <2>6. FramesGo(w, r, l)
    BY <1>2, <1>3, <2>1 DEF FramesGo, Framed, FbosApart, FboCurrent, RbSized, FbosSized, FbosWhole, FboComplete
  <2>7. QED
    BY <1>2, <1>3, <2>1, <2>2, <2>3, <2>4, <2>5, <2>6 DEF Follows, r
<1>6. QED
  BY <1>4, <1>5

(* It is drawn by a name of the context that draws it. *)
LEMMA PublishedHome ==
  ASSUME NEW w, NEW l, NEW P, Kept(w, l, P), w.g.cur \in {w.ctx[0], l}, w.g.cur # None, l = None \/ w.ctx[0] = None,
         RingNamed(w.g, w.ctx, l), w.frame.home, NEW taken
  PROVE  Published(w, taken).frame.home
<1> DEFINE r == Published(w, taken)
           n == Present(w.g, w.size, taken)
           home == n.zc => n.ring[w.g.zc_next].owner = w.g.cur
<1>1. World(w.g) /\ IsBundle(w) /\ w.size \in Sizes \cup {0} /\ w.g.zc_next \in Slots
  BY DEF Kept, Book, Tables, Parts, World
<1>2. RingTakes(w.g, n, w.size)
  BY <1>1, PresentEffect
<1>3. r = w \/ r.frame = [by |-> w.g.cur, size |-> w.size, picture |-> Picture(w.g),
                        into |-> IF n.zc THEN n.ring[w.g.zc_next].size ELSE w.readback,
                        home |-> n.zc => n.ring[w.g.zc_next].owner = w.g.cur]
  BY <1>1, PublishedIs
<1> HIDE DEF r, n
<1>4. r = w \/ r.frame.home = home
  BY <1>3
<1>5. home
  BY <1>1, <1>2 DEF RingTakes, RingNamed
<1> HIDE DEF home
<1>6. QED
  BY <1>4, <1>5 DEF r

(* And it is a whole picture. *)
Whole(f) == f.by # None => f.size # 0 /\ f.picture = f.size /\ f.into = f.size

LEMMA PublishedWhole ==
  ASSUME NEW w, NEW l, NEW P, Kept(w, l, P), CurrentKnown(w.g), w.g.cur # None, w.size # 0, SizeKept(w),
         w.g.os # "macos" => w.g.onwin,
         w.g.os = "macos" => w.ctx[0] # None /\ Framed(w.g, w.ctx, w.size),
         Whole(w.frame), NEW taken
  PROVE  Whole(Published(w, taken).frame)
<1> DEFINE r == Published(w, taken)
           n == Present(w.g, w.size, taken)
           into == IF n.zc THEN n.ring[w.g.zc_next].size ELSE w.readback
<1>1. World(w.g) /\ IsBundle(w) /\ w.size \in Sizes \cup {0}
  BY DEF Kept, Book, Tables, Parts
<1>2. RingTakes(w.g, n, w.size)
  BY <1>1, PresentEffect
<1>3. IF ~w.ready \/ w.readback = 0 \/ (w.g.os = "macos" /\ ~w.g.dfbo_ok) THEN r = w
      ELSE r.frame = [by |-> w.g.cur, size |-> w.size, picture |-> Picture(w.g),
                      into |-> IF n.zc THEN n.ring[w.g.zc_next].size ELSE w.readback,
                      home |-> n.zc => n.ring[w.g.zc_next].owner = w.g.cur]
  BY <1>1, PublishedIs
<1> HIDE DEF r, n
<1>4. IF ~w.ready \/ w.readback = 0 \/ (w.g.os = "macos" /\ ~w.g.dfbo_ok) THEN r = w
       ELSE r.frame.size = w.size /\ r.frame.picture = Picture(w.g) /\ r.frame.into = into
  BY <1>3
<1>5. into = w.size
  BY <1>2 DEF RingTakes, SizeKept
<1> HIDE DEF into
<1>6. CASE r = w
  BY <1>6 DEF r
<1>7. CASE r # w
  <2>1. r.frame.size = w.size /\ r.frame.picture = Picture(w.g) /\ r.frame.into = w.size /\ (w.g.os = "macos" => w.g.dfbo_ok)
    BY <1>4, <1>5, <1>7
  <2>2. Picture(w.g) = w.size
    <3>1. CASE w.g.os # "macos"
      BY <3>1 DEF Picture, WindowPicture, SizeKept
    <3>2. CASE w.g.os = "macos"
      <4> DEFINE mine == {i \in Levels : w.g.dfbo[i].ctx = w.g.cur_dfbo}
                 k == Min(mine)
      <4>1. /\ FboCurrent(w.g) /\ RbSized(w.g, w.size) /\ FbosSized(w.g) /\ FboComplete(w.g)
        BY <3>2 DEF Framed
      <4>2. w.g.cur_dfbo = w.g.cur /\ \E i \in Levels : w.g.dfbo[i].ctx = w.g.cur
        BY <4>1 DEF FboCurrent
      <4>3. mine \in SUBSET Nat /\ mine # {}
        BY <4>2, Numbers DEF Levels
      <4>4. k \in mine
        BY <4>3, MinOf
      <4>5. Picture(w.g) = w.g.dfbo[k].size
        BY <2>1, <3>2, <4>3 DEF Picture, FboPicture
      <4> HIDE DEF k
      <4>6. k \in Levels /\ w.g.dfbo[k].ctx = w.g.cur
        BY <4>2, <4>4
      <4>7. w.g.dfbo[k].attached
        BY <2>1, <3>2, <4>1, <4>6 DEF FboComplete
      <4>8. w.g.dfbo[k].size = w.g.rb.size /\ w.g.rb.size = w.size
        BY <4>1, <4>6, <4>7 DEF FbosSized, RbSized
      <4>9. QED
        BY <4>5, <4>8
    <3>3. QED
      BY <3>1, <3>2
  <2>3. QED
    BY <2>1, <2>2 DEF Whole, r
<1>8. QED
  BY <1>6, <1>7

(* present_frame: a frame, if the main context's, and then the mode's size. *)
LEMMA PresentedFollows ==
  ASSUME NEW w, NEW l, NEW P, Kept(w, l, P), CurrentKnown(w.g), mode \in Sizes, NEW taken, NEW ok
  PROVE  LET r == Presented(w, taken, ok) IN
         /\ Follows(w, r, l) /\ r.ready = w.ready /\ r.ctx = w.ctx /\ r.g.cur = w.g.cur
         /\ r.size \in {w.size, mode} /\ (w.g.os = "macos" => r.size = mode)
         /\ w.g.cur = w.ctx[0] => r.frame = Published(w, taken).frame
         /\ w.g.cur # w.ctx[0] => r.frame = w.frame
<1> DEFINE n == IF w.g.cur = w.ctx[0] THEN Published(w, taken) ELSE w
           r == Presented(w, taken, ok)
<1>1. w.ctx[0] \in Handles
  BY Numbers DEF Kept, Book, Tables
<1>2. Kept(n, l, P)
  BY <1>1, PublishedKept
<1>3. Follows(w, n, l) /\ n.ready = w.ready /\ n.size = w.size /\ n.ctx = w.ctx /\ n.g.cur = w.g.cur
  <2>1. CASE w.g.cur = w.ctx[0]
    <3>1. n = Published(w, taken) /\ w.g.cur \in {w.ctx[0], l}
      BY <2>1
    <3>2. QED
      BY <3>1, PublishedFollows
  <2>2. CASE w.g.cur # w.ctx[0]
    BY <2>2 DEF Follows, Goes, FramesGo
  <2>3. QED
    BY <2>1, <2>2
<1>4. r = IF n.size = mode THEN n ELSE Resized(n, mode, ok)
  BY DEF Presented
<1> HIDE DEF n, r
<1>5. CurrentKnown(n.g) /\ n.g.os = w.g.os
  BY <1>3 DEF Follows
<1>6. CASE n.size = mode
  BY <1>3, <1>4, <1>6 DEF n, r
<1>7. CASE n.size # mode
  <2>1. r = Resized(n, mode, ok)
    BY <1>4, <1>7
  <2>2. /\ Follows(n, r, l) /\ r.ready = n.ready /\ r.frame = n.frame /\ r.ctx = n.ctx /\ r.g.cur = n.g.cur
        /\ r.size \in {n.size, mode} /\ (n.g.os = "macos" => r.size = mode)
    BY <1>2, <1>5, <2>1, ResizedFollows
  <2>3. Follows(w, r, l)
    BY <1>3, <2>2, FollowsOn
  <2>4. QED
    BY <1>3, <1>5, <2>2, <2>3 DEF n, r
<1>8. QED
  BY <1>6, <1>7

(* The drawable goes, with no context current. *)
LEMMA ReleasedFollows ==
  ASSUME NEW w, NEW l, NEW P, Kept(w, l, P), w.g.cur = None
  PROVE  LET r == [w EXCEPT !.g = DrawableRelease(w.g), !.size = 0, !.ready = FALSE] IN
         /\ Follows(w, r, l) /\ r.ready = FALSE /\ r.size = 0 /\ r.ctx = w.ctx /\ r.frame = w.frame
         /\ r.g = DrawableRelease(w.g) /\ r.g.cur = None
<1> DEFINE y == DrawableRelease(w.g)
           r == [w EXCEPT !.g = y, !.size = 0, !.ready = FALSE]
<1>1. World(w.g) /\ IsBundle(w)
  BY DEF Kept, Book, Tables, Parts
<1>2. KeepsBooks(w.g, y)
  BY <1>1, ReleaseBooks
<1>3. /\ y.zc = w.g.zc /\ (y.cur = w.g.cur \/ (w.g.os = "windows" /\ y.cur = None))
      /\ w.g.os # "macos" => y.win = 0
      /\ w.g.os = "linux" => \A i \in Slots : y.ring[i] = NoSlot
      /\ w.g.os # "linux" => y.ring = w.g.ring
      /\ w.g.os = "macos" => y = w.g
  BY <1>1, ReleaseEffect
<1> HIDE DEF y
<1>4. /\ r.g = y /\ r.ctx = w.ctx /\ r.size = 0 /\ r.ready = FALSE /\ r.readback = w.readback /\ r.frame = w.frame
  BY <1>1 DEF IsBundle
<1> HIDE DEF r
<1>5. y.cur = None /\ y.os = w.g.os /\ y.live = w.g.live
  BY <1>2, <1>3 DEF KeepsBooks
<1>6. CurrentKnown(y)
  BY <1>5, Numbers DEF CurrentKnown
<1>7. NoSlot.owner = None
  BY DEF NoSlot
<1>8. RingNamed(w.g, w.ctx, l) => RingNamed(y, w.ctx, l)
  BY <1>3, <1>5, <1>7 DEF RingNamed
<1>9. SizeKept(r)
  BY <1>3, <1>4, <1>5 DEF SizeKept
<1>10. Goes(w, r)
  BY <1>4, <1>5 DEF Goes
<1>11. FramesGo(w, r, l)
  BY <1>3, <1>4, <1>5 DEF FramesGo, Framed, RbSized
<1>12. Follows(w, r, l)
  BY <1>4, <1>5, <1>6, <1>8, <1>9, <1>10, <1>11 DEF Follows
<1>13. QED
  BY <1>4, <1>5, <1>12 DEF r, y

(* A context becomes current in the drawable. *)
DrawsOn(r, l) ==
  r.g.os # "macos" /\ r.size # 0 /\ r.g.cur # None /\ (r.g.cur = l \/ \E n \in Levels : r.ctx[n] = r.g.cur) => r.g.onwin

LEMMA EnteredKnown ==
  ASSUME NEW x, World(x), CurrentKnown(x), NEW c \in Handles, c # None => c \in x.live, NEW size \in Sizes \cup {0}
  PROVE  LET y == MakeCurrent(x, c, size) IN
         /\ y.os = x.os /\ CurrentKnown(y) /\ y.zc = x.zc /\ y.ring = x.ring /\ (x.os # "macos" => y.win = x.win)
         /\ x.os # "macos" /\ x.win # 0 /\ y.cur # None => y.onwin \/ y = x
<1> DEFINE y == MakeCurrent(x, c, size)
<1>1. /\ World(y) /\ KeepsBooks(x, y) /\ y.zc = x.zc /\ y.ring = x.ring
      /\ c # None => y.cur = c
      /\ c = None => y.cur = None \/ (y = x /\ x.os = "linux")
      /\ x.os # "macos" => y.win = x.win
      /\ x.os # "macos" /\ c # None /\ x.win # 0 => y.onwin
  BY CurrentEffect
<1> HIDE DEF y
<1>2. y.os = x.os /\ y.live = x.live
  BY <1>1 DEF KeepsBooks
<1>3. CurrentKnown(y)
  <2>1. CASE c # None
    BY <1>1, <1>2, <2>1, Numbers DEF CurrentKnown, World
  <2>2. CASE c = None
    BY <1>1, <1>2, <2>2, Numbers DEF CurrentKnown
  <2>3. QED
    BY <2>1, <2>2
<1>4. QED
  BY <1>1, <1>2, <1>3 DEF y

(* There is a framebuffer for every level: if none is free, the contexts    *)
(* they are of are the levels', all of them.                                *)
LEMMA RoomForAll ==
  ASSUME NEW x, NEW c, Book(x, c, None), x.os = "macos", FbosApart(x), NEW z \in x.live
  PROVE  \E i \in Levels : x.dfbo[i].ctx \in {z, None}
<1> SUFFICES ASSUME \A i \in Levels : x.dfbo[i].ctx # None PROVE \E i \in Levels : x.dfbo[i].ctx = z
  OBVIOUS
<1> DEFINE f == [i \in Levels |-> CHOOSE n \in Levels : c[n] = x.dfbo[i].ctx]
<1>1. \A y \in x.live : y # None /\ \E n \in Levels : c[n] = y
  BY OnlyLevels
<1>2. \A i \in Levels : f[i] \in Levels /\ c[f[i]] = x.dfbo[i].ctx
  BY <1>1 DEF FbosApart
<1>3. f \in [Levels -> Levels]
  BY <1>2
<1> HIDE DEF f
<1>4. \A i, j \in Levels : i # j => f[i] # f[j]
  BY <1>2 DEF FbosApart
<1>5. f \in Injection(Levels, Levels)
  BY <1>3, <1>4, Fun_IsInj
<1>6. IsFiniteSet(Levels)
  BY Numbers, FS_Interval DEF Levels
<1>7. f \in Surjection(Levels, Levels)
  BY <1>5, <1>6, FS_Injection
<1>8. PICK n \in Levels : c[n] = z
  BY <1>1
<1>9. PICK i \in Levels : f[i] = n
  BY <1>7 DEF Surjection
<1>10. QED
  BY <1>2, <1>8, <1>9

LEMMA EnteredFramed ==
  ASSUME NEW x, NEW c, Book(x, c, None), x.os = "macos", NEW size \in Sizes, Framed(x, c, size),
         NEW z \in Handles, z # None => z \in x.live
  PROVE  Framed(MakeCurrent(x, z, size), c, size)
<1> DEFINE u == [x EXCEPT !.cur = z, !.onwin = FALSE]
           y == MakeCurrent(x, z, size)
           r == RbEnsure(u, size)
<1>1. World(x)
  BY DEF Book, Tables
<1>2. World(u) /\ KeepsBooks(x, u) /\ u.cur = z /\ u.dfbo = x.dfbo /\ u.rb = x.rb
  BY <1>1 DEF World, KeepsBooks
<1>3. FbosApart(u) /\ (c[0] # None => FbosSized(u) /\ FbosWhole(u)) /\ u.os = "macos" /\ u.live = x.live
  BY <1>2 DEF Framed, FbosApart, FbosSized, FbosWhole, KeepsBooks
<1>4. y = IF z = None THEN u ELSE DfboEnsure(u, size)
  BY Numbers DEF MakeCurrent, CglMakeCurrent
<1> HIDE DEF u, y
<1>5. CASE z = None
  BY <1>2, <1>3, <1>4, <1>5 DEF Framed, FboCurrent, RbSized, FboComplete, y
<1>6. CASE z # None
  <2>1. Book(u, c, None)
    BY <1>2, BookKept
  <2>2. u.cur \in u.live
    BY <1>2, <1>3, <1>6
  <2>3. /\ Keeps(u, r) /\ FbosApart(r) /\ r.rb.named /\ r.rb.size = size
        /\ \A i \in Levels : r.dfbo[i].ctx = u.dfbo[i].ctx /\ r.dfbo[i].attached = u.dfbo[i].attached
        /\ c[0] # None => FbosSized(r) /\ FbosWhole(r)
    BY <1>3, <2>1, <2>2, RbFramed
  <2>4. /\ KeepsBooks(r, DfboEnsure(u, size)) /\ DfboEnsure(u, size).cur = r.cur
        /\ (\E i \in Levels : r.dfbo[i].ctx \in {r.cur, None}) => \E k \in Levels : FboMade(r, DfboEnsure(u, size), k)
    BY <1>2, <2>2, FboEnsured
  <2>5. \E i \in Levels : u.dfbo[i].ctx \in {u.cur, None}
    BY <1>3, <2>1, <2>2, RoomForAll
  <2> HIDE DEF r
  <2>6. r.cur = z /\ r.live = x.live
    BY <1>2, <1>3, <2>3 DEF Keeps, KeepsBooks
  <2>7. \E i \in Levels : r.dfbo[i].ctx \in {r.cur, None}
    BY <1>2, <2>3, <2>5, <2>6
  <2>8. y.cur = z /\ y.live = x.live /\ \E k \in Levels : FboMade(r, y, k)
    BY <1>4, <1>6, <2>4, <2>6, <2>7 DEF KeepsBooks
  <2>9. PICK k \in Levels : FboMade(r, y, k)
    BY <2>8
  <2>10. FbosApart(y)
    BY <1>6, <2>2, <1>2, <1>3, <2>3, <2>6, <2>8, <2>9 DEF FbosApart, FboMade
  <2>11. FboCurrent(y)
    BY <1>2, <1>3, <2>2, <2>8, <2>9 DEF FboCurrent, FboMade
  <2>12. RbSized(y, size)
    BY <2>3, <2>9 DEF RbSized, FboMade
  <2>13. ASSUME c[0] # None PROVE FbosSized(y) /\ FbosWhole(y) /\ FboComplete(y)
    <3>1. FbosSized(r) /\ FbosWhole(r)
      BY <2>3, <2>13
    <3>2. FbosSized(y)
      BY <2>9, <3>1 DEF FbosSized, FboMade
    <3>3. FbosWhole(y)
      BY <2>9, <3>1 DEF FbosWhole, FboMade
    <3>4. ASSUME y.dfbo_ok, NEW i \in Levels, y.dfbo[i].ctx = y.cur, y.cur # None PROVE y.dfbo[i].attached
      <4>1. i = k
        BY <2>9, <2>10, <3>4 DEF FbosApart, FboMade
      <4>2. y.dfbo[k].size # 0
        BY <2>9, <3>4 DEF FboMade
      <4>3. QED
        BY <3>3, <4>1, <4>2 DEF FbosWhole
    <3>5. QED
      BY <3>2, <3>3, <3>4 DEF FboComplete
  <2>14. QED
    BY <2>10, <2>11, <2>12, <2>13 DEF Framed, y
<1>7. QED
  BY <1>5, <1>6

---------------------------------------------------------------------------
(* What a call has to keep. *)
LEMMA ScreenAfter ==
  ASSUME BookInv, WindowInv, RingInv, PictureInv, History, BookInv', NEW w, Becomes(w),
         w.g.os = g.os, CurrentKnown(w.g), w.g.cur # None => w.ready, SizeKept(w), Readied(w),
         glide_open' => glide_ctx' # None,
         ~shared' /\ fx_active' => w.ready,
         ~shared' => RingNamed(w.g, w.ctx, glide_ctx'),
         ~shared' => w.frame.home,
         (Goes(Bundle, w) /\ glide_ctx' = glide_ctx) \/ DrawsOn(w, glide_ctx'),
         ~shared' /\ w.g.os = "macos" => Framed(w.g, w.ctx, w.size),
         ~shared' /\ ~bare' => Whole(w.frame)
  PROVE  WindowInv' /\ RingInv' /\ PictureInv'
<1>1. /\ g' = w.g /\ ctx' = w.ctx /\ win_ready' = w.ready /\ win_size' = w.size
      /\ readback' = w.readback /\ frame' = w.frame
  BY DEF Becomes
<1>2. WindowInv'
  <2>1. CurrentShown'
    BY <1>1 DEF CurrentShown
  <2>2. (glide_open => glide_ctx # None)'
    OBVIOUS
  <2>3. (~shared /\ glide_ctx # None => win_ready /\ ctx[0] = None /\ g.os # "macos")'
    BY <1>1 DEF History
  <2>4. DesktopComesBack'
    BY <1>1 DEF DesktopComesBack
  <2>5. QED
    BY <2>1, <2>2, <2>3, <2>4 DEF WindowInv, GlideAlone
<1>3. RingInv'
  BY <1>1 DEF RingInv, RingStaysHome
<1>4. PictureInv'
  <2>1. Sized(g, win_ready, win_size, readback)'
    BY <1>1 DEF Sized, SizeKept, Readied
  <2>2. ASSUME ~shared', ~bare', w.g.os # "macos" 
        PROVE  /\ w.g.cur # None => w.size # 0
               /\ w.g.cur # None /\ (w.g.cur = glide_ctx' \/ \E n \in Levels : w.ctx[n] = w.g.cur) => w.g.onwin
    <3>1. w.g.cur # None => w.size # 0
      BY <1>1, <2>2 DEF History
    <3>2. ASSUME w.g.cur # None, w.g.cur = glide_ctx' \/ \E n \in Levels : w.ctx[n] = w.g.cur PROVE w.g.onwin
      <4>1. CASE DrawsOn(w, glide_ctx')
        BY <2>2, <3>1, <3>2, <4>1 DEF DrawsOn
      <4>2. CASE Goes(Bundle, w) /\ glide_ctx' = glide_ctx
        <5>1. Kept(Bundle, glide_ctx, pbuffers) /\ Bundle.g = g /\ Bundle.ctx = ctx
          BY BooksNow
        <5>2. w.g.cur # Gone
          <6>1. (ctx \in [Levels -> Handles] /\ glide_ctx \in Handles)'
            <7>1. BookInv'
              OBVIOUS
            <7>2. QED
              BY <7>1 DEF BookInv, Book, Tables
          <6>2. QED
            BY <1>1, <3>2, <6>1, Numbers DEF Handles
        <5>3. w.g.cur = g.cur /\ g.cur # None
          BY <3>2, <4>2, <5>1, <5>2 DEF Goes
        <5>4. ~bare /\ ~shared
          BY <1>1, <2>2, <3>2, <5>3 DEF History
        <5>5. g.cur = glide_ctx \/ \E n \in Levels : ctx[n] = g.cur
          BY <3>2, <4>2, <5>1, <5>2, <5>3, <2>2 DEF Goes
        <5>6. g.onwin
          BY <2>2, <5>3, <5>4, <5>5 DEF PictureInv, Drawing
        <5>7. QED
          BY <2>2, <4>2, <5>1, <5>2, <5>3, <5>6, <3>2 DEF Goes
      <4>3. QED
        BY <4>1, <4>2
    <3>3. QED
      BY <3>1, <3>2
  <2>3. (~shared => Drawing(g, ctx, glide_ctx, win_size, bare))'
    BY <1>1, <2>2 DEF Drawing
  <2>4. (~shared /\ g.os = "macos" => Framed(g, ctx, win_size))'
    BY <1>1
  <2>5. FrameIsWhole'
    BY <1>1 DEF FrameIsWhole, Whole
  <2>6. QED
    BY <2>1, <2>3, <2>4, <2>5 DEF PictureInv
<1>5. QED
  BY <1>2, <1>3, <1>4

---------------------------------------------------------------------------
(* The screen, action by action.                                            *)

Screen == WindowInv /\ RingInv /\ PictureInv

LEMMA ScreenNow ==
  ASSUME BookInv, Screen
  PROVE  /\ Kept(Bundle, glide_ctx, pbuffers) /\ OtherTypes
         /\ Bundle.g = g /\ Bundle.ctx = ctx /\ Bundle.ready = win_ready /\ Bundle.size = win_size /\ Bundle.frame = NoFrame
         /\ CurrentKnown(g) /\ SizeKept(Bundle) /\ Readied(Bundle)
         /\ g.cur # None => win_ready
         /\ ~shared => /\ RingNamed(g, ctx, glide_ctx)
                       /\ glide_ctx # None => win_ready /\ ctx[0] = None /\ g.os # "macos"
                       /\ fx_active => win_ready
                       /\ Drawing(g, ctx, glide_ctx, win_size, bare)
                       /\ g.os = "macos" => Framed(g, ctx, win_size)
         /\ NoFrame.home /\ Whole(NoFrame)
<1>1. /\ Kept(Bundle, glide_ctx, pbuffers) /\ OtherTypes
      /\ Bundle.g = g /\ Bundle.ctx = ctx /\ Bundle.ready = win_ready /\ Bundle.size = win_size
      /\ Bundle.readback = readback /\ Bundle.frame = NoFrame
  BY BooksNow
<1>2. NoFrame.home /\ Whole(NoFrame)
  BY DEF NoFrame, Whole
<1>3. SizeKept(Bundle) /\ Readied(Bundle)
  BY <1>1 DEF SizeKept, Readied, Screen, PictureInv, Sized
<1>4. QED
  BY <1>1, <1>2, <1>3 DEF Screen, WindowInv, CurrentShown, GlideAlone, DesktopComesBack, RingInv, PictureInv

(* A call that leaves Glide as it is *)
LEMMA ScreenFollows ==
  ASSUME BookInv, Screen, History, BookInv', NEW w, Becomes(w), Follows(Bundle, w, glide_ctx), Readied(w),
         w.g.cur # None => w.ready,
         glide_ctx' = glide_ctx, glide_open' = glide_open,
         ~shared' /\ fx_active' => w.ready,
         ~shared' => w.frame.home,
         ~shared' /\ ~bare' => Whole(w.frame)
  PROVE  Screen'
<1>1. /\ Bundle.g = g /\ Bundle.ctx = ctx /\ Bundle.size = win_size /\ SizeKept(Bundle)
      /\ ~shared => /\ RingNamed(g, ctx, glide_ctx)
                    /\ g.os = "macos" => Framed(g, ctx, win_size)
  BY ScreenNow
<1>2. /\ w.g.os = g.os /\ CurrentKnown(w.g) /\ SizeKept(w) /\ Goes(Bundle, w)
      /\ RingNamed(g, ctx, glide_ctx) => RingNamed(w.g, w.ctx, glide_ctx)
      /\ g.os = "macos" /\ glide_ctx = None /\ Framed(g, ctx, win_size) => Framed(w.g, w.ctx, w.size)
  BY <1>1 DEF Follows, FramesGo
<1>3. ~shared' => ~shared /\ (g.os = "macos" => glide_ctx = None)
  BY DEF History
<1>4. glide_open' => glide_ctx' # None
  BY DEF Screen, WindowInv, GlideAlone
<1>5. ~shared' => RingNamed(w.g, w.ctx, glide_ctx')
  BY <1>1, <1>2, <1>3
<1>6. ~shared' /\ w.g.os = "macos" => Framed(w.g, w.ctx, w.size)
  BY <1>1, <1>2, <1>3
<1>7. WindowInv' /\ RingInv' /\ PictureInv'
  BY <1>2, <1>4, <1>5, <1>6, ScreenAfter DEF Screen
<1>8. QED
  BY <1>7 DEF Screen

(* One that hands no frame over and keeps the drawable *)
LEMMA ScreenStill ==
  ASSUME BookInv, Screen, History, BookInv', NEW w, Becomes(w), Still(Bundle, w, glide_ctx),
         glide_ctx' = glide_ctx, glide_open' = glide_open,
         ~shared' /\ fx_active' => fx_active \/ win_ready
  PROVE  Screen'
<1>1. /\ Bundle.g = g /\ Bundle.ready = win_ready /\ Bundle.size = win_size /\ Bundle.frame = NoFrame /\ Readied(Bundle)
      /\ g.cur # None => win_ready
      /\ ~shared => (fx_active => win_ready)
      /\ NoFrame.home /\ Whole(NoFrame)
  BY ScreenNow
<1>2. /\ Follows(Bundle, w, glide_ctx) /\ w.ready = win_ready /\ w.size = win_size /\ w.frame = NoFrame
  BY <1>1 DEF Still
<1>3. Readied(w)
  BY <1>1, <1>2 DEF Readied, Follows
<1>4. w.g.cur # None => w.ready
  BY <1>1, <1>2 DEF Follows, Goes
<1>5. ~shared' => ~shared
  BY DEF History
<1>6. ~shared' /\ fx_active' => w.ready
  BY <1>1, <1>2, <1>5
<1>7. QED
  BY <1>1, <1>2, <1>3, <1>4, <1>6, ScreenFollows

LEMMA PixelFormatScreen ==
  ASSUME BookInv, Screen, History, BookInv', NEW set \in BOOLEAN, PixelFormat(set) PROVE Screen'
<1>1. PICK ok \in Outcomes :
        /\ Becomes(IF set THEN Purged(Preset(Bundle, ok)) ELSE Preset(Bundle, ok))
        /\ UNCHANGED <<attribs, pbuffers, glide, fx_active, mode, shared>>
  BY DEF PixelFormat
<1> DEFINE w == Preset(Bundle, ok)
           z == [Bundle EXCEPT !.ready = TRUE, !.size = 0]
<1>2. /\ Kept(Bundle, glide_ctx, pbuffers) /\ mode \in Sizes /\ CurrentKnown(g) /\ Bundle.g = g /\ Bundle.ready = win_ready
      /\ SizeKept(Bundle) /\ Readied(Bundle) /\ Bundle.frame = NoFrame /\ NoFrame.home /\ Whole(NoFrame)
      /\ ~shared => (fx_active => win_ready)
  BY ScreenNow DEF OtherTypes
<1>3. /\ IsBundle(z) /\ z.g = Bundle.g /\ z.ctx = Bundle.ctx /\ z.ready = TRUE /\ z.size = 0
      /\ z.readback = Bundle.readback /\ z.frame = Bundle.frame
  BY <1>2 DEF Kept, Parts, IsBundle
<1>4. w = IF Bundle.ready THEN Bundle ELSE Resized(z, mode, ok)
  BY DEF Preset
<1> HIDE DEF w, z
<1>5. Kept(z, glide_ctx, pbuffers)
  BY <1>2, <1>3 DEF Kept, Parts
<1>6. /\ Follows(Bundle, w, glide_ctx) /\ w.frame = NoFrame /\ w.ready = TRUE /\ Readied(w) /\ Kept(w, glide_ctx, pbuffers)
  <2>1. CASE Bundle.ready
    BY <1>2, <1>4, <2>1, StillSelf DEF Still
  <2>2. CASE ~Bundle.ready
    <3>1. Bundle.size = 0
      BY <1>2, <2>2 DEF Readied
    <3>2. Follows(Bundle, z, glide_ctx)
      BY <1>2, <1>3, <3>1 DEF Follows, SizeKept, Goes, FramesGo
    <3>3. /\ Follows(z, w, glide_ctx) /\ w.ready = z.ready /\ w.frame = z.frame /\ w.ctx = z.ctx /\ w.g.cur = z.g.cur
          /\ w.size \in {z.size, mode} /\ (z.g.os = "macos" => w.size = mode)
      BY <1>2, <1>3, <1>4, <1>5, <2>2, ResizedFollows
    <3>4. Kept(w, glide_ctx, pbuffers)
      BY <1>2, <1>4, <1>5, <2>2, ResizedKept
    <3>5. Readied(w)
      BY <1>2, <1>3, <3>3, Numbers DEF Readied, Follows
    <3>6. QED
      BY <1>2, <1>3, <3>2, <3>3, <3>4, <3>5, FollowsOn
  <2>3. QED
    BY <2>1, <2>2
<1>7. Still(w, Purged(w), glide_ctx)
  BY <1>6, DestroyedStill, StillSelf, Numbers DEF Purged, Follows
<1>8. PICK v \in {w, Purged(w)} : Becomes(v)
  BY <1>1 DEF w
<1>9. Still(w, v, glide_ctx)
  BY <1>6, <1>7, StillSelf DEF Follows
<1>10. Follows(Bundle, v, glide_ctx) /\ v.frame = NoFrame /\ v.ready = TRUE /\ Readied(v)
  <2>1. Follows(w, v, glide_ctx) /\ v.ready = w.ready /\ v.size = w.size /\ v.frame = w.frame /\ v.g.os = w.g.os
    BY <1>9 DEF Still, Follows
  <2>2. Readied(v)
    BY <1>6, <2>1 DEF Readied
  <2>3. QED
    BY <1>6, <2>1, <2>2, FollowsOn
<1>11. glide_ctx' = glide_ctx /\ glide_open' = glide_open
  BY <1>1 DEF glide
<1>12. QED
  BY <1>2, <1>8, <1>10, <1>11, ScreenFollows

LEMMA CreateContextScreen ==
  ASSUME BookInv, Screen, History, BookInv', NEW ok \in Outcomes, CreateContext(ok) PROVE Screen'
<1> DEFINE u == Unbound(Bundle)
           w == Destroyed(u, Levels \ {0})
           v == IF w.ctx[0] = None THEN Created(w, 0, None, ok) ELSE w
<1>1. Becomes(v) /\ glide_ctx' = glide_ctx /\ glide_open' = glide_open /\ fx_active' = fx_active
  BY DEF CreateContext, glide
<1>2. Kept(Bundle, glide_ctx, pbuffers) /\ CurrentKnown(Bundle.g) /\ ok \in BOOLEAN
  BY ScreenNow DEF Outcomes
<1>3. Kept(u, glide_ctx, pbuffers) /\ Still(Bundle, u, glide_ctx)
  BY <1>2, UnboundKept, UnboundStill
<1>4. CurrentKnown(u.g)
  BY <1>3 DEF Still, Follows
<1> HIDE DEF u
<1>5. Kept(w, glide_ctx, pbuffers) /\ Still(u, w, glide_ctx)
  BY <1>3, <1>4, DestroyedKept, DestroyedStill
<1>6. \A j \in Levels \ {0} : w.ctx[j] = None
  BY <1>3, NoLevelsLeft DEF Kept, Parts, Cleared
<1>7. CurrentKnown(w.g)
  BY <1>5 DEF Still, Follows
<1> HIDE DEF w
<1>8. Still(w, v, glide_ctx)
  BY <1>2, <1>5, <1>6, <1>7, CreatedStill, StillSelf, Numbers
<1> HIDE DEF v
<1>9. Still(Bundle, v, glide_ctx)
  BY <1>3, <1>5, <1>8, StillOn
<1>10. QED
  BY <1>1, <1>9, ScreenStill

LEMMA CreateMainScreen ==
  ASSUME BookInv, Screen, History, BookInv', NEW list \in Lists, NEW ok \in Outcomes, CreateMain(list, ok) PROVE Screen'
<1> DEFINE u == Unbound(Bundle)
           w == Destroyed(u, Levels)
           v == IF attribs = list THEN u ELSE Created(w, 0, None, ok)
<1>1. Becomes(v) /\ glide_ctx' = glide_ctx /\ glide_open' = glide_open /\ (fx_active' => fx_active)
  BY DEF CreateMain, glide
<1>2. Kept(Bundle, glide_ctx, pbuffers) /\ CurrentKnown(Bundle.g) /\ ok \in BOOLEAN
  BY ScreenNow DEF Outcomes
<1>3. Kept(u, glide_ctx, pbuffers) /\ Still(Bundle, u, glide_ctx)
  BY <1>2, UnboundKept, UnboundStill
<1>4. CurrentKnown(u.g)
  BY <1>3 DEF Still, Follows
<1> HIDE DEF u
<1>5. Kept(w, glide_ctx, pbuffers) /\ Still(u, w, glide_ctx)
  BY <1>3, <1>4, DestroyedKept, DestroyedStill
<1>6. \A j \in Levels : w.ctx[j] = None
  <2>1. IsBundle(u)
    BY <1>3 DEF Kept, Parts
  <2>2. w.ctx = Cleared(u.ctx, Levels)
    BY <2>1, NoLevelsLeft
  <2>3. QED
    BY <2>2 DEF Cleared
<1>7. CurrentKnown(w.g)
  BY <1>5 DEF Still, Follows
<1> HIDE DEF w
<1>8. Still(w, Created(w, 0, None, ok), glide_ctx)
  BY <1>2, <1>5, <1>6, <1>7, CreatedStill, Numbers
<1>9. Still(Bundle, v, glide_ctx)
  BY <1>3, <1>5, <1>8, StillOn
<1> HIDE DEF v
<1>10. QED
  BY <1>1, <1>9, ScreenStill

LEMMA CreateLevelScreen ==
  ASSUME BookInv, Screen, History, BookInv', NEW ok \in Outcomes, CreateLevel(ok) PROVE Screen'
<1> DEFINE free == {n \in Levels : ctx[n] = None}
<1>1. /\ Kept(Bundle, glide_ctx, pbuffers) /\ CurrentKnown(Bundle.g) /\ Bundle.ctx = ctx
      /\ IsBundle(Bundle) /\ ctx \in [Levels -> Handles]
  BY ScreenNow DEF Kept, Parts, Book, Tables
<1>2. /\ ctx[0] # None /\ glide_ctx' = glide_ctx /\ glide_open' = glide_open /\ fx_active' = fx_active /\ ok \in BOOLEAN
  BY DEF CreateLevel, glide, Outcomes
<1>3. CASE free = {}
  <2> DEFINE z == MadeRoom(Bundle)
             m == MaxLevels - 1
             share == z.ctx[MaxLevels - 2]
             d == ShiftedTable(ctx)
  <2>1. \A n \in Levels : Bundle.ctx[n] # None
    BY <1>1, <1>3
  <2>2. Becomes(Created(Shifted(Bundle), MaxLevels - 1, Shifted(Bundle).ctx[MaxLevels - 1 - 1], ok))
    BY <1>3 DEF CreateLevel
  <2>3. MaxLevels - 1 - 1 = MaxLevels - 2
    BY Numbers
  <2>4. /\ Created(Shifted(Bundle), m, Shifted(Bundle).ctx[MaxLevels - 2], ok) = Created(z, m, share, ok)
        /\ m \in Levels /\ m # 0 /\ z.ctx[m] = None
    BY <1>1, <1>2, <2>1, PushedIs
  <2>5. Moved(ctx, d, {ctx[1]} \ {None}) /\ {ctx[1]} \ {None} = {ctx[1]}
    <3>1. {ctx[1]} \ {None} = {ctx[1]}
      BY <1>1, <2>1, Numbers
    <3>2. Moved(ctx, d, {ctx[1]})
      BY <1>1, ShiftMoved DEF Kept
    <3>3. QED
      BY <3>1, <3>2
  <2>6. d[0] = ctx[0]
    BY Numbers DEF ShiftedTable
  <2>7. \A h \in {ctx[1]} \ {None} : \E n \in Levels : Bundle.ctx[n] = h
    BY <1>1, Numbers
  <2>8. Kept(z, glide_ctx, pbuffers) /\ Still(Bundle, z, glide_ctx)
    BY <1>1, <2>5, <2>6, <2>7, DropKept, DropStill DEF MadeRoom
  <2>9. CurrentKnown(z.g)
    BY <2>8 DEF Still, Follows
  <2> HIDE DEF z, m
  <2>10. Still(z, Created(z, m, share, ok), glide_ctx)
    BY <1>2, <2>4, <2>8, <2>9, CreatedStill
  <2>11. Still(Bundle, Created(z, m, share, ok), glide_ctx)
    BY <2>8, <2>10, StillOn
  <2>12. Becomes(Created(z, m, share, ok))
    BY <2>2, <2>3, <2>4 DEF m
  <2>13. QED
    BY <1>2, <2>11, <2>12, ScreenStill
<1>4. CASE free # {}
  <2> DEFINE n == Min(free)
  <2>1. Becomes(Created(Bundle, n, Bundle.ctx[n - 1], ok))
    BY <1>4 DEF CreateLevel
  <2>2. free \in SUBSET Nat
    BY DEF Levels
  <2>3. n \in free
    BY <1>4, <2>2, MinOf
  <2> HIDE DEF n
  <2>4. n \in Levels /\ Bundle.ctx[n] = None /\ n # 0
    BY <1>1, <1>2, <2>3
  <2>5. Still(Bundle, Created(Bundle, n, Bundle.ctx[n - 1], ok), glide_ctx)
    BY <1>1, <1>2, <2>4, CreatedStill
  <2>6. QED
    BY <1>2, <2>1, <2>5, ScreenStill
<1>5. QED
  BY <1>3, <1>4

LEMMA MakeLevelCurrentScreen ==
  ASSUME BookInv, Screen, History, BookInv', NEW n \in Levels, NEW ok \in Outcomes, MakeLevelCurrent(n, ok) PROVE Screen'
<1> DEFINE w == Resized(Bundle, mode, ok)
           y == MakeCurrent(w.g, ctx[n], w.size)
           r == [w EXCEPT !.g = y]
<1>1. /\ win_ready /\ Becomes([w EXCEPT !.g = MakeCurrent(w.g, ctx[n], w.size)])
      /\ glide_ctx' = glide_ctx /\ glide_open' = glide_open
  BY DEF MakeLevelCurrent, glide
<1>2. /\ Kept(Bundle, glide_ctx, pbuffers) /\ mode \in Sizes /\ CurrentKnown(Bundle.g)
      /\ Bundle.g = g /\ Bundle.ctx = ctx /\ Bundle.ready = win_ready /\ Bundle.size = win_size /\ Bundle.frame = NoFrame
      /\ SizeKept(Bundle) /\ Readied(Bundle) /\ NoFrame.home /\ Whole(NoFrame)
      /\ ~shared => /\ RingNamed(g, ctx, glide_ctx)
                    /\ glide_ctx # None => g.os # "macos"
                    /\ g.os = "macos" => Framed(g, ctx, win_size)
  BY ScreenNow DEF OtherTypes
<1>3. /\ Follows(Bundle, w, glide_ctx) /\ w.ready = win_ready /\ w.frame = NoFrame /\ w.ctx = ctx
      /\ w.size \in {win_size, mode} /\ (g.os = "macos" => w.size = mode)
  BY <1>2, ResizedFollows
<1>4. Kept(w, glide_ctx, pbuffers)
  BY <1>2, ResizedKept
<1> HIDE DEF w
<1>5. /\ Becomes(r) /\ r.g = y /\ r.ctx = ctx /\ r.ready = TRUE /\ r.size = w.size /\ r.readback = w.readback /\ r.frame = NoFrame
  BY <1>1, <1>3, <1>4 DEF Kept, Parts, IsBundle
<1>6. /\ World(w.g) /\ CurrentKnown(w.g) /\ ctx[n] \in Handles /\ (ctx[n] # None => ctx[n] \in w.g.live)
      /\ w.size \in Sizes \cup {0} /\ w.g.os = g.os /\ Book(w.g, ctx, glide_ctx)
  <2>1. Book(w.g, ctx, glide_ctx) /\ w.size \in Sizes \cup {0}
    BY <1>3, <1>4 DEF Kept, Parts
  <2>2. World(w.g) /\ ctx[n] \in Handles /\ (ctx[n] # None => ctx[n] \in w.g.live)
    BY <2>1 DEF Book, Tables, LevelsLive
  <2>3. QED
    BY <1>2, <1>3, <2>1, <2>2 DEF Follows
<1>7. /\ y.os = w.g.os /\ CurrentKnown(y) /\ y.zc = w.g.zc /\ y.ring = w.g.ring /\ (w.g.os # "macos" => y.win = w.g.win)
      /\ w.g.os # "macos" /\ w.g.win # 0 /\ y.cur # None => y.onwin \/ y = w.g
  BY <1>6, EnteredKnown
<1>8. ASSUME ~shared', g.os = "macos" PROVE Framed(y, ctx, w.size)
  <2>1. ~shared /\ glide_ctx = None
    BY <1>2, <1>8 DEF History
  <2>2. Framed(w.g, ctx, w.size)
    BY <1>2, <1>3, <1>8, <2>1 DEF Follows, FramesGo
  <2>3. Book(w.g, ctx, None) /\ w.g.os = "macos" /\ w.size \in Sizes
    BY <1>2, <1>3, <1>6, <1>8, <2>1
  <2>4. QED
    BY <1>6, <2>2, <2>3, EnteredFramed
<1> HIDE DEF r, y
<1>9. r.g.os = g.os /\ CurrentKnown(r.g)
  BY <1>5, <1>6, <1>7
<1>10. SizeKept(r)
  BY <1>2, <1>3, <1>5, <1>7 DEF SizeKept, Follows
<1>11. Readied(r)
  BY <1>2, <1>3, <1>5, <1>9, Numbers DEF Readied
<1>12. ~shared' => RingNamed(r.g, r.ctx, glide_ctx')
  <2>1. RingNamed(g, ctx, glide_ctx) => RingNamed(w.g, ctx, glide_ctx)
    BY <1>2, <1>3 DEF Follows
  <2>2. RingNamed(w.g, ctx, glide_ctx) => RingNamed(y, ctx, glide_ctx)
    BY <1>7 DEF RingNamed
  <2>3. QED
    BY <1>1, <1>2, <1>5, <2>1, <2>2 DEF History
<1>13. (Goes(Bundle, r) /\ glide_ctx' = glide_ctx) \/ DrawsOn(r, glide_ctx')
  <2>1. CASE y = w.g
    BY <1>1, <1>3, <1>5, <2>1 DEF Follows, Goes
  <2>2. CASE y # w.g
    <3>1. SizeKept(w)
      BY <1>2, <1>3 DEF Follows
    <3>2. r.g.os # "macos" => w.g.win = r.size
      BY <1>5, <1>6, <1>9, <3>1 DEF SizeKept
    <3>3. QED
      BY <1>5, <1>6, <1>7, <1>9, <2>2, <3>2 DEF DrawsOn
  <2>3. QED
    BY <2>1, <2>2
<1>14. ~shared' /\ r.g.os = "macos" => Framed(r.g, r.ctx, r.size)
  BY <1>5, <1>8, <1>9
<1>15. glide_open' => glide_ctx' # None
  BY <1>1 DEF Screen, WindowInv, GlideAlone
<1>16. WindowInv' /\ RingInv' /\ PictureInv'
  BY <1>2, <1>5, <1>9, <1>10, <1>11, <1>12, <1>13, <1>14, <1>15, ScreenAfter DEF Screen
<1>17. QED
  BY <1>16 DEF Screen

(* A frame that a context is current for *)
LEMMA PublishedScreen ==
  ASSUME BookInv, Screen, History, g.cur # None, g.cur \in {ctx[0], glide_ctx}, g'.cur = g.cur,
         NEW taken
  PROVE  /\ ~shared' => Published(Bundle, taken).frame.home
         /\ ~shared' /\ ~bare' => Whole(Published(Bundle, taken).frame)
<1>1. /\ Kept(Bundle, glide_ctx, pbuffers) /\ CurrentKnown(Bundle.g)
      /\ Bundle.g = g /\ Bundle.ctx = ctx /\ Bundle.ready = win_ready /\ Bundle.size = win_size /\ Bundle.frame = NoFrame
      /\ SizeKept(Bundle) /\ Readied(Bundle) /\ NoFrame.home /\ Whole(NoFrame) /\ win_ready
      /\ ~shared => /\ RingNamed(g, ctx, glide_ctx)
                    /\ glide_ctx # None => ctx[0] = None /\ g.os # "macos"
                    /\ Drawing(g, ctx, glide_ctx, win_size, bare)
                    /\ g.os = "macos" => Framed(g, ctx, win_size)
  BY ScreenNow
<1>2. ~shared' => ~shared
  BY DEF History
<1>3. ASSUME ~shared' PROVE Published(Bundle, taken).frame.home
  <2>1. glide_ctx = None \/ ctx[0] = None
    BY <1>1, <1>2, <1>3
  <2>2. QED
    BY <1>1, <1>2, <1>3, <2>1, PublishedHome
<1>4. ASSUME ~shared', ~bare' PROVE Whole(Published(Bundle, taken).frame)
  <2>1. ~shared /\ ~bare
    BY <1>2, <1>4 DEF History
  <2>2. win_size # 0
    BY <1>1, <2>1 DEF Drawing, Readied
  <2>3. g.os # "macos" => g.onwin
    BY <1>1, <2>1, Numbers DEF Drawing
  <2>4. g.os = "macos" => ctx[0] # None /\ Framed(g, ctx, win_size)
    BY <1>1, <2>1
  <2>5. QED
    BY <1>1, <2>2, <2>3, <2>4, PublishedWhole
<1>5. QED
  BY <1>3, <1>4

LEMMA PresentedScreen ==
  ASSUME BookInv, Screen, History, BookInv', g.cur # None, NEW taken, NEW ok, Becomes(Presented(Bundle, taken, ok)),
         UNCHANGED glide
  PROVE  Screen'
<1> DEFINE r == Presented(Bundle, taken, ok)
<1>1. /\ Kept(Bundle, glide_ctx, pbuffers) /\ CurrentKnown(Bundle.g) /\ mode \in Sizes
      /\ Bundle.g = g /\ Bundle.ctx = ctx /\ Bundle.ready = win_ready /\ Bundle.size = win_size /\ Bundle.frame = NoFrame
      /\ Readied(Bundle) /\ NoFrame.home /\ Whole(NoFrame) /\ win_ready
  BY ScreenNow DEF OtherTypes
<1>2. /\ Follows(Bundle, r, glide_ctx) /\ r.ready = win_ready /\ r.g.cur = g.cur
      /\ r.size \in {win_size, mode} /\ (g.os = "macos" => r.size = mode)
      /\ r.frame = IF g.cur = ctx[0] THEN Published(Bundle, taken).frame ELSE NoFrame
  <2>1. Kept(Bundle, glide_ctx, pbuffers) /\ CurrentKnown(Bundle.g) /\ mode \in Sizes
    BY <1>1
  <2>2. /\ Follows(Bundle, r, glide_ctx) /\ r.ready = Bundle.ready /\ r.g.cur = Bundle.g.cur
        /\ r.size \in {Bundle.size, mode} /\ (Bundle.g.os = "macos" => r.size = mode)
        /\ Bundle.g.cur = Bundle.ctx[0] => r.frame = Published(Bundle, taken).frame
        /\ Bundle.g.cur # Bundle.ctx[0] => r.frame = Bundle.frame
    BY <2>1, PresentedFollows
  <2> HIDE DEF r
  <2>3. QED
    BY <1>1, <2>2
<1> HIDE DEF r
<1>3. Becomes(r) /\ g'.cur = g.cur /\ glide_ctx' = glide_ctx /\ glide_open' = glide_open
  BY <1>2 DEF r, Becomes, glide
<1>4. Readied(r)
  BY <1>1, <1>2, Numbers DEF Readied, Follows
<1>5. (~shared' => r.frame.home) /\ (~shared' /\ ~bare' => Whole(r.frame))
  <2>1. CASE g.cur = ctx[0]
    BY <1>2, <1>3, <2>1, PublishedScreen
  <2>2. CASE g.cur # ctx[0]
    BY <1>1, <1>2, <2>2
  <2>3. QED
    BY <2>1, <2>2
<1>6. QED
  BY <1>1, <1>2, <1>3, <1>4, <1>5, ScreenFollows

LEMMA SwapBuffersScreen ==
  ASSUME BookInv, Screen, History, BookInv', NEW taken, NEW ok, SwapBuffers(taken, ok) PROVE Screen'
BY PresentedScreen DEF SwapBuffers

LEMMA FlushFrontScreen ==
  ASSUME BookInv, Screen, History, BookInv', NEW taken, FlushFront(taken) PROVE Screen'
BY PresentedScreen DEF FlushFront

LEMMA DeleteContextScreen ==
  ASSUME BookInv, Screen, History, BookInv', NEW n \in Levels, DeleteContext(n) PROVE Screen'
<1> DEFINE w == Unbound(Bundle)
           C == {ctx[n]}
           d == Cleared(ctx, {n})
           v == [w EXCEPT !.g = CtxDestroy(w.g, C, ctx[0]), !.ctx = d]
<1>1. Kept(Bundle, glide_ctx, pbuffers) /\ CurrentKnown(Bundle.g) /\ Bundle.ctx = ctx /\ IsBundle(Bundle)
  BY ScreenNow DEF Kept, Parts
<1>2. /\ Kept(w, glide_ctx, pbuffers) /\ Still(Bundle, w, glide_ctx) /\ w.ctx = ctx
  BY <1>1, UnboundKept, UnboundStill, UnboundIs
<1>3. IsBundle(w) /\ ctx \in [Levels -> Handles] /\ CurrentKnown(w.g)
  BY <1>2 DEF Kept, Parts, Book, Tables, Still, Follows
<1>4. [w.ctx EXCEPT ![n] = None] = d
  BY <1>2, <1>3 DEF Cleared
<1>5. /\ Becomes(IF n = 0 THEN Destroyed(w, Levels \ {0}) ELSE v)
      /\ glide_ctx' = glide_ctx /\ glide_open' = glide_open /\ (fx_active' => fx_active)
  <2>1. [w EXCEPT !.g = CtxDestroy(w.g, {ctx[n]}, ctx[0]), !.ctx[n] = None] = v
    BY <1>3, <1>4 DEF IsBundle
  <2>2. QED
    BY <2>1 DEF DeleteContext, glide
<1> HIDE DEF w
<1>6. CASE n = 0
  <2>1. Still(w, Destroyed(w, Levels \ {0}), glide_ctx)
    BY <1>2, <1>3, DestroyedStill
  <2>2. Still(Bundle, Destroyed(w, Levels \ {0}), glide_ctx)
    BY <1>2, <2>1, StillOn
  <2>3. QED
    BY <1>5, <1>6, <2>2, ScreenStill
<1>7. CASE n # 0
  <2>1. Moved(ctx, d, C \ {None})
    BY <1>2, <1>3, ClearedMoved DEF Kept
  <2>2. d[0] = ctx[0]
    BY <1>7, Numbers DEF Cleared
  <2>3. \A z \in C \ {None} : \E j \in Levels : ctx[j] = z
    OBVIOUS
  <2> HIDE DEF C, d
  <2>4. Still(w, v, glide_ctx)
    BY <1>2, <1>3, <2>1, <2>2, <2>3, DropStill
  <2> HIDE DEF v
  <2>5. Still(Bundle, v, glide_ctx)
    BY <1>2, <2>4, StillOn
  <2>6. QED
    BY <1>5, <1>7, <2>5, ScreenStill
<1>8. QED
  BY <1>6, <1>7

LEMMA WndReleaseScreen == ASSUME BookInv, Screen, History, BookInv', WndRelease PROVE Screen'
<1> DEFINE u == Unbound(Bundle)
           w == Destroyed(u, {0})
           r == [w EXCEPT !.g = DrawableRelease(w.g), !.size = 0, !.ready = FALSE]
<1>1. Becomes(r) /\ fx_active' = FALSE /\ glide_ctx' = glide_ctx /\ glide_open' = glide_open
  BY DEF WndRelease, glide
<1>2. /\ Kept(Bundle, glide_ctx, pbuffers) /\ CurrentKnown(Bundle.g) /\ Bundle.frame = NoFrame
      /\ NoFrame.home /\ Whole(NoFrame)
  BY ScreenNow
<1>3. Kept(u, glide_ctx, pbuffers) /\ Still(Bundle, u, glide_ctx) /\ u.g.cur = None
  BY <1>2, UnboundKept, UnboundStill
<1>4. CurrentKnown(u.g)
  BY <1>3 DEF Still, Follows
<1> HIDE DEF u
<1>5. Kept(w, glide_ctx, pbuffers) /\ Still(u, w, glide_ctx)
  BY <1>3, <1>4, DestroyedKept, DestroyedStill, Numbers
<1>6. Still(Bundle, w, glide_ctx) /\ w.g.cur = None
  BY <1>3, <1>5, StillOn DEF Still, Follows, Goes
<1> HIDE DEF w
<1>7. /\ Follows(w, r, glide_ctx) /\ r.ready = FALSE /\ r.size = 0 /\ r.frame = w.frame /\ r.g.cur = None
  BY <1>5, <1>6, ReleasedFollows
<1> HIDE DEF r
<1>8. Follows(Bundle, r, glide_ctx) /\ r.frame = NoFrame /\ Readied(r)
  BY <1>2, <1>6, <1>7, FollowsOn DEF Still, Readied
<1>9. QED
  BY <1>1, <1>2, <1>7, <1>8, ScreenFollows

(* A pbuffer comes or goes. *)
LEMMA PbufferScreen ==
  ASSUME BookInv, Screen, History, BookInv', NEW y, Becomes([Bundle EXCEPT !.g = y]), UNCHANGED <<glide, fx_active>>,
         y.os = g.os, CurrentKnown(y), y.win = g.win,
         y.cur \in {g.cur, None, Gone}, g.cur = None => y.cur = None, y.cur \notin {None, Gone} => y.onwin = g.onwin,
         RingNamed(g, ctx, glide_ctx) => RingNamed(y, ctx, glide_ctx),
         g.os = "macos" => /\ y.live = g.live /\ y.cur = g.cur /\ y.dfbo = g.dfbo /\ y.cur_dfbo = g.cur_dfbo
                           /\ y.dfbo_ok = g.dfbo_ok /\ y.rb = g.rb
  PROVE  Screen'
<1> DEFINE r == [Bundle EXCEPT !.g = y]
<1>1. Kept(Bundle, glide_ctx, pbuffers) /\ Bundle.g = g /\ Bundle.ctx = ctx
  BY ScreenNow
<1>2. /\ Becomes(r) /\ r.g = y /\ r.ctx = ctx /\ r.ready = Bundle.ready /\ r.size = Bundle.size
      /\ r.readback = Bundle.readback /\ r.frame = Bundle.frame
  BY <1>1 DEF Kept, Parts, IsBundle
<1> HIDE DEF r
<1>3. Goes(Bundle, r)
  BY <1>1, <1>2 DEF Goes
<1>4. FramesGo(Bundle, r, glide_ctx)
  BY <1>1, <1>2 DEF FramesGo, Framed, FbosApart, FboCurrent, RbSized, FbosSized, FbosWhole, FboComplete
<1>5. SizeKept(Bundle) => SizeKept(r)
  BY <1>1, <1>2 DEF SizeKept
<1>6. Still(Bundle, r, glide_ctx)
  BY <1>1, <1>2, <1>3, <1>4, <1>5 DEF Still, Follows
<1>7. glide_ctx' = glide_ctx /\ glide_open' = glide_open /\ fx_active' = fx_active
  BY DEF glide
<1>8. QED
  BY <1>2, <1>6, <1>7, ScreenStill

LEMMA CreatePbufferScreen ==
  ASSUME BookInv, Screen, History, BookInv', NEW how \in Answers(g), CreatePbuffer(how) PROVE Screen'
<1> DEFINE i == Min(Pbuffers \ pbuffers)
           y == PbufferCreate(g, i, how)
<1>1. World(g) /\ IsFiniteSet(g.live) /\ CurrentKnown(g) /\ pbuffers \subseteq Pbuffers
  BY ScreenNow, BooksNow DEF BookInv, Book, Tables
<1>2. Becomes([Bundle EXCEPT !.g = y]) /\ UNCHANGED <<glide, fx_active>> /\ pbuffers # Pbuffers
  BY BooksNow DEF CreatePbuffer
<1>3. i \in Pbuffers
  <2>1. Pbuffers \ pbuffers # {}
    BY <1>1, <1>2
  <2>3. Pbuffers \ pbuffers \in SUBSET Nat
    BY Numbers DEF Pbuffers
  <2>2. QED
    BY <2>1, <2>3, MinOf
<1> HIDE DEF i
<1>4. /\ y.os = g.os /\ y.cur = g.cur /\ y.onwin = g.onwin /\ y.win = g.win /\ y.zc = g.zc /\ y.ring = g.ring
      /\ g.live \subseteq y.live
      /\ g.os = "macos" => /\ y.live = g.live /\ y.dfbo = g.dfbo /\ y.cur_dfbo = g.cur_dfbo
                           /\ y.dfbo_ok = g.dfbo_ok /\ y.rb = g.rb
  <2>1. CASE how \in {"config", "pbuffer"}
    BY <2>1 DEF PbufferCreate
  <2>2. CASE how \notin {"config", "pbuffer"} /\ g.os = "macos"
    <3>1. y = [g EXCEPT !.pb = [g.pb EXCEPT ![i] = g.cur]]
      BY <1>1, <2>2 DEF PbufferCreate, PbufferFbo, World
    <3> HIDE DEF y
    <3>2. QED
      BY <1>1, <3>1 DEF World
  <2>3. CASE how = "context" /\ g.os # "macos"
    <3>1. y = [g EXCEPT !.pb = [g.pb EXCEPT ![i] = None], !.lost = g.lost \cup ({g.pb[i]} \ {None})]
      BY <1>1, <2>3 DEF PbufferCreate, PbufferContext, World
    <3> HIDE DEF y
    <3>2. QED
      BY <1>1, <2>3, <3>1 DEF World
  <2>4. CASE how \notin {"config", "pbuffer", "context"} /\ g.os # "macos"
    <3>1. y = PbufferContext(g, i, how)
      BY <2>4 DEF PbufferCreate
    <3>2. y.live = g.live \cup {Fresh(g)} /\ y.os = g.os /\ y.cur = g.cur /\ y.onwin = g.onwin /\ y.win = g.win
          /\ y.zc = g.zc /\ y.ring = g.ring
      BY <1>1, <1>3, <2>4, <3>1, PbufferNewIs
    <3>3. QED
      BY <2>4, <3>2
  <2>5. QED
    BY <2>1, <2>2, <2>3, <2>4
<1> HIDE DEF y
<1>5. CurrentKnown(y) /\ (RingNamed(g, ctx, glide_ctx) => RingNamed(y, ctx, glide_ctx))
  BY <1>1, <1>4 DEF CurrentKnown, RingNamed
<1>6. QED
  BY <1>2, <1>4, <1>5, PbufferScreen

LEMMA DestroyPbufferScreen ==
  ASSUME BookInv, Screen, History, BookInv', NEW i \in Pbuffers, DestroyPbuffer(i) PROVE Screen'
<1> DEFINE y == PbufferDestroy(g, i)
           C == {g.pb[i]}
           z == CtxDestroy(g, C, Gone)
<1>1. World(g) /\ CurrentKnown(g) /\ Book(g, ctx, glide_ctx)
  BY ScreenNow DEF BookInv, Book, Tables
<1>2. Becomes([Bundle EXCEPT !.g = y]) /\ UNCHANGED <<glide, fx_active>>
  BY BooksNow DEF DestroyPbuffer
<1>3. CASE g.os = "macos" \/ g.pb[i] = None
  <2>1. y = [g EXCEPT !.pb = [g.pb EXCEPT ![i] = None]]
    BY <1>1, <1>3 DEF PbufferDestroy, World
  <2> HIDE DEF y
  <2>2. /\ y.os = g.os /\ y.live = g.live /\ y.cur = g.cur /\ y.onwin = g.onwin /\ y.win = g.win /\ y.zc = g.zc
        /\ y.ring = g.ring /\ y.dfbo = g.dfbo /\ y.cur_dfbo = g.cur_dfbo /\ y.dfbo_ok = g.dfbo_ok /\ y.rb = g.rb
    BY <1>1, <2>1 DEF World
  <2>3. CurrentKnown(y) /\ (RingNamed(g, ctx, glide_ctx) => RingNamed(y, ctx, glide_ctx))
    BY <1>1, <2>2 DEF CurrentKnown, RingNamed
  <2>4. QED
    BY <1>2, <2>2, <2>3, PbufferScreen
<1>4. CASE g.os # "macos" /\ g.pb[i] # None
  <2>1. World(z) /\ Without(g, z, C \ {None}) /\ Loses(g, z, C) /\ LosesRing(g, z, C, Gone)
    BY <1>1, DestroyType, DestroyEffect
  <2>2. C \ {None} = C /\ Gone \notin C /\ ctx[0] \notin C /\ glide_ctx \notin C
    <3>1. g.pb[i] \in g.live /\ g.pb[i] # glide_ctx /\ \A n \in Levels : ctx[n] # g.pb[i]
      BY <1>1, <1>4 DEF Book, PbuffersLive, PbuffersBeside, Paged
    <3>2. QED
      BY <1>1, <1>4, <3>1, Numbers DEF World
  <2>3. y = [z EXCEPT !.pb = [z.pb EXCEPT ![i] = None]]
    BY <1>4, <2>1 DEF PbufferDestroy, World
  <2> HIDE DEF y, z, C
  <2>4. /\ y.os = z.os /\ y.live = z.live /\ y.cur = z.cur /\ y.onwin = z.onwin /\ y.win = z.win /\ y.zc = z.zc
        /\ y.ring = z.ring
    BY <2>1, <2>3 DEF World
  <2>5. /\ y.os = g.os /\ y.win = g.win /\ y.cur \in {g.cur, None, Gone} /\ (g.cur = None => y.cur = None)
        /\ y.cur \notin {None, Gone} => y.onwin = g.onwin
    BY <2>1, <2>4 DEF Without, Loses
  <2>6. CurrentKnown(y)
    BY <1>1, <2>1, <2>2, <2>4, Numbers DEF CurrentKnown, Without, Loses
  <2>7. ASSUME RingNamed(g, ctx, glide_ctx) PROVE RingNamed(y, ctx, glide_ctx)
    <3>1. y.zc = g.zc
      BY <2>1, <2>4 DEF Loses
    <3>2. ASSUME y.zc, NEW s \in Slots PROVE y.ring[s].owner \in {None, ctx[0], glide_ctx}
      <4>1. g.ring[s].owner \in {None, ctx[0], glide_ctx}
        BY <2>7, <3>1, <3>2 DEF RingNamed
      <4>2. g.ring[s].owner \notin C \ {None}
        BY <2>2, <4>1
      <4>3. y.ring[s].owner = g.ring[s].owner
        BY <2>1, <2>2, <2>4, <4>2 DEF LosesRing
      <4>4. QED
        BY <4>1, <4>3
    <3>3. QED
      BY <2>5, <2>7, <3>1, <3>2 DEF RingNamed
  <2>8. QED
    BY <1>2, <1>4, <2>5, <2>6, <2>7, PbufferScreen
<1>5. QED
  BY <1>3, <1>4

LEMMA MakePbufferCurrentScreen ==
  ASSUME BookInv, Screen, History, BookInv', NEW i \in Pbuffers, MakePbufferCurrent(i) PROVE Screen'
<1> DEFINE y == PbufferCurrent(g, i)
           r == [Bundle EXCEPT !.g = y]
<1>1. /\ Kept(Bundle, glide_ctx, pbuffers)
      /\ Bundle.g = g /\ Bundle.ctx = ctx /\ Bundle.ready = win_ready /\ Bundle.size = win_size /\ Bundle.frame = NoFrame
      /\ CurrentKnown(g) /\ SizeKept(Bundle) /\ Readied(Bundle) /\ NoFrame.home /\ Whole(NoFrame)
      /\ ~shared => /\ RingNamed(g, ctx, glide_ctx)
                    /\ glide_ctx # None => g.os # "macos"
                    /\ g.os = "macos" => Framed(g, ctx, win_size)
  BY ScreenNow
<1>2. /\ Becomes(r) /\ win_ready /\ glide_ctx' = glide_ctx /\ glide_open' = glide_open /\ fx_active' = fx_active
  BY <1>1 DEF MakePbufferCurrent, glide
<1>3. World(g) /\ Book(g, ctx, glide_ctx)
  BY DEF BookInv, Book, Tables
<1>4. /\ y.os = g.os /\ y.live = g.live /\ y.win = g.win /\ y.zc = g.zc /\ y.ring = g.ring
      /\ y = g \/ (g.os # "macos" /\ y.cur = g.pb[i])
  BY <1>3 DEF PbufferCurrent, World
<1>5. /\ r.g = y /\ r.ctx = ctx /\ r.ready = win_ready /\ r.size = win_size
      /\ r.readback = Bundle.readback /\ r.frame = NoFrame
  BY <1>1 DEF Kept, Parts, IsBundle
<1> HIDE DEF y, r
<1>6. CASE y = g
  <2>1. Still(Bundle, r, glide_ctx)
    BY <1>1, <1>5, <1>6 DEF Still, Follows, Goes, FramesGo, SizeKept
  <2>2. QED
    BY <1>2, <2>1, ScreenStill
<1>7. CASE y # g
  <2>1. g.os # "macos" /\ y.cur = g.pb[i]
    BY <1>4, <1>7
  <2>2. g.pb[i] # None => g.pb[i] \in g.live /\ g.pb[i] # glide_ctx /\ \A n \in Levels : ctx[n] # g.pb[i]
    BY <1>3, <2>1 DEF Book, PbuffersLive, PbuffersBeside, Paged
  <2>3. CurrentKnown(y)
    <3>1. y.cur \in g.live \cup {None}
      BY <2>1, <2>2
    <3>2. Gone \notin g.live \cup {None}
      BY <1>3, Numbers DEF World
    <3>3. QED
      BY <1>4, <3>1, <3>2 DEF CurrentKnown
  <2>4. DrawsOn(r, glide_ctx')
    BY <1>2, <1>5, <2>1, <2>2 DEF DrawsOn
  <2>5. SizeKept(r) /\ Readied(r)
    BY <1>1, <1>4, <1>5 DEF SizeKept, Readied
  <2>6. ~shared' => RingNamed(r.g, r.ctx, glide_ctx')
    BY <1>1, <1>2, <1>4, <1>5 DEF RingNamed, History
  <2>7. glide_open' => glide_ctx' # None
    BY <1>2 DEF Screen, WindowInv, GlideAlone
  <2>8. r.g.os = g.os /\ r.g.os # "macos" /\ CurrentKnown(r.g) /\ r.frame.home /\ Whole(r.frame) /\ r.ready
    BY <1>1, <1>2, <1>4, <1>5, <2>1, <2>3
  <2>9. WindowInv' /\ RingInv' /\ PictureInv'
    BY <1>2, <2>4, <2>5, <2>6, <2>7, <2>8, ScreenAfter DEF Screen
  <2>10. QED
    BY <2>9 DEF Screen
<1>8. QED
  BY <1>6, <1>7

LEMMA GlideOpenScreen ==
  ASSUME BookInv, Screen, History, BookInv', NEW made \in Outcomes, GlideOpen(made) PROVE Screen'
<1> DEFINE b == Begun(TRUE, made)
           d == Resized(Bundle, glide_res, TRUE)
           x == d.g
           c == IF glide_ctx # None THEN glide_ctx ELSE IF made THEN Fresh(x) ELSE None
           n == IF glide_ctx = None /\ made THEN CtxCreate(x, None) ELSE x
           y == b.w.g
           opens == b.ctx # None /\ (g.os # "macos" \/ b.w.g.cur_dfbo = b.ctx)
<1>1. glide_res # 0 /\ Becomes(b.w) /\ glide_ctx' = b.ctx /\ glide_open' = opens
  BY DEF GlideOpen
<1>2. /\ Kept(Bundle, glide_ctx, pbuffers) /\ OtherTypes
      /\ Bundle.g = g /\ Bundle.ctx = ctx /\ Bundle.ready = win_ready /\ Bundle.size = win_size /\ Bundle.frame = NoFrame
      /\ CurrentKnown(g) /\ SizeKept(Bundle) /\ NoFrame.home /\ Whole(NoFrame)
      /\ ~shared => /\ RingNamed(g, ctx, glide_ctx)
                    /\ g.os = "macos" => Framed(g, ctx, win_size)
  BY ScreenNow
<1>3. glide_res \in Sizes /\ made \in BOOLEAN
  BY <1>1, <1>2 DEF OtherTypes, Outcomes
<1>4. /\ Follows(Bundle, d, glide_ctx) /\ d.ctx = ctx /\ d.g.cur = g.cur
      /\ g.os = "macos" => d.size = glide_res
  <2>1. Kept(Bundle, glide_ctx, pbuffers) /\ CurrentKnown(Bundle.g)
    BY <1>2
  <2>2. /\ Follows(Bundle, d, glide_ctx) /\ d.ctx = Bundle.ctx /\ d.g.cur = Bundle.g.cur
        /\ Bundle.g.os = "macos" => d.size = glide_res
    BY <1>3, <2>1, ResizedFollows
  <2> HIDE DEF d
  <2>3. QED
    BY <1>2, <2>2
<1>5. Kept(d, glide_ctx, pbuffers)
  BY <1>2, <1>3, ResizedKept
<1>6. /\ IsBundle(b.w) /\ b.w.ctx = ctx /\ b.w.ready = TRUE /\ b.w.size = d.size /\ b.w.readback = d.readback
      /\ b.w.frame = NoFrame /\ b.ctx = c
      /\ b.w.g = IF c = None THEN x ELSE MakeCurrent(n, c, d.size)
  BY <1>3, BegunIs
<1>7. glide_open' => b.ctx # None
  BY <1>1
<1> HIDE DEF b, d, opens
<1>8. /\ World(x) /\ IsFiniteSet(x.live) /\ Book(x, ctx, glide_ctx) /\ d.size \in Sizes \cup {0}
      /\ CurrentKnown(x) /\ x.os = g.os /\ SizeKept(d)
  BY <1>2, <1>4, <1>5 DEF Kept, Parts, Book, Tables, Follows
<1>9. /\ World(n) /\ c \in Handles /\ (c # None => c \in n.live)
      /\ CurrentKnown(n) /\ n.os = x.os /\ n.zc = x.zc /\ n.ring = x.ring /\ n.win = x.win
  <2>1. CASE glide_ctx = None /\ made
    <3> DEFINE z == CtxCreate(x, None)
               k == Fresh(x)
    <3>1. World(z) /\ k \in Contexts \ x.live /\ z.live = x.live \cup {k}
      BY <1>8, CreateEffect
    <3>2. z.os = x.os /\ z.cur = x.cur /\ z.zc = x.zc /\ z.ring = x.ring /\ z.win = x.win
      BY <1>8, CreateKeeps
    <3>3. n = z /\ c = k
      BY <2>1
    <3> HIDE DEF z, k, n, c
    <3>4. CurrentKnown(z)
      BY <1>8, <3>1, <3>2 DEF CurrentKnown
    <3>5. QED
      BY <3>1, <3>2, <3>3, <3>4 DEF Handles
  <2>2. CASE ~(glide_ctx = None /\ made)
    <3>1. n = x /\ c = glide_ctx
      BY <2>2
    <3>2. glide_ctx \in Handles /\ (glide_ctx # None => glide_ctx \in x.live)
      BY <1>8 DEF Book, Tables, GlideLive
    <3>3. QED
      BY <1>8, <3>1, <3>2
  <2>3. QED
    BY <2>1, <2>2
<1>10. c = None => n = x /\ glide_ctx = None
  <2>1. Fresh(x) # None
    BY <1>8, FreshIsNew, Numbers
  <2>2. QED
    BY <2>1
<1>11. glide_ctx \in {None, c}
  OBVIOUS
<1> HIDE DEF c, n
<1>12. /\ y.os = x.os /\ CurrentKnown(y) /\ y.zc = x.zc /\ y.ring = x.ring /\ (x.os # "macos" => y.win = x.win)
       /\ c # None /\ x.os # "macos" /\ x.win # 0 => y.onwin
  <2>1. CASE c = None
    BY <1>6, <1>8, <2>1
  <2>2. CASE c # None
    <3> DEFINE m == MakeCurrent(n, c, d.size)
    <3>1. /\ m.os = n.os /\ CurrentKnown(m) /\ m.zc = n.zc /\ m.ring = n.ring /\ (n.os # "macos" => m.win = n.win)
      BY <1>8, <1>9, EnteredKnown
    <3>2. n.os # "macos" /\ n.win # 0 => m.onwin
      BY <1>8, <1>9, <2>2, CurrentEffect
    <3>3. y = m
      BY <1>6, <2>2
    <3> HIDE DEF m, y
    <3>4. QED
      BY <1>9, <3>1, <3>2, <3>3
  <2>3. QED
    BY <2>1, <2>2
<1> DEFINE r == b.w
<1>13. /\ Becomes(r) /\ r.g = y /\ r.ctx = ctx /\ r.ready = TRUE /\ r.size = d.size /\ r.readback = d.readback
       /\ r.frame = NoFrame /\ glide_ctx' = c
  BY <1>1, <1>6
<1>14. y = x \/ c # None
  BY <1>6
<1> HIDE DEF r, y
<1>15. SizeKept(r)
  BY <1>8, <1>12, <1>13 DEF SizeKept
<1>16. Readied(r)
  BY <1>1, <1>4, <1>8, <1>12, <1>13 DEF Readied
<1>17. ~shared' => RingNamed(r.g, r.ctx, glide_ctx')
  <2>1. RingNamed(g, ctx, glide_ctx) => RingNamed(x, ctx, glide_ctx)
    BY <1>2, <1>4 DEF Follows
  <2>2. RingNamed(x, ctx, glide_ctx) => RingNamed(y, ctx, c)
    BY <1>11, <1>12 DEF RingNamed
  <2>3. QED
    BY <1>2, <1>13, <2>1, <2>2 DEF History
<1>18. (Goes(Bundle, r) /\ glide_ctx' = glide_ctx) \/ DrawsOn(r, glide_ctx')
  <2>1. CASE c = None
    BY <1>4, <1>10, <1>13, <1>14, <2>1 DEF Follows, Goes
  <2>2. CASE c # None
    <3>1. r.g.os # "macos" /\ r.size # 0 => x.os # "macos" /\ x.win # 0
      BY <1>8, <1>12, <1>13 DEF SizeKept
    <3>2. QED
      BY <1>12, <1>13, <2>2, <3>1 DEF DrawsOn
  <2>3. QED
    BY <2>1, <2>2
<1>19. ASSUME ~shared', r.g.os = "macos" PROVE Framed(r.g, r.ctx, r.size)
  <2>1. ~shared /\ c = None /\ g.os = "macos"
    BY <1>8, <1>12, <1>13, <1>19 DEF History
  <2>2. glide_ctx = None /\ y = x
    BY <1>10, <1>14, <2>1
  <2>3. Framed(x, ctx, d.size)
    BY <1>2, <1>4, <2>1, <2>2 DEF Follows, FramesGo
  <2>4. QED
    BY <1>13, <2>2, <2>3
<1>20. r.g.os = g.os /\ CurrentKnown(r.g) /\ (glide_open' => glide_ctx' # None)
  BY <1>1, <1>7, <1>8, <1>12, <1>13
<1>21. WindowInv' /\ RingInv' /\ PictureInv'
  BY <1>2, <1>13, <1>15, <1>16, <1>17, <1>18, <1>19, <1>20, ScreenAfter DEF Screen
<1>22. QED
  BY <1>21 DEF Screen

LEMMA GlideSwapScreen ==
  ASSUME BookInv, Screen, History, BookInv', NEW taken, GlideSwap(taken) PROVE Screen'
<1> DEFINE r == Published(Bundle, taken)
<1>1. /\ glide_open /\ g.cur = glide_ctx /\ Becomes(r) /\ glide_ctx' = glide_ctx /\ glide_open' = glide_open
      /\ fx_active' = fx_active
  BY DEF GlideSwap, glide
<1>2. /\ Kept(Bundle, glide_ctx, pbuffers) /\ CurrentKnown(Bundle.g)
      /\ Bundle.g = g /\ Bundle.ctx = ctx /\ Bundle.ready = win_ready /\ Bundle.size = win_size
      /\ Readied(Bundle) /\ (g.cur # None => win_ready)
  BY ScreenNow
<1>3. g.cur # None /\ g.cur \in {ctx[0], glide_ctx}
  BY <1>1 DEF Screen, WindowInv, GlideAlone
<1>4. Follows(Bundle, r, glide_ctx) /\ r.ready = win_ready /\ r.size = win_size /\ r.g.cur = g.cur
  <2>1. Bundle.g.cur \in {Bundle.ctx[0], glide_ctx}
    BY <1>2, <1>3
  <2>2. Follows(Bundle, r, glide_ctx) /\ r.ready = Bundle.ready /\ r.size = Bundle.size /\ r.g.cur = Bundle.g.cur
    BY <1>2, <2>1, PublishedFollows
  <2> HIDE DEF r
  <2>3. QED
    BY <1>2, <2>2
<1>5. g'.cur = g.cur
  BY <1>1, <1>4 DEF Becomes
<1>6. (~shared' => r.frame.home) /\ (~shared' /\ ~bare' => Whole(r.frame))
  BY <1>3, <1>5, PublishedScreen
<1> HIDE DEF r
<1>7. Readied(r)
  BY <1>2, <1>4 DEF Readied, Follows
<1>8. win_ready
  BY <1>2, <1>3
<1>9. QED
  BY <1>1, <1>4, <1>6, <1>7, <1>8, ScreenFollows

(* Nothing of the drawable changes. *)
LEMMA StayingScreen ==
  ASSUME BookInv, Screen, History, BookInv',
         \/ \E size \in Sizes : GlidePrepare(size) \/ SetMode(size)
         \/ GlideRefused \/ \E on \in BOOLEAN : GlideControl(on)
  PROVE  Screen'
<1>1. /\ Becomes(Bundle) /\ glide_ctx' = glide_ctx /\ glide_open' = glide_open
      /\ fx_active' = fx_active \/ glide_open
  BY DEF GlidePrepare, SetMode, GlideRefused, GlideControl, glide
<1>2. Bundle.g = g /\ CurrentKnown(Bundle.g)
  BY ScreenNow
<1>3. Still(Bundle, Bundle, glide_ctx)
  BY <1>2, StillSelf
<1>4. ~shared' /\ fx_active' => fx_active \/ win_ready
  BY <1>1 DEF History, Screen, WindowInv, GlideAlone
<1>5. QED
  BY <1>1, <1>3, <1>4, ScreenStill

LEMMA GlideReleaseScreen == ASSUME BookInv, Screen, History, BookInv', GlideRelease PROVE Screen'
<1> DEFINE u == Unbound(Bundle)
           d == CtxDestroy(u.g, {glide_ctx}, ctx[0])
           a == [Bundle EXCEPT !.g = d]
           z == [Bundle EXCEPT !.g = DrawableRelease(d), !.size = 0, !.ready = FALSE]
<1>1. /\ Kept(Bundle, glide_ctx, pbuffers) /\ CurrentKnown(Bundle.g) /\ SizeKept(Bundle) /\ Readied(Bundle)
      /\ Bundle.g = g /\ Bundle.ctx = ctx /\ Bundle.ready = win_ready /\ Bundle.size = win_size /\ Bundle.frame = NoFrame
      /\ NoFrame.home /\ Whole(NoFrame)
      /\ g.cur # None => win_ready
      /\ ~shared => /\ RingNamed(g, ctx, glide_ctx)
                    /\ glide_ctx # None => ctx[0] = None /\ g.os # "macos"
                    /\ g.os = "macos" => Framed(g, ctx, win_size)
  BY ScreenNow
<1>2. /\ IsBundle(u) /\ u.g = Unbind(g)
      /\ Kept(u, glide_ctx, pbuffers) /\ Still(Bundle, u, glide_ctx) /\ u.g.cur = None
  BY <1>1, UnboundKept, UnboundStill, UnboundIs DEF Kept, Parts
<1>3. /\ Becomes(IF glide_ctx = None THEN Bundle ELSE IF ctx[0] # None THEN a ELSE z)
      /\ glide_ctx' = None /\ glide_open' = FALSE /\ fx_active' = FALSE
  BY <1>2 DEF GlideRelease
<1>4. CASE glide_ctx = None
  <2>1. glide_open' = glide_open
    <3>1. glide_open \in BOOLEAN
      BY ScreenNow DEF OtherTypes
    <3>2. ~glide_open
      BY <1>4 DEF Screen, WindowInv, GlideAlone
    <3>3. QED
      BY <1>3, <3>1, <3>2
  <2>2. Becomes(Bundle) /\ glide_ctx' = glide_ctx /\ Still(Bundle, Bundle, glide_ctx)
    BY <1>1, <1>3, <1>4, StillSelf
  <2>3. QED
    BY <1>3, <2>1, <2>2, ScreenStill
<1>5. CASE glide_ctx # None
  <2> HIDE DEF u
  <2>1. World(u.g) /\ CurrentKnown(u.g) /\ u.g.os = g.os /\ SizeKept(u) /\ u.size = win_size
        /\ (RingNamed(g, ctx, glide_ctx) => RingNamed(u.g, u.ctx, glide_ctx)) /\ u.ctx = ctx
    <3>1. u.ctx = ctx
      BY <1>1, UnboundIs DEF u, Kept, Parts
    <3>2. QED
      BY <1>1, <1>2, <3>1 DEF Kept, Book, Tables, Still, Follows
  <2>2. Without(u.g, d, {glide_ctx} \ {None}) /\ Loses(u.g, d, {glide_ctx}) /\ LosesRing(u.g, d, {glide_ctx}, ctx[0])
    BY <2>1, DestroyEffect
  <2>3. World(d)
    BY <2>1, DestroyType
  <2> HIDE DEF d
  <2>4. d.os = g.os /\ d.win = u.g.win /\ d.zc = u.g.zc /\ d.cur = None
    BY <1>2, <2>1, <2>2 DEF Without, Loses
  <2>5. /\ IsBundle(a) /\ a.g = d /\ a.ctx = ctx /\ a.ready = win_ready /\ a.size = win_size
        /\ a.readback = Bundle.readback /\ a.frame = NoFrame
    BY <1>1 DEF Kept, Parts, IsBundle
  <2>6. /\ z.g = DrawableRelease(d) /\ z.ctx = ctx /\ z.ready = FALSE /\ z.size = 0
        /\ z.readback = Bundle.readback /\ z.frame = NoFrame
    BY <1>1 DEF Kept, Parts, IsBundle
  <2>7. SizeKept(a) /\ Readied(a) /\ a.g.cur = None /\ a.g.os = g.os
    <3>1. SizeKept(a)
      BY <1>1, <1>2, <2>1, <2>4, <2>5 DEF SizeKept, Still
    <3>2. Readied(a)
      BY <1>1, <2>4, <2>5 DEF Readied
    <3>3. QED
      BY <2>4, <2>5, <3>1, <3>2
  <2>8. /\ z.g.cur = None /\ z.g.os = g.os /\ SizeKept(z) /\ Readied(z)
    <3>1. KeepsBooks(d, z.g) /\ z.g.cur = None /\ (d.os # "macos" => z.g.win = 0)
      BY <2>3, <2>4, <2>6, ReleaseBooks, ReleaseEffect
    <3>2. z.g.os = g.os
      BY <2>4, <3>1 DEF KeepsBooks
    <3>3. SizeKept(z) /\ Readied(z)
      BY <2>4, <2>6, <3>1, <3>2 DEF SizeKept, Readied
    <3>4. QED
      BY <3>1, <3>2, <3>3
  <2>9. ASSUME ~shared' PROVE Becomes(z) /\ g.os # "macos" /\ RingNamed(z.g, z.ctx, None)
    <3>1. ~shared /\ ctx[0] = None /\ g.os # "macos"
      BY <1>1, <1>5, <2>9 DEF History
    <3>2. Becomes(z)
      BY <1>3, <1>5, <3>1
    <3>3. RingNamed(u.g, ctx, glide_ctx)
      BY <1>1, <2>1, <3>1
    <3>4. /\ z.g.zc = d.zc
          /\ d.os = "linux" => \A i \in Slots : z.g.ring[i] = NoSlot
      BY <2>3, <2>6, ReleaseEffect
    <3>5. g.os \in {"linux", "windows"} /\ NoSlot.owner = None
      BY <2>3, <2>4, <3>1, PlatformAssumption DEF World, NoSlot
    <3>6. RingNamed(z.g, z.ctx, None)
      BY <2>1, <2>4, <2>8, <3>3, <3>4, <3>5 DEF RingNamed
    <3>7. QED
      BY <3>1, <3>2, <3>6
  <2> HIDE DEF a, z
  <2>10. PICK r \in {a, z} : Becomes(r)
    BY <1>3, <1>5
  <2>11. /\ r.g.os = g.os /\ r.g.cur = None /\ r.ctx = ctx /\ r.frame = NoFrame /\ SizeKept(r) /\ Readied(r)
    BY <2>5, <2>6, <2>7, <2>8, <2>10
  <2>12. CurrentKnown(r.g) /\ DrawsOn(r, glide_ctx')
    BY <2>11, Numbers DEF CurrentKnown, DrawsOn
  <2>13. ~shared' => RingNamed(r.g, r.ctx, glide_ctx') /\ r.g.os # "macos"
    <3>1. ASSUME ~shared' PROVE r.g = z.g /\ r.ctx = z.ctx
      BY <2>9, <2>10, <3>1 DEF Becomes
    <3>2. QED
      BY <1>3, <2>9, <2>11, <3>1
  <2>14. WindowInv' /\ RingInv' /\ PictureInv'
    BY <1>1, <1>3, <2>10, <2>11, <2>12, <2>13, ScreenAfter DEF Screen
  <2>15. QED
    BY <2>14 DEF Screen
<1>6. QED
  BY <1>4, <1>5

LEMMA ScreenInit == Init => Screen
<1> SUFFICES ASSUME Init PROVE Screen
  OBVIOUS
<1>1. PICK os \in Platforms : g = Ready(os)
  BY DEF Init
<1>2. /\ g.cur = None /\ g.live = {} /\ g.os = os /\ g.win = 0
      /\ g.ring = [i \in Slots |-> NoSlot] /\ g.dfbo = [i \in Levels |-> NoFbo]
  BY <1>1 DEF Ready
<1>3. /\ ctx[0] = None /\ glide_ctx = None /\ glide_open = FALSE /\ win_ready = FALSE /\ win_size = 0 /\ readback = 0
      /\ fx_active = FALSE /\ frame = NoFrame
  BY Numbers DEF Init, NoLevels
<1>4. WindowInv
  BY <1>2, <1>3, Numbers DEF WindowInv, CurrentShown, CurrentKnown, GlideAlone, DesktopComesBack
<1>5. RingInv
  <2>1. os = "windows" => ~g.zc
    <3>1. g.zc = (os # "windows")
      BY <1>1 DEF Ready
    <3>2. QED
      BY <3>1, Zenon
  <2>2. RingNamed(g, ctx, glide_ctx)
    <3>1. \A i \in Slots : g.ring[i].owner = None
      BY <1>2 DEF NoSlot
    <3>2. QED
      BY <1>2, <2>1, <3>1 DEF RingNamed
  <2>3. RingStaysHome
    BY <1>3 DEF RingStaysHome, NoFrame
  <2>4. QED
    BY <2>2, <2>3 DEF RingInv
<1>6. Framed(g, ctx, win_size)
  BY <1>2, <1>3 DEF Framed, FbosApart, FboCurrent, NoFbo
<1>7. PictureInv
  BY <1>2, <1>3, <1>6 DEF PictureInv, Sized, Drawing, FrameIsWhole, NoFrame
<1>8. QED
  BY <1>4, <1>5, <1>7 DEF Screen

LEMMA ScreenNext == BookInv /\ Screen /\ [Next]_vars => Screen'
<1>1. ASSUME BookInv, Screen, Next PROVE Screen'
  <2>1. History
    BY <1>1, BooksNow, Calls
  <2>2. BookInv'
    BY <1>1, BookNext
  <2>3. \A set \in BOOLEAN : PixelFormat(set) => Screen'
    BY <1>1, <2>1, <2>2, PixelFormatScreen
  <2>4. \A ok \in Outcomes : CreateContext(ok) \/ (\E list \in Lists : CreateMain(list, ok)) \/ CreateLevel(ok) => Screen'
    BY <1>1, <2>1, <2>2, CreateContextScreen, CreateMainScreen, CreateLevelScreen
  <2>5. \A n \in Levels, ok \in Outcomes : MakeLevelCurrent(n, ok) => Screen'
    BY <1>1, <2>1, <2>2, MakeLevelCurrentScreen
  <2>6. \A taken \in BOOLEAN, ok \in Outcomes : SwapBuffers(taken, ok) => Screen'
    BY <1>1, <2>1, <2>2, SwapBuffersScreen
  <2>7. \A taken \in BOOLEAN : FlushFront(taken) \/ GlideSwap(taken) => Screen'
    BY <1>1, <2>1, <2>2, FlushFrontScreen, GlideSwapScreen
  <2>8. \A n \in Levels : DeleteContext(n) => Screen'
    BY <1>1, <2>1, <2>2, DeleteContextScreen
  <2>9. WndRelease \/ (\E how \in Answers(g) : CreatePbuffer(how)) \/ GlideRelease => Screen'
    BY <1>1, <2>1, <2>2, WndReleaseScreen, CreatePbufferScreen, GlideReleaseScreen
  <2>10. \A i \in Pbuffers : DestroyPbuffer(i) \/ MakePbufferCurrent(i) => Screen'
    BY <1>1, <2>1, <2>2, DestroyPbufferScreen, MakePbufferCurrentScreen
  <2>11. \A made \in Outcomes : GlideOpen(made) => Screen'
    BY <1>1, <2>1, <2>2, GlideOpenScreen
  <2>12. (\/ \E size \in Sizes : GlidePrepare(size) \/ SetMode(size)
          \/ GlideRefused \/ \E on \in BOOLEAN : GlideControl(on)) => Screen'
    BY <1>1, <2>1, <2>2, StayingScreen
  <2>13. QED
    BY <1>1, <2>3, <2>4, <2>5, <2>6, <2>7, <2>8, <2>9, <2>10, <2>11, <2>12, BooksNow, Calls
<1>2. ASSUME Screen, UNCHANGED vars PROVE Screen'
  BY <1>2 DEF vars, mesa, glide, Screen, WindowInv, CurrentShown, GlideAlone, DesktopComesBack, RingInv, RingStaysHome,
     PictureInv, FrameIsWhole
<1>3. QED
  BY <1>1, <1>2

LEMMA ScreenKept == Spec => []Screen
BY BooksKept, ScreenInit, ScreenNext, PTL DEF Spec

(* The frontend shows 3D only while there is a drawable: after the last     *)
(* call of OpenGL's window, or of Glide's, the guest's desktop is back.     *)
THEOREM DesktopReturns == Spec => []DesktopComesBack
<1>1. Screen => DesktopComesBack
  BY DEF Screen, WindowInv
<1>2. QED
  BY <1>1, ScreenKept, PTL

(* A frame that goes by the ring is drawn by a name of the context that     *)
(* draws it: each destruction of a context that named buffers of the ring   *)
(* leaves none of those names in it.                                        *)
THEOREM RingIsHome == Spec => []RingStaysHome
<1>1. Screen => RingStaysHome
  BY DEF Screen, RingInv
<1>2. QED
  BY <1>1, ScreenKept, PTL

(* A frame is a whole picture, of the size of the drawable and of what it   *)
(* is copied to.  On macOS this rests on the framebuffers of the contexts:  *)
(* each of one context, all with the drawable's renderbuffers.              *)
THEOREM FramesAreWhole == Spec => []FrameIsWhole
<1>1. Screen => FrameIsWhole
  BY DEF Screen, PictureInv
<1>2. QED
  BY <1>1, ScreenKept, PTL
=============================================================================
