-------------------------- MODULE DrawStreamProofs ---------------------------
(***************************************************************************)
(* InstructionsOnce of DrawStream: what an execute buffer has drawn is     *)
(* what its instructions up to the place reached ask for, each once, in    *)
(* order, for every buffer, every length of a request and every program.   *)
(*                                                                         *)
(* The driver walks a request with one fold, the executor runs what the    *)
(* walk let through with another, and the property reads the buffer with   *)
(* a third.  So the first part says of any fold: what it makes of a list   *)
(* and one more is its step, applied to what it makes of the list.         *)
(*                                                                         *)
(* The second part follows one instruction through all three: the walk     *)
(* passes it on, consumes it or gives it back (WalksOn), the executor      *)
(* draws it or leaves the drawings alone (RunDoes), and the buffer's       *)
(* reading of it is the same (InstructionDoes).  Meets compares the three  *)
(* after n instructions; WalkMeets is the induction on n, for a request    *)
(* that begins anywhere in the buffer.                                     *)
(*                                                                         *)
(* The third part is the state machine.  ExecInv: the place reached lies   *)
(* in the buffer, what was drawn before it is Once, and while a request is *)
(* under way its answer is what the instructions from there to the place   *)
(* where it stopped draw (UnderWay).                                       *)
(***************************************************************************)
EXTENDS DrawStream, WellFoundedInduction, SequenceTheorems, TLAPS

-----------------------------------------------------------------------------
(* Folds *)

(* What holds of 0, and of n + 1 when it holds of n, holds of every number. *)
LEMMA EveryNumber ==
  ASSUME NEW S, 0 \in S, \A n \in Nat : n \in S => n + 1 \in S
  PROVE  \A n \in Nat : n \in S
<1> DEFINE Out == Nat \ S
<1> SUFFICES ASSUME Out # {} PROVE FALSE
  OBVIOUS
<1>1. PICK n \in Out : \A m \in Out : ~(<<m, n>> \in OpToRel(<, Nat))
  BY WFMin, NatLessThanWellFounded, Zenon
<1>2. \A m \in Out : ~(m < n)
  BY <1>1, Zenon DEF OpToRel
<1>3. n # 0 /\ n \in Nat
  OBVIOUS
<1>4. n - 1 \in Nat /\ n - 1 < n /\ (n - 1) + 1 = n
  BY <1>3
<1>5. n - 1 \notin Out
  BY <1>2, <1>4
<1> QED
  BY <1>4, <1>5

(* The last of some places up to n. *)
LEMMA LastOfSome ==
  ASSUME NEW n \in Nat, NEW S \in SUBSET (1..n), S # {}
  PROVE  Max(S) \in S /\ \A i \in S : i <= Max(S)
<1> DEFINE T == {n - i : i \in S}
<1>0. \A i \in S : i \in Nat /\ n - i \in Nat
  OBVIOUS
<1>1. T \subseteq Nat /\ T # {}
  BY <1>0, Zenon
<1>2. PICK x \in T : \A y \in T : ~(<<y, x>> \in OpToRel(<, Nat))
  BY <1>1, WFMin, NatLessThanWellFounded, Zenon
<1>3. \A y \in T : ~(y < x)
  BY <1>1, <1>2, Zenon DEF OpToRel
<1>4. PICK m \in S : x = n - m
  OBVIOUS
<1>5. ASSUME NEW i \in S PROVE m >= i
  <2>1. n - i \in T
    OBVIOUS
  <2>2. ~(n - i < x) /\ i \in Int /\ m \in Int
    BY <1>3, <2>1
  <2> QED
    BY <2>2, <1>4
<1>6. \E k \in S : \A i \in S : k >= i
  BY <1>5, Zenon
<1>7. Max(S) \in S /\ \A i \in S : Max(S) >= i
  BY <1>6, Zenon DEF Max
<1>8. \A i \in S : i \in Int
  OBVIOUS
<1> QED
  BY <1>7, <1>8

LEMMA LastIs ==
  ASSUME NEW n \in Nat, NEW S \in SUBSET (1..n + 1), n + 1 \in S
  PROVE  Max(S) = n + 1
<1>1. n + 1 \in Nat /\ S # {}
  OBVIOUS
<1>2. Max(S) \in S /\ n + 1 <= Max(S)
  BY <1>1, LastOfSome, Zenon
<1>3. \A i \in S : i \in Int /\ i <= n + 1
  OBVIOUS
<1>4. Max(S) \in Int /\ Max(S) <= n + 1
  BY <1>2, <1>3, Zenon
<1> QED
  BY <1>2, <1>4

Listed(q) == Len(q) \in Nat /\ q = [i \in 1..Len(q) |-> q[i]]

LEMMA SeqAppend ==
  ASSUME NEW q, Listed(q), NEW r
  PROVE  /\ Listed(Append(q, r)) /\ Len(Append(q, r)) = Len(q) + 1
         /\ DOMAIN q = 1..Len(q) /\ DOMAIN Append(q, r) = 1..Len(q) + 1
         /\ Append(q, r)[Len(q) + 1] = r /\ \A i \in 1..Len(q) : Append(q, r)[i] = q[i]
         /\ Append(q, r) # <<>>
<1> DEFINE S == {q[i] : i \in 1..Len(q)} \cup {r}
<1>1. q \in Seq(S) /\ r \in S
  BY DEF Listed
<1> HIDE DEF S
<1>2. /\ Append(q, r) \in Seq(S) /\ Len(Append(q, r)) = Len(q) + 1
      /\ DOMAIN q = 1..Len(q) /\ DOMAIN Append(q, r) = 1..Len(q) + 1
      /\ Append(q, r)[Len(q) + 1] = r /\ \A i \in 1..Len(q) : Append(q, r)[i] = q[i]
  BY <1>1
<1>3. Append(q, r) \in [1..Len(Append(q, r)) -> S]
  BY <1>2, LenProperties, Zenon
<1>4. Append(q, r) = [i \in 1..Len(q) + 1 |-> Append(q, r)[i]]
  BY <1>2, <1>3, Zenon
<1>5. Listed(Append(q, r))
  BY <1>2, <1>4 DEF Listed
<1> QED
  BY <1>2, <1>5 DEF Listed

LEMMA SeqEmpty == Listed(<<>>) /\ Len(<<>>) = 0
  BY DEF Listed

(* The three folds of a stream: the driver's walk, the executor's run, and what should come of   *)
(* it.                                                                                           *)
Step(k, x, t) ==
  IF k = "walk" THEN WalkStep(x, t) ELSE IF k = "run" THEN Run(x, t) ELSE Instruction(x, t)

All(k, x, q) ==
  IF k = "walk" THEN FoldLeft(WalkStep, x, q) ELSE IF k = "run" THEN FoldLeft(Run, x, q)
  ELSE FoldLeft(Instruction, x, q)

Steps(f, c, x, q, n) ==
  f = [s \in SUBSET (1..n) |-> IF s = {} THEN x ELSE Step(c, f[s \ {Max(s)}], q[Max(s)])]

LEMMA StepsExist ==
  ASSUME NEW c, NEW x, NEW q
  PROVE  \A n \in Nat : \E f : Steps(f, c, x, q, n)
<1> DEFINE S == {n \in Nat : \E f : Steps(f, c, x, q, n)}
<1>1. 0 \in S
  <2> DEFINE f == [s \in {{}} |-> x]
  <2>1. SUBSET (1..0) = {{}}
    OBVIOUS
  <2>2. Steps(f, c, x, q, 0)
    BY <2>1 DEF Steps
  <2> QED
    BY <2>2
<1>2. ASSUME NEW n \in Nat, n \in S PROVE n + 1 \in S
  <2>1. PICK f : Steps(f, c, x, q, n)
    BY <1>2
  <2> DEFINE g == [s \in SUBSET (1..n + 1) |->
                     IF n + 1 \in s THEN Step(c, f[s \ {n + 1}], q[n + 1]) ELSE f[s]]
             V(s) == IF s = {} THEN x ELSE Step(c, g[s \ {Max(s)}], q[Max(s)])
  <2>2. ASSUME NEW s \in SUBSET (1..n + 1) PROVE g[s] = V(s)
    <3>1. CASE n + 1 \in s
      <4>1. Max(s) = n + 1
        BY <3>1, LastIs
      <4>2. s \ {n + 1} \in SUBSET (1..n + 1) /\ n + 1 \notin s \ {n + 1}
        OBVIOUS
      <4>3. g[s \ {n + 1}] = f[s \ {n + 1}]
        BY <4>2
      <4> QED
        BY <3>1, <4>1, <4>3
    <3>2. CASE n + 1 \notin s
      <4>1. s \in SUBSET (1..n)
        BY <3>2
      <4>2. g[s] = f[s]
        BY <3>2
      <4>3. CASE s = {}
        BY <2>1, <4>1, <4>2, <4>3 DEF Steps
      <4>4. CASE s # {}
        <5>0. s \ {Max(s)} \subseteq s
          OBVIOUS
        <5>1. s \ {Max(s)} \in SUBSET (1..n + 1) /\ n + 1 \notin s \ {Max(s)}
          BY <3>2, <5>0, Zenon
        <5>2. g[s \ {Max(s)}] = f[s \ {Max(s)}]
          BY <5>1
        <5>3. f[s] = Step(c, f[s \ {Max(s)}], q[Max(s)])
          BY <2>1, <4>1, <4>4, Zenon DEF Steps
        <5> QED
          BY <4>2, <4>4, <5>2, <5>3, Zenon
      <4> QED
        BY <4>3, <4>4
    <3> QED
      BY <3>1, <3>2
  <2>3. g = [s \in SUBSET (1..n + 1) |-> V(s)]
    <3>1. g = [s \in SUBSET (1..n + 1) |-> g[s]]
      OBVIOUS
    <3> HIDE DEF g, V
    <3> QED
      BY <3>1, <2>2, Zenon
  <2>4. Steps(g, c, x, q, n + 1)
    BY <2>3, Zenon DEF Steps
  <2> HIDE DEF g
  <2> QED
    BY <2>4
<1> HIDE DEF S
<1>3. \A n \in Nat : n \in S
  BY <1>1, <1>2, EveryNumber
<1> QED
  BY <1>3 DEF S

(* The fold is one of those functions, over all of the sequence. *)
LEMMA AllIs ==
  ASSUME NEW c, NEW x, NEW q, Listed(q)
  PROVE  \E f : Steps(f, c, x, q, Len(q)) /\ All(c, x, q) = f[1..Len(q)]
<1>1. DOMAIN q = 1..Len(q) /\ Len(q) \in Nat
  BY DEF Listed
<1>2. \E f : Steps(f, c, x, q, Len(q))
  BY <1>1, StepsExist
<1>3. CASE c = "walk"
  <2> DEFINE Is(f) == f = [s \in SUBSET (DOMAIN q) |->
                             IF s = {} THEN x ELSE WalkStep(f[s \ {Max(s)}], q[Max(s)])]
  <2>1. All(c, x, q) = (CHOOSE f : Is(f))[DOMAIN q]
    BY <1>3 DEF All, FoldLeft, MapThenFoldSet
  <2>2. \A y, t : Step(c, y, t) = WalkStep(y, t)
    BY <1>3 DEF Step
  <2>3. \A f : Is(f) <=> Steps(f, c, x, q, Len(q))
    BY <1>1, <2>2 DEF Steps
  <2>4. \E f : Is(f)
    BY <1>2, <2>3, Zenon
  <2> HIDE DEF Is
  <2>5. Is(CHOOSE f : Is(f))
    BY <2>4
  <2> QED
    BY <1>1, <2>1, <2>3, <2>5, Zenon
<1>4. CASE c = "run"
  <2> DEFINE Is(f) == f = [s \in SUBSET (DOMAIN q) |->
                             IF s = {} THEN x ELSE Run(f[s \ {Max(s)}], q[Max(s)])]
  <2>1. All(c, x, q) = (CHOOSE f : Is(f))[DOMAIN q]
    BY <1>4 DEF All, FoldLeft, MapThenFoldSet
  <2>2. \A y, t : Step(c, y, t) = Run(y, t)
    BY <1>4 DEF Step
  <2>3. \A f : Is(f) <=> Steps(f, c, x, q, Len(q))
    BY <1>1, <2>2 DEF Steps
  <2>4. \E f : Is(f)
    BY <1>2, <2>3, Zenon
  <2> HIDE DEF Is
  <2>5. Is(CHOOSE f : Is(f))
    BY <2>4
  <2> QED
    BY <1>1, <2>1, <2>3, <2>5, Zenon
<1>5. CASE c # "walk" /\ c # "run"
  <2> DEFINE Is(f) == f = [s \in SUBSET (DOMAIN q) |->
                             IF s = {} THEN x ELSE Instruction(f[s \ {Max(s)}], q[Max(s)])]
  <2>1. All(c, x, q) = (CHOOSE f : Is(f))[DOMAIN q]
    BY <1>5 DEF All, FoldLeft, MapThenFoldSet
  <2>2. \A y, t : Step(c, y, t) = Instruction(y, t)
    BY <1>5 DEF Step
  <2>3. \A f : Is(f) <=> Steps(f, c, x, q, Len(q))
    BY <1>1, <2>2 DEF Steps
  <2>4. \E f : Is(f)
    BY <1>2, <2>3, Zenon
  <2> HIDE DEF Is
  <2>5. Is(CHOOSE f : Is(f))
    BY <2>4
  <2> QED
    BY <1>1, <2>1, <2>3, <2>5, Zenon
<1> QED
  BY <1>3, <1>4, <1>5, Zenon

(* Nothing is done with no record; with one more, the last one comes after all the others. *)
LEMMA AllNone ==
  ASSUME NEW c, NEW x
  PROVE  All(c, x, <<>>) = x
<1>1. PICK f : Steps(f, c, x, <<>>, 0) /\ All(c, x, <<>>) = f[1..0]
  BY SeqEmpty, AllIs
<1>2. 1..0 = {} /\ {} \in SUBSET (1..0)
  OBVIOUS
<1> QED
  BY <1>1, <1>2 DEF Steps

LEMMA AllMore ==
  ASSUME NEW c, NEW x, NEW q, Listed(q), NEW r
  PROVE  All(c, x, Append(q, r)) = Step(c, All(c, x, q), r)
<1> DEFINE n == Len(q)
           p == Append(q, r)
<1>1. /\ Listed(p) /\ Len(p) = n + 1 /\ n \in Nat
      /\ p[n + 1] = r /\ \A i \in 1..n : p[i] = q[i]
  BY SeqAppend DEF Listed
<1>2. PICK f : Steps(f, c, x, q, n) /\ All(c, x, q) = f[1..n]
  BY AllIs
<1>3. PICK g : Steps(g, c, x, p, n + 1) /\ All(c, x, p) = g[1..n + 1]
  BY <1>1, AllIs, Zenon
<1> HIDE DEF n, p
<1>4. ASSUME NEW k \in Nat
      PROVE  /\ (1..k + 1) \ {Max(1..k + 1)} = 1..k /\ Max(1..k + 1) = k + 1
             /\ 1..k + 1 # {}
  <2>1. Max(1..k + 1) = k + 1
    BY LastIs
  <2> QED
    BY <2>1
<1>5. ASSUME NEW k \in Nat, k <= n
      PROVE  g[1..k + 1] = Step(c, g[1..k], p[k + 1])
  <2>1. 1..k + 1 \in SUBSET (1..n + 1)
    BY <1>1, <1>5
  <2>2. \A s \in SUBSET (1..n + 1) : s # {} => g[s] = Step(c, g[s \ {Max(s)}], p[Max(s)])
    BY <1>3, Zenon DEF Steps
  <2>3. g[1..k + 1] = Step(c, g[(1..k + 1) \ {Max(1..k + 1)}], p[Max(1..k + 1)])
    BY <1>4, <2>1, <2>2, Zenon
  <2> QED
    BY <1>4, <2>3, Zenon
<1>6. ASSUME NEW k \in Nat, k + 1 <= n
      PROVE  f[1..k + 1] = Step(c, f[1..k], q[k + 1])
  <2>1. 1..k + 1 \in SUBSET (1..n)
    BY <1>1, <1>6
  <2>2. \A s \in SUBSET (1..n) : s # {} => f[s] = Step(c, f[s \ {Max(s)}], q[Max(s)])
    BY <1>2, Zenon DEF Steps
  <2>3. f[1..k + 1] = Step(c, f[(1..k + 1) \ {Max(1..k + 1)}], q[Max(1..k + 1)])
    BY <1>4, <2>1, <2>2, Zenon
  <2> QED
    BY <1>4, <2>3, Zenon
<1> DEFINE S == {k \in Nat : k <= n => f[1..k] = g[1..k]}
<1>7. 0 \in S
  <2>1. 1..0 = {} /\ {} \in SUBSET (1..n) /\ {} \in SUBSET (1..n + 1)
    OBVIOUS
  <2> QED
    BY <1>2, <1>3, <2>1 DEF Steps
<1>8. ASSUME NEW k \in Nat, k \in S PROVE k + 1 \in S
  <2> SUFFICES ASSUME k + 1 <= n PROVE f[1..k + 1] = g[1..k + 1]
    OBVIOUS
  <2>1. k <= n /\ k + 1 \in 1..n
    BY <1>1
  <2>2. q[k + 1] = p[k + 1] /\ f[1..k] = g[1..k]
    BY <1>1, <1>8, <2>1
  <2>3. g[1..k + 1] = Step(c, g[1..k], p[k + 1])
    BY <1>5, <2>1
  <2>4. f[1..k + 1] = Step(c, f[1..k], q[k + 1])
    BY <1>6
  <2> QED
    BY <2>2, <2>3, <2>4
<1> HIDE DEF S
<1>9. \A k \in Nat : k \in S
  BY <1>7, <1>8, EveryNumber
<1>10. n \in S
  BY <1>1, <1>9
<1>11. f[1..n] = g[1..n]
  BY <1>1, <1>10 DEF S
<1>12. g[1..n + 1] = Step(c, g[1..n], p[n + 1])
  BY <1>1, <1>5
<1>13. All(c, x, p) = Step(c, All(c, x, q), r)
  BY <1>1, <1>2, <1>3, <1>11, <1>12
<1> QED
  BY <1>13 DEF p


(* Of a list, so much as was walked. *)
LEMMA StartsOf ==
  ASSUME NEW q, Listed(q), NEW n \in Nat, n <= Len(q)
  PROVE  /\ Listed(SubSeq(q, 1, n)) /\ SubSeq(q, 1, 0) = <<>> /\ SubSeq(q, 1, Len(q)) = q
         /\ n < Len(q) => SubSeq(q, 1, n + 1) = Append(SubSeq(q, 1, n), q[n + 1])
<1> DEFINE S == {q[i] : i \in 1..Len(q)}
<1>1. q \in Seq(S) /\ Len(q) \in Nat /\ n \in Nat /\ n <= Len(q)
  BY DEF Listed
<1> HIDE DEF S
<1>2. SubSeq(q, 1, n) \in Seq(S) /\ Len(SubSeq(q, 1, n)) = n
  BY <1>1, SubSeqProperties
<1>3. SubSeq(q, 1, n) = [i \in 1..n |-> q[i]]
  BY <1>1
<1>4. Listed(SubSeq(q, 1, n))
  BY <1>1, <1>2, <1>3 DEF Listed
<1>5. SubSeq(q, 1, 0) = <<>> /\ SubSeq(q, 1, Len(q)) = q
  BY <1>1 DEF Listed
<1>6. ASSUME n < Len(q) PROVE SubSeq(q, 1, n + 1) = Append(SubSeq(q, 1, n), q[n + 1])
  <2>1. n + 1 \in 1..Len(q) /\ q[n + 1] \in S
    BY <1>1, <1>6, ElementOfSeq
  <2>2. SubSeq(q, 1, n + 1) = [i \in 1..n + 1 |-> q[i]]
    BY <1>1, <1>6
  <2>3. Append(SubSeq(q, 1, n), q[n + 1]) = [i \in 1..n + 1 |-> q[i]]
    BY <1>2, <1>3, <2>1
  <2> QED
    BY <2>2, <2>3
<1> QED
  BY <1>1, <1>4, <1>5, <1>6, Zenon

-----------------------------------------------------------------------------
(* A command of an execute buffer *)

WalkFields == {"request", "pass", "pos", "bounce", "over", "fvf", "vb_um", "vb_handle", "vb_stride",
               "ib_handle", "ib_stride", "needs_vb", "out", "records", "memory", "ck"}
Draws == {"POINTS", "INDEXEDLINELIST2"}
Runtimes(t) == t.op \notin Consumed \cup {"EXIT", "SPAN"}

Walked(w, y) == DOMAIN y = WalkFields /\ y.request = w.request

(* What the walk does with the next command. *)
WalksPast(w, t, y) ==
  /\ Walked(w, y)
  /\ t.op = "EXIT" => /\ y.over = "end" /\ y.bounce = w.bounce /\ y.out = w.out
                      /\ y.needs_vb = w.needs_vb
  /\ t.op = "SPAN" => /\ y.over = "no" /\ y.bounce = w.bounce /\ y.out = w.out
                      /\ y.needs_vb = w.needs_vb /\ y.pos = w.pos + 1
  /\ Runtimes(t) => /\ y.over = "end" /\ y.bounce = w.pos /\ y.out = w.out
                    /\ y.needs_vb = w.needs_vb
  /\ t.op \in Consumed => /\ y.over = "no" /\ y.bounce = w.bounce /\ y.pos = w.pos + 1
                          /\ y.out = Append(w.out, t)
                          /\ y.needs_vb = IF t.op \in Draws THEN TRUE ELSE w.needs_vb

LEMMA WalksOn ==
  ASSUME NEW w, DOMAIN w = WalkFields, w.request.eb = TRUE, w.over = "no", NEW t,
         NEW y, y = WalkStep(w, t)
  PROVE  WalksPast(w, t, y)
<1>1. CASE t.op = "EXIT"
  <2>1. y = [w EXCEPT !.over = "end"]
    BY <1>1 DEF WalkStep
  <2> QED
    BY <1>1, <2>1 DEF WalksPast, WalkFields, Walked, Runtimes, Consumed
<1>2. CASE t.op = "SPAN"
  <2>1. y = [w EXCEPT !.pos = @ + 1]
    BY <1>2 DEF WalkStep
  <2> QED
    BY <1>2, <2>1 DEF WalksPast, WalkFields, Walked, Runtimes, Consumed
<1>3. CASE Runtimes(t)
  <2>1. y = [w EXCEPT !.over = "end", !.bounce = w.pos]
    BY <1>3 DEF WalkStep, Runtimes
  <2> QED
    BY <1>3, <2>1 DEF WalksPast, WalkFields, Walked, Runtimes
<1>4. CASE t.op \in Consumed
  <2>1. y = [Token(w, t) EXCEPT !.pos = @ + 1]
    BY <1>4 DEF WalkStep, Consumed
  <2>2. CASE t.op \in Draws
    <3>1. Token(w, t) = [Put(w, t) EXCEPT !.needs_vb = TRUE]
      BY <2>2 DEF Token, Draws
    <3>2. y = [[[w EXCEPT !.out = Append(@, t)] EXCEPT !.needs_vb = TRUE] EXCEPT !.pos = @ + 1]
      BY <2>1, <3>1 DEF Put
    <3> QED
      BY <1>4, <2>2, <3>2 DEF WalksPast, WalkFields, Walked, Runtimes, Consumed
  <2>3. CASE t.op \notin Draws
    <3>1. Token(w, t) = Put(w, t)
      BY <1>4, <2>3 DEF Token, Draws, Consumed
    <3>2. y = [[w EXCEPT !.out = Append(@, t)] EXCEPT !.pos = @ + 1]
      BY <2>1, <3>1 DEF Put
    <3> QED
      BY <1>4, <2>3, <3>2 DEF WalksPast, WalkFields, Walked, Runtimes, Consumed
  <2> QED
    BY <2>2, <2>3
<1> QED
  BY <1>1, <1>2, <1>3, <1>4 DEF Runtimes

Dp2Fields == {"h", "d", "cur", "ctx", "type", "m", "vtx", "drawn", "failed"}

(* The executor keeps the vertices it was given, and what it has drawn. *)
Keeps(x, y) ==
  /\ DOMAIN y = Dp2Fields /\ y.type = x.type /\ y.vtx = x.vtx /\ y.failed = x.failed
  /\ y.drawn = x.drawn

LEMMA KeepsOn == ASSUME NEW x, NEW y, NEW z, Keeps(x, y), Keeps(y, z) PROVE Keeps(x, z)
  BY DEF Keeps

LEMMA KeepsHost == ASSUME NEW x, DOMAIN x = Dp2Fields, NEW v PROVE Keeps(x, [x EXCEPT !.h = v])
  BY DEF Keeps, Dp2Fields

LEMMA KeepsDevice == ASSUME NEW x, DOMAIN x = Dp2Fields, NEW v PROVE Keeps(x, [x EXCEPT !.d = v])
  BY DEF Keeps, Dp2Fields

LEMMA SetOnKeeps ==
  ASSUME NEW x, DOMAIN x = Dp2Fields, NEW field, NEW v
  PROVE  Keeps(x, SetOn(x, field, v))
<1>1. CASE ~x.h.recording.on
  <2>1. SetOn(x, field, v) = [x EXCEPT !.d = [x.d EXCEPT ![field] = v]]
    BY <1>1 DEF SetOn
  <2> QED
    BY <2>1, KeepsDevice
<1>2. CASE x.h.recording.on
  <2>1. PICK u : SetOn(x, field, v) = [x EXCEPT !.h = u]
    BY <1>2 DEF SetOn
  <2> QED
    BY <2>1, KeepsHost
<1> QED
  BY <1>1, <1>2

LEMMA ColorKeyKeeps ==
  ASSUME NEW x, DOMAIN x = Dp2Fields PROVE Keeps(x, apply_ckey(x))
<1> DEFINE t    == x.h.stage_tex
           want == x.h.ckey_rs /\ t # "none" /\ x.h.surfs[t].ckey # 0
           y    == SetOn(x, "test", want)
<1>1. CASE want = x.h.ckey_forced
  BY <1>1 DEF apply_ckey, Keeps
<1>2. CASE want # x.h.ckey_forced
  <2>1. PICK u : apply_ckey(x) = [y EXCEPT !.h = u]
    BY <1>2 DEF apply_ckey
  <2>2. Keeps(x, y)
    BY SetOnKeeps
  <2> HIDE DEF y
  <2>3. DOMAIN y = Dp2Fields
    BY <2>2 DEF Keeps
  <2> QED
    BY <2>1, <2>2, <2>3, KeepsHost, KeepsOn
<1> QED
  BY <1>1, <1>2

LEMMA BindKeeps ==
  ASSUME NEW x, DOMAIN x = Dp2Fields, NEW t PROVE Keeps(x, bind_texture(x, t))
<1> DEFINE stale == t # "none" /\ (x.h.surfs[t].tex = <<>> \/ x.h.surfs[t].dirty)
           y == IF stale THEN [x EXCEPT !.h.surfs[t].tex = Expanded(x, t), !.h.surfs[t].dirty = FALSE]
                ELSE x
           z == SetOn(y, "texture", t)
<1>1. Keeps(x, y)
  <2>1. CASE stale
    <3> DEFINE u == [x EXCEPT !.h.surfs[t].tex = Expanded(x, t)]
    <3>1. u = [x EXCEPT !.h = [x.h EXCEPT !.surfs[t].tex = Expanded(x, t)]]
      OBVIOUS
    <3>2. y = [u EXCEPT !.h.surfs[t].dirty = FALSE]
      BY <2>1
    <3> HIDE DEF u, y
    <3>3. Keeps(x, u)
      BY <3>1, KeepsHost
    <3>4. DOMAIN u = Dp2Fields
      BY <3>3 DEF Keeps
    <3>5. y = [u EXCEPT !.h = [u.h EXCEPT !.surfs[t].dirty = FALSE]]
      BY <3>2
    <3>6. Keeps(u, y)
      BY <3>4, <3>5, KeepsHost
    <3> QED
      BY <3>3, <3>6, KeepsOn
  <2>2. CASE ~stale
    BY <2>2 DEF Keeps
  <2> QED
    BY <2>1, <2>2
<1>2. bind_texture(x, t) = apply_ckey([z EXCEPT !.h.stage_tex = t])
  BY DEF bind_texture
<1> HIDE DEF y
<1>3. DOMAIN y = Dp2Fields
  BY <1>1 DEF Keeps
<1>4. Keeps(y, z)
  BY <1>3, SetOnKeeps
<1> HIDE DEF z
<1>5. DOMAIN z = Dp2Fields
  BY <1>4 DEF Keeps
<1> DEFINE u == [z EXCEPT !.h.stage_tex = t]
<1>6. Keeps(z, u)
  <2>1. u = [z EXCEPT !.h = [z.h EXCEPT !.stage_tex = t]]
    OBVIOUS
  <2> HIDE DEF u
  <2> QED
    BY <1>5, <2>1, KeepsHost
<1> HIDE DEF u
<1>7. DOMAIN u = Dp2Fields
  BY <1>6 DEF Keeps
<1>8. Keeps(u, apply_ckey(u))
  BY <1>7, ColorKeyKeeps
<1>9. bind_texture(x, t) = apply_ckey(u)
  BY <1>2 DEF u
<1> QED
  BY <1>1, <1>4, <1>6, <1>8, <1>9, KeepsOn, Zenon

LEMMA PreDrawKeeps ==
  ASSUME NEW x, DOMAIN x = Dp2Fields PROVE Keeps(x, pre_draw(x))
<1>1. pre_draw(x) = x \/ pre_draw(x) = bind_texture(x, x.h.stage_tex)
  BY DEF pre_draw
<1>2. Keeps(x, x)
  BY DEF Keeps
<1> QED
  BY <1>1, <1>2, BindKeeps

LEMMA BlendKeeps ==
  ASSUME NEW x, DOMAIN x = Dp2Fields PROVE Keeps(x, apply_mapblend(x))
  BY SetOnKeeps DEF apply_mapblend

(* The device draws: one picture more, out of the vertices it was given. *)
DrawsOne(x, y, vertices) ==
  /\ DOMAIN y = Dp2Fields /\ y.type = x.type /\ y.vtx = x.vtx /\ y.failed = x.failed
  /\ \E rec : y.drawn = Append(x.drawn, rec) /\ rec.vertices = vertices

LEMMA DeviceDrawsOne ==
  ASSUME NEW x, DOMAIN x = Dp2Fields, NEW vertices
  PROVE  DrawsOne(x, DeviceDraws(x, vertices), vertices)
<1> DEFINE y == pre_draw(x)
           t == y.d.texture
           rec == [format |-> y.d.format, vertices |-> vertices,
                   picture |-> IF t = "none" THEN <<>> ELSE y.h.surfs[t].tex,
                   keyed |-> y.d.test, blend |-> y.d.ops, value |-> y.d.value]
<1>1. DeviceDraws(x, vertices) = [y EXCEPT !.drawn = Append(@, rec)]
  BY DEF DeviceDraws
<1>2. rec.vertices = vertices
  OBVIOUS
<1>3. Keeps(x, y)
  BY PreDrawKeeps
<1> HIDE DEF y, rec
<1>4. /\ [y EXCEPT !.drawn = Append(@, rec)].drawn = Append(x.drawn, rec)
      /\ DOMAIN [y EXCEPT !.drawn = Append(@, rec)] = Dp2Fields
      /\ [y EXCEPT !.drawn = Append(@, rec)].type = x.type
      /\ [y EXCEPT !.drawn = Append(@, rec)].vtx = x.vtx
      /\ [y EXCEPT !.drawn = Append(@, rec)].failed = x.failed
  BY <1>3 DEF Keeps, Dp2Fields
<1> QED
  BY <1>1, <1>2, <1>4 DEF DrawsOne

(* The vertices that a draw uses, whether they are among those there are, and what they are. *)
Used(t) ==
  IF t.op = "POINTS" THEN [k \in 1..t.count |-> t.first + k - 1]
  ELSE [k \in DOMAIN t.idx |-> t.base + t.idx[k]]

InReach(cells, type, used) == ~\E k \in DOMAIN used : used[k] >= Len(cells) \div VertexSize[type]

Picked(cells, type, used) ==
  [k \in DOMAIN used |->
     SubSeq(cells, used[k] * VertexSize[type] + 1, (used[k] + 1) * VertexSize[type])]

LEMMA LegacyDoes ==
  ASSUME NEW x, DOMAIN x = Dp2Fields, NEW used
  PROVE  IF InReach(x.vtx, x.type, used)
         THEN DrawsOne(x, Legacy(x, used), Picked(x.vtx, x.type, used)) ELSE Legacy(x, used) = x
<1>1. CASE InReach(x.vtx, x.type, used)
  <2>1. Legacy(x, used) = DeviceDraws(x, Picked(x.vtx, x.type, used))
    BY <1>1 DEF Legacy, InReach, Picked
  <2> QED
    BY <1>1, <2>1, DeviceDrawsOne
<1>2. CASE ~InReach(x.vtx, x.type, used)
  BY <1>2 DEF Legacy, InReach
<1> QED
  BY <1>1, <1>2

LEMMA RunDoes ==
  ASSUME NEW x, DOMAIN x = Dp2Fields, x.failed = FALSE, NEW t, t.op \in Consumed
  PROVE  /\ t.op \notin Draws => Keeps(x, Run(x, t))
         /\ t.op \in Draws =>
              IF InReach(x.vtx, x.type, Used(t))
              THEN DrawsOne(x, Run(x, t), Picked(x.vtx, x.type, Used(t))) ELSE Run(x, t) = x
<1>1. CASE t.op = "POINTS"
  <2>1. Run(x, t) = Legacy(x, Used(t))
    BY <1>1 DEF Run, Used
  <2> QED
    BY <1>1, <2>1, LegacyDoes DEF Draws
<1>2. CASE t.op = "INDEXEDLINELIST2"
  <2>1. Run(x, t) = Legacy(x, Used(t))
    BY <1>2 DEF Run, Used
  <2> QED
    BY <1>2, <2>1, LegacyDoes DEF Draws
<1>3. CASE t.op = "RENDERSTATE"
  <2>1. Run(x, t) = SetOn(x, "value", t.value)
    BY <1>3 DEF Run
  <2> QED
    BY <1>3, <2>1, SetOnKeeps DEF Draws
<1>4. CASE t.op = "TEXTUREHANDLE"
  <2>1. Run(x, t) = apply_mapblend(bind_texture(x, t.texture))
    BY <1>4 DEF Run
  <2>2. Keeps(x, bind_texture(x, t.texture))
    BY BindKeeps
  <2>3. DOMAIN bind_texture(x, t.texture) = Dp2Fields
    BY <2>2 DEF Keeps
  <2> QED
    BY <1>4, <2>1, <2>2, <2>3, BlendKeeps, KeepsOn DEF Draws
<1>5. CASE t.op = "TEXTUREMAPBLEND"
  <2> DEFINE y == [x EXCEPT !.h = [x.h EXCEPT !.legacy_blend = TRUE]]
  <2>1. Run(x, t) = apply_mapblend(y)
    BY <1>5 DEF Run
  <2> HIDE DEF y
  <2>2. Keeps(x, y)
    BY KeepsHost DEF y
  <2>3. DOMAIN y = Dp2Fields
    BY <2>2 DEF Keeps
  <2> QED
    BY <1>5, <2>1, <2>2, <2>3, BlendKeeps, KeepsOn DEF Draws
<1>6. CASE t.op = "COLORKEYENABLE"
  <2> DEFINE y == [x EXCEPT !.h = [x.h EXCEPT !.ckey_rs = t.on]]
  <2>1. Run(x, t) = apply_ckey(y)
    BY <1>6 DEF Run
  <2> HIDE DEF y
  <2>2. Keeps(x, y)
    BY KeepsHost DEF y
  <2>3. DOMAIN y = Dp2Fields
    BY <2>2 DEF Keeps
  <2> QED
    BY <1>6, <2>1, <2>2, <2>3, ColorKeyKeeps, KeepsOn DEF Draws
<1> QED
  BY <1>1, <1>2, <1>3, <1>4, <1>5, <1>6 DEF Consumed

(* What the instruction should do. *)
Expects(e) ==
  /\ DOMAIN e = {"over", "vertices", "processed", "type", "drawn"} /\ Listed(e.drawn)
  /\ e.processed = asks.processed /\ e.type = ProcessedType

Done(e, t, z) ==
  /\ Expects(z) /\ (e.over = TRUE => z = e)
  /\ e.over = FALSE =>
       /\ z.over = (t.op = "EXIT")
       /\ z.vertices = IF t.op = "PROCESSVERTICES" THEN e.vertices + 1 ELSE e.vertices
       /\ z.drawn = IF t.op \in Draws
                       /\ InReach(asks.processed[e.vertices], ProcessedType, Used(t))
                    THEN Append(e.drawn, Picked(asks.processed[e.vertices], ProcessedType, Used(t)))
                    ELSE e.drawn

LEMMA InstructionDoes ==
  ASSUME NEW e, Expects(e), NEW t, NEW z, z = Instruction(e, t)
  PROVE  Done(e, t, z)
<1> DEFINE cells == asks.processed[e.vertices]
<1>1. CASE e.over
  BY <1>1 DEF Done, Instruction, Expects
<1>2. CASE ~e.over /\ t.op = "PROCESSVERTICES"
  <2>1. z = [e EXCEPT !.vertices = @ + 1]
    BY <1>2 DEF Instruction
  <2> QED
    BY <1>2, <2>1 DEF Done, Expects, Draws
<1>3. CASE ~e.over /\ t.op = "EXIT"
  <2>1. z = [e EXCEPT !.over = TRUE]
    BY <1>3 DEF Instruction
  <2> QED
    BY <1>3, <2>1 DEF Done, Expects, Draws
<1>4. CASE ~e.over /\ t.op \in Draws
  <2>1. z = DrawOf(e, Used(t))
    BY <1>4 DEF Instruction, Used, Draws
  <2>2. CASE InReach(cells, ProcessedType, Used(t))
    <3> DEFINE v == Picked(cells, ProcessedType, Used(t))
    <3>1. z = [e EXCEPT !.drawn = Append(@, v)]
      BY <2>1, <2>2 DEF Expects, DrawOf, InReach, Picked
    <3> HIDE DEF v
    <3>2. Listed(Append(e.drawn, v))
      BY SeqAppend DEF Expects
    <3>3. z.drawn = Append(e.drawn, v) /\ z.over = e.over /\ z.vertices = e.vertices
          /\ DOMAIN z = DOMAIN e /\ z.processed = e.processed /\ z.type = e.type
      BY <3>1 DEF Expects
    <3>4. Expects(z)
      BY <3>2, <3>3 DEF Expects
    <3> QED
      BY <1>4, <2>2, <3>3, <3>4 DEF Done, v, Draws
  <2>3. CASE ~InReach(cells, ProcessedType, Used(t))
    <3>1. z = e
      BY <2>1, <2>3 DEF Expects, DrawOf, InReach
    <3> QED
      BY <1>4, <2>3, <3>1 DEF Done, Draws
  <2> QED
    BY <2>2, <2>3
<1>5. CASE ~e.over /\ t.op \notin Draws \cup {"PROCESSVERTICES", "EXIT"}
  BY <1>5 DEF Done, Instruction, Draws
<1> QED
  BY <1>1, <1>2, <1>3, <1>4, <1>5

-----------------------------------------------------------------------------
(* A whole buffer *)

LEMMA ConcatLists ==
  ASSUME NEW a, Listed(a), NEW b, Listed(b)
  PROVE  /\ Listed(a \o b) /\ Len(a \o b) = Len(a) + Len(b) /\ a \o <<>> = a
         /\ \A i \in 1..Len(a) : (a \o b)[i] = a[i]
         /\ \A i \in 1..Len(b) : (a \o b)[Len(a) + i] = b[i]
<1> DEFINE S == {a[i] : i \in 1..Len(a)} \cup {b[i] : i \in 1..Len(b)}
<1>1. a \in Seq(S) /\ b \in Seq(S) /\ Len(a) \in Nat /\ Len(b) \in Nat
  BY DEF Listed
<1> HIDE DEF S
<1>2. /\ a \o b \in Seq(S) /\ Len(a \o b) = Len(a) + Len(b)
      /\ \A i \in 1..Len(a) : (a \o b)[i] = a[i]
      /\ \A i \in 1..Len(b) : (a \o b)[Len(a) + i] = b[i]
  BY <1>1
<1>3. a \o <<>> = a
  BY <1>1
<1>4. a \o b \in [1..Len(a \o b) -> S]
  BY <1>2, LenProperties, Zenon
<1>5. a \o b = [i \in 1..Len(a \o b) |-> (a \o b)[i]]
  BY <1>4, Zenon
<1>6. Listed(a \o b)
  BY <1>1, <1>2, <1>5 DEF Listed
<1> QED
  BY <1>2, <1>3, <1>6, Zenon

LEMMA ConcatMore ==
  ASSUME NEW a, Listed(a), NEW b, Listed(b), NEW v
  PROVE  a \o Append(b, v) = Append(a \o b, v)
<1> DEFINE S == {a[i] : i \in 1..Len(a)} \cup {b[i] : i \in 1..Len(b)} \cup {v}
<1>1. a \in Seq(S) /\ b \in Seq(S) /\ v \in S
  BY DEF Listed
<1> HIDE DEF S
<1> QED
  BY <1>1

(* What drawn pictures show. *)
Shown(d) == [k \in DOMAIN d |-> d[k].vertices]

LEMMA ShownLists ==
  ASSUME NEW d, Listed(d)
  PROVE  Listed(Shown(d)) /\ Len(Shown(d)) = Len(d) /\ DOMAIN d = 1..Len(d)
<1> DEFINE S == {d[i].vertices : i \in 1..Len(d)}
<1>1. DOMAIN d = 1..Len(d) /\ Len(d) \in Nat
  BY DEF Listed
<1>2. Shown(d) = [k \in 1..Len(d) |-> d[k].vertices]
  BY <1>1 DEF Shown
<1>3. Shown(d) \in Seq(S) /\ Len(Shown(d)) = Len(d)
  BY <1>1, <1>2
<1>4. Shown(d) = [k \in 1..Len(Shown(d)) |-> Shown(d)[k]]
  BY <1>2, <1>3
<1> QED
  BY <1>1, <1>3, <1>4 DEF Listed

LEMMA SameLists ==
  ASSUME NEW a, Listed(a), NEW b, Listed(b), Len(a) = Len(b), \A i \in 1..Len(a) : a[i] = b[i]
  PROVE  a = b
  BY DEF Listed

LEMMA ShownMore ==
  ASSUME NEW d, Listed(d), NEW rec
  PROVE  Shown(Append(d, rec)) = Append(Shown(d), rec.vertices)
<1> DEFINE a == Shown(Append(d, rec))
           b == Append(Shown(d), rec.vertices)
<1>1. /\ Listed(Append(d, rec)) /\ Len(Append(d, rec)) = Len(d) + 1 /\ Len(d) \in Nat
      /\ Append(d, rec)[Len(d) + 1] = rec /\ \A i \in 1..Len(d) : Append(d, rec)[i] = d[i]
  BY SeqAppend DEF Listed
<1>2. /\ Listed(Shown(d)) /\ Len(Shown(d)) = Len(d) /\ DOMAIN d = 1..Len(d)
      /\ Listed(a) /\ Len(a) = Len(d) + 1 /\ DOMAIN Append(d, rec) = 1..Len(d) + 1
  BY <1>1, ShownLists
<1>3. /\ Listed(b) /\ Len(b) = Len(d) + 1 /\ b[Len(d) + 1] = rec.vertices
      /\ \A i \in 1..Len(d) : b[i] = Shown(d)[i]
  BY <1>2, SeqAppend
<1>4. ASSUME NEW i \in 1..Len(a) PROVE a[i] = b[i]
  <2>1. a[i] = Append(d, rec)[i].vertices
    BY <1>2 DEF Shown
  <2>2. CASE i = Len(d) + 1
    BY <1>1, <1>3, <2>1, <2>2
  <2>3. CASE i \in 1..Len(d)
    <3>1. Shown(d)[i] = d[i].vertices
      BY <1>2, <2>3 DEF Shown
    <3> QED
      BY <1>1, <1>3, <2>1, <2>3, <3>1
  <2> QED
    BY <1>1, <1>2, <2>2, <2>3
<1> HIDE DEF a, b
<1>5. a = b
  BY <1>2, <1>3, <1>4, SameLists
<1> QED
  BY <1>5 DEF a, b

LEMMA ShownConcat ==
  ASSUME NEW c, Listed(c), NEW d, Listed(d)
  PROVE  Shown(c \o d) = Shown(c) \o Shown(d)
<1> DEFINE a == Shown(c \o d)
           b == Shown(c) \o Shown(d)
<1>1. /\ Listed(c \o d) /\ Len(c \o d) = Len(c) + Len(d) /\ Len(c) \in Nat /\ Len(d) \in Nat
      /\ \A i \in 1..Len(c) : (c \o d)[i] = c[i]
      /\ \A i \in 1..Len(d) : (c \o d)[Len(c) + i] = d[i]
  BY ConcatLists DEF Listed
<1>2. /\ Listed(Shown(c)) /\ Len(Shown(c)) = Len(c) /\ DOMAIN c = 1..Len(c)
      /\ Listed(Shown(d)) /\ Len(Shown(d)) = Len(d) /\ DOMAIN d = 1..Len(d)
      /\ Listed(a) /\ Len(a) = Len(c) + Len(d) /\ DOMAIN (c \o d) = 1..Len(c) + Len(d)
  BY <1>1, ShownLists
<1>3. /\ Listed(b) /\ Len(b) = Len(c) + Len(d)
      /\ \A i \in 1..Len(c) : b[i] = Shown(c)[i]
      /\ \A i \in 1..Len(d) : b[Len(c) + i] = Shown(d)[i]
  <2> DEFINE p == Shown(c)
             r == Shown(d)
  <2>1. Listed(p) /\ Listed(r) /\ Len(p) = Len(c) /\ Len(r) = Len(d) /\ b = p \o r
    BY <1>2
  <2> HIDE DEF p, r, b
  <2>2. /\ Listed(p \o r) /\ Len(p \o r) = Len(p) + Len(r)
        /\ \A i \in 1..Len(p) : (p \o r)[i] = p[i]
        /\ \A i \in 1..Len(r) : (p \o r)[Len(p) + i] = r[i]
    <3>1. Listed(p) /\ Listed(r)
      BY <2>1
    <3>2. Listed(p \o r)
      BY <3>1, ConcatLists, Zenon
    <3>3. Len(p \o r) = Len(p) + Len(r)
      BY <3>1, ConcatLists, Zenon
    <3>4. \A i \in 1..Len(p) : (p \o r)[i] = p[i]
      BY <3>1, ConcatLists, Zenon
    <3>5. \A i \in 1..Len(r) : (p \o r)[Len(p) + i] = r[i]
      BY <3>1, ConcatLists DEF Listed
    <3> QED
      BY <3>2, <3>3, <3>4, <3>5
  <2>3. /\ Listed(b) /\ Len(b) = Len(c) + Len(d)
        /\ \A i \in 1..Len(c) : b[i] = p[i]
        /\ \A i \in 1..Len(d) : b[Len(c) + i] = r[i]
    BY <2>1, <2>2
  <2> QED
    BY <2>3 DEF p, r
<1>4. ASSUME NEW i \in 1..Len(a) PROVE a[i] = b[i]
  <2>1. a[i] = (c \o d)[i].vertices
    BY <1>2 DEF Shown
  <2>2. CASE i \in 1..Len(c)
    <3>1. Shown(c)[i] = c[i].vertices
      BY <1>2, <2>2 DEF Shown
    <3> QED
      BY <1>1, <1>3, <2>1, <2>2, <3>1
  <2>3. CASE i \notin 1..Len(c)
    <3>1. i - Len(c) \in 1..Len(d) /\ Len(c) + (i - Len(c)) = i
      BY <1>1, <1>2, <2>3
    <3>2. Shown(d)[i - Len(c)] = d[i - Len(c)].vertices
      BY <1>2, <3>1 DEF Shown
    <3>3. b[i] = Shown(d)[i - Len(c)] /\ (c \o d)[i] = d[i - Len(c)]
      BY <1>1, <1>3, <3>1
    <3> QED
      BY <2>1, <3>2, <3>3
  <2> QED
    BY <2>2, <2>3
<1> HIDE DEF a, b
<1>5. a = b
  BY <1>2, <1>3, <1>4, SameLists
<1> QED
  BY <1>5 DEF a, b

(* What is left of a buffer from a place on. *)
LEMMA LeftIs ==
  ASSUME NEW b, Listed(b), NEW at \in Nat, at < Len(b)
  PROVE  LET q == SubSeq(b, at + 1, Len(b)) IN
         /\ Listed(q) /\ Len(q) = Len(b) - at /\ \A i \in 1..Len(q) : q[i] = b[at + i]
<1> DEFINE S == {b[i] : i \in 1..Len(b)}
           q == SubSeq(b, at + 1, Len(b))
<1>1. b \in Seq(S) /\ Len(b) \in Nat
  BY DEF Listed
<1>2. \A i \in at + 1..Len(b) : b[i] \in S
  BY <1>1
<1> HIDE DEF S
<1>3. /\ q \in Seq(S) /\ Len(q) = Len(b) - at
      /\ \A i \in 1..Len(q) : q[i] = b[at + i]
  BY <1>1, <1>2
<1>4. q \in [1..Len(q) -> S]
  BY <1>3, LenProperties, Zenon
<1>5. q = [i \in 1..Len(q) |-> q[i]]
  BY <1>4, Zenon
<1>6. Listed(q)
  BY <1>1, <1>3, <1>5 DEF Listed
<1> QED
  BY <1>3, <1>6

(* Where the instructions should lead, one after the other. *)
Reached(b, n) == All("instruction", Begun, SubSeq(b, 1, n))

LEMMA ReachedMore ==
  ASSUME NEW b, Listed(b), NEW n \in Nat, n < Len(b)
  PROVE  Reached(b, n + 1) = Instruction(Reached(b, n), b[n + 1])
<1>1. SubSeq(b, 1, n + 1) = Append(SubSeq(b, 1, n), b[n + 1]) /\ Listed(SubSeq(b, 1, n))
  BY StartsOf DEF Listed
<1> DEFINE q == SubSeq(b, 1, n)
           t == b[n + 1]
<1>2. /\ Reached(b, n) = All("instruction", Begun, q)
      /\ Reached(b, n + 1) = All("instruction", Begun, Append(q, t))
  BY <1>1 DEF Reached
<1> HIDE DEF q
<1>3. All("instruction", Begun, Append(q, t)) = Step("instruction", All("instruction", Begun, q), t)
  BY <1>1, AllMore DEF q
<1> QED
  BY <1>2, <1>3 DEF Step

LEMMA ReachedExpects ==
  ASSUME NEW b, Listed(b)
  PROVE  \A n \in Nat : n <= Len(b) => Expects(Reached(b, n))
<1> DEFINE S == {n \in Nat : n <= Len(b) => Expects(Reached(b, n))}
<1>1. 0 \in S
  <2>1. SubSeq(b, 1, 0) = <<>>
    BY StartsOf DEF Listed
  <2>2. Reached(b, 0) = Begun
    BY <2>1, AllNone DEF Reached
  <2>3. Expects(Begun)
    BY SeqEmpty DEF Expects, Begun
  <2> QED
    BY <2>2, <2>3
<1>2. ASSUME NEW n \in Nat, n \in S PROVE n + 1 \in S
  <2> SUFFICES ASSUME n + 1 <= Len(b) PROVE Expects(Reached(b, n + 1))
    OBVIOUS
  <2>1. n < Len(b) /\ Expects(Reached(b, n))
    BY <1>2 DEF Listed
  <2>2. Reached(b, n + 1) = Instruction(Reached(b, n), b[n + 1])
    BY <2>1, ReachedMore
  <2>3. Done(Reached(b, n), b[n + 1], Reached(b, n + 1))
    BY <2>1, <2>2, InstructionDoes
  <2> QED
    BY <2>3 DEF Done
<1> HIDE DEF S
<1>3. \A n \in Nat : n \in S
  BY <1>1, <1>2, EveryNumber
<1> QED
  BY <1>3 DEF S

(* The driver has walked n commands, the executor has run what came out: e, where the instructions *)
(* should have led by then; f, where they should lead with the one that is given back.            *)
Meets(w, x, n, start, e, f, t) ==
  /\ w.over = "no" =>
       /\ w.pos = n /\ w.bounce = NoBounce /\ e.over = FALSE /\ e.vertices = start.vertices
       /\ e.drawn = start.drawn \o Shown(x.drawn)
  /\ w.over # "no" /\ w.bounce = NoBounce =>
       e.over = TRUE /\ e.drawn = start.drawn \o Shown(x.drawn)
  /\ w.over # "no" /\ w.bounce # NoBounce =>
       /\ w.bounce \in Nat /\ w.bounce < n /\ Runtimes(t)
       /\ f.over = FALSE /\ f.drawn = start.drawn \o Shown(x.drawn)
       /\ f.vertices = IF t.op = "PROCESSVERTICES" THEN start.vertices + 1 ELSE start.vertices

Shaped(w, x) ==
  /\ DOMAIN w = WalkFields /\ w.request.eb = TRUE /\ Listed(w.out) /\ w.over \in {"no", "end"}
  /\ DOMAIN x = Dp2Fields /\ x.failed = FALSE /\ x.type = ProcessedType /\ Listed(x.drawn)

(* A walk at its start, and the executor before its run. *)
Starts(w, x) ==
  /\ Shaped(w, x) /\ w.out = <<>> /\ w.over = "no" /\ w.pos = 0 /\ w.bounce = NoBounce
  /\ w.needs_vb = FALSE /\ x.drawn = <<>>

WalkedTo(w, q, n) == All("walk", w, SubSeq(q, 1, n))
RanTo(w, x, q, n) == All("run", x, WalkedTo(w, q, n).out)

(* One command more. *)
LEMMA OneMore ==
  ASSUME NEW w, NEW x, Shaped(w, x), NEW vertices,
         NEW start, Expects(start), NEW e, Expects(e), NEW n \in Nat, NEW t,
         NEW v, v = WalkStep(w, t), NEW y, y = IF v.out = w.out THEN x ELSE Run(x, t),
         NEW g, g = Instruction(e, t), NEW f, NEW u, NEW f2, NEW u2,
         vertices = asks.processed[start.vertices],
         v.needs_vb => x.vtx = vertices,
         Meets(w, x, n, start, e, f, u),
         w.over # "no" /\ w.bounce # NoBounce => f2 = f /\ u2 = u,
         w.over = "no" /\ v.over # "no" /\ v.bounce # NoBounce => f2 = g /\ u2 = t
  PROVE  Meets(v, y, n + 1, start, g, f2, u2)
<1>0. Done(e, t, g)
  BY InstructionDoes
<1>1. CASE w.over # "no"
  <2>1. w.over = "end" /\ v = w
    BY <1>1 DEF Shaped, WalkStep
  <2>2. y = x
    BY <1>0, <2>1
  <2>3. CASE w.bounce = NoBounce
    <3>0. e.over = TRUE
      BY <1>1, <2>3 DEF Meets
    <3>1. g = e
      BY <1>0, <3>0 DEF Done
    <3> QED
      BY <1>1, <2>1, <2>2, <2>3, <3>1 DEF Meets
  <2>4. CASE w.bounce # NoBounce
    <3>1. f2 = f /\ u2 = u
      BY <1>1, <2>4
    <3>2. w.bounce \in Nat /\ w.bounce < n
      BY <1>1, <2>4 DEF Meets
    <3>3. w.bounce < n + 1
      BY <3>2
    <3> QED
      BY <1>1, <2>1, <2>2, <2>4, <3>1, <3>2, <3>3 DEF Meets
  <2> QED
    BY <2>3, <2>4
<1>2. CASE w.over = "no"
  <2>0. /\ DOMAIN w = WalkFields /\ w.request.eb = TRUE
        /\ DOMAIN x = Dp2Fields /\ x.failed = FALSE
    BY DEF Shaped
  <2>1. /\ w.pos = n /\ w.bounce = NoBounce /\ e.over = FALSE /\ e.vertices = start.vertices
        /\ e.drawn = start.drawn \o Shown(x.drawn)
    BY <1>2 DEF Meets
  <2>2. NoBounce \notin Nat
    BY DEF NoBounce
  <2>7. WalksPast(w, t, v)
    BY <1>2, <2>0, WalksOn
  <2>3. CASE t.op = "EXIT"
    <3>1. v.over = "end" /\ v.bounce = NoBounce /\ v.out = w.out
      BY <2>1, <2>3, <2>7 DEF WalksPast
    <3>2. g.over = TRUE /\ g.drawn = e.drawn
      BY <1>0, <2>1, <2>3 DEF Done, Draws
    <3> QED
      BY <1>0, <2>1, <3>1, <3>2 DEF Meets
  <2>4. CASE t.op = "SPAN"
    <3>1. v.over = "no" /\ v.bounce = NoBounce /\ v.out = w.out /\ v.pos = n + 1
      BY <2>1, <2>4, <2>7 DEF WalksPast
    <3>2. g.over = FALSE /\ g.drawn = e.drawn /\ g.vertices = e.vertices
      BY <1>0, <2>1, <2>4 DEF Done, Draws
    <3> QED
      BY <1>0, <2>1, <3>1, <3>2 DEF Meets
  <2>5. CASE Runtimes(t)
    <3>1. v.over = "end" /\ v.bounce = n /\ v.out = w.out
      BY <2>1, <2>5, <2>7 DEF WalksPast
    <3>2. f2 = g /\ u2 = t
      BY <1>2, <2>2, <3>1
    <3>3. /\ g.over = FALSE /\ g.drawn = e.drawn
          /\ g.vertices = IF t.op = "PROCESSVERTICES" THEN e.vertices + 1 ELSE e.vertices
      BY <1>0, <2>1, <2>5 DEF Done, Draws, Runtimes, Consumed
    <3> QED
      BY <1>0, <2>1, <2>2, <2>5, <3>1, <3>2, <3>3 DEF Meets
  <2>6. CASE t.op \in Consumed
    <3>1. /\ v.over = "no" /\ v.bounce = NoBounce /\ v.pos = n + 1 /\ v.out = Append(w.out, t)
          /\ v.needs_vb = IF t.op \in Draws THEN TRUE ELSE w.needs_vb
      BY <2>1, <2>6, <2>7 DEF WalksPast
    <3>2. Listed(w.out) /\ Len(Append(w.out, t)) = Len(w.out) + 1 /\ Len(w.out) \in Nat
      BY SeqAppend DEF Shaped, Listed
    <3>3. v.out # w.out
      BY <3>1, <3>2
    <3>4. y = Run(x, t)
      BY <3>3
    <3>5. g.over = FALSE /\ g.vertices = start.vertices
      BY <1>0, <2>1, <2>6 DEF Done, Consumed
    <3>6. g.drawn = start.drawn \o Shown(y.drawn)
      <4>1. CASE t.op \notin Draws
        <5>1. y.drawn = x.drawn
          BY <2>0, <2>6, <3>4, <4>1, RunDoes DEF Keeps
        <5>2. g.drawn = e.drawn
          BY <1>0, <2>1, <4>1 DEF Done
        <5> QED
          BY <1>0, <2>1, <5>1, <5>2
      <4>2. CASE t.op \in Draws
        <5>1. x.vtx = vertices /\ x.type = ProcessedType
          BY <3>1, <4>2 DEF Shaped
        <5>2. vertices = asks.processed[e.vertices]
          BY <1>0, <2>1
        <5>3. CASE InReach(vertices, ProcessedType, Used(t))
          <6>1. DrawsOne(x, y, Picked(vertices, ProcessedType, Used(t)))
            BY <2>0, <2>6, <3>4, <4>2, <5>1, <5>3, RunDoes
          <6>2. PICK rec : y.drawn = Append(x.drawn, rec)
                           /\ rec.vertices = Picked(vertices, ProcessedType, Used(t))
            BY <6>1 DEF DrawsOne
          <6>3. g.drawn = Append(e.drawn, Picked(vertices, ProcessedType, Used(t)))
            BY <1>0, <2>1, <4>2, <5>2, <5>3 DEF Done
          <6>4. Shown(y.drawn) = Append(Shown(x.drawn), rec.vertices)
            BY <6>2, ShownMore DEF Shaped
          <6>5. Listed(start.drawn) /\ Listed(Shown(x.drawn))
            BY ShownLists DEF Shaped, Expects
          <6>6. start.drawn \o Append(Shown(x.drawn), rec.vertices)
                  = Append(start.drawn \o Shown(x.drawn), rec.vertices)
            <7> DEFINE a == start.drawn
                       b == Shown(x.drawn)
            <7>1. Listed(a) /\ Listed(b)
              BY <6>5
            <7> HIDE DEF a, b
            <7>2. a \o Append(b, rec.vertices) = Append(a \o b, rec.vertices)
              BY <7>1, ConcatMore
            <7> QED
              BY <7>2 DEF a, b
          <6> QED
            BY <1>0, <2>1, <6>2, <6>3, <6>4, <6>6
        <5>4. CASE ~InReach(vertices, ProcessedType, Used(t))
          <6>1. y = x
            BY <2>0, <2>6, <3>4, <4>2, <5>1, <5>4, RunDoes
          <6>2. g.drawn = e.drawn
            BY <1>0, <2>1, <4>2, <5>2, <5>4 DEF Done
          <6> QED
            BY <1>0, <2>1, <6>1, <6>2
        <5> QED
          BY <5>3, <5>4
      <4> QED
        BY <4>1, <4>2
    <3> QED
      BY <3>1, <3>5, <3>6 DEF Meets
  <2> QED
    BY <2>3, <2>4, <2>5, <2>6 DEF Runtimes
<1> QED
  BY <1>1, <1>2

LEMMA ShapedMore ==
  ASSUME NEW w, NEW x, Shaped(w, x), NEW t, NEW v, v = WalkStep(w, t),
         NEW y, y = IF v.out = w.out THEN x ELSE Run(x, t)
  PROVE  /\ Shaped(v, y) /\ y.vtx = x.vtx /\ (w.needs_vb => v.needs_vb)
         /\ v.out = w.out \/ v.out = Append(w.out, t)
<1>1. CASE w.over # "no"
  <2>1. v = w
    BY <1>1 DEF Shaped, WalkStep
  <2> QED
    BY <2>1
<1>2. CASE w.over = "no"
  <2>0. /\ DOMAIN w = WalkFields /\ w.request.eb = TRUE /\ Listed(w.out)
        /\ DOMAIN x = Dp2Fields /\ x.failed = FALSE /\ x.type = ProcessedType /\ Listed(x.drawn)
    BY DEF Shaped
  <2>1. WalksPast(w, t, v)
    BY <1>2, <2>0, WalksOn
  <2>2. CASE t.op \notin Consumed
    <3>1. v.out = w.out /\ v.over \in {"no", "end"} /\ v.needs_vb = w.needs_vb /\ Walked(w, v)
      BY <2>1, <2>2 DEF WalksPast, Runtimes
    <3> QED
      BY <2>0, <3>1 DEF Shaped, Walked
  <2>3. CASE t.op \in Consumed
    <3>1. /\ v.out = Append(w.out, t) /\ v.over = "no" /\ Walked(w, v)
          /\ w.needs_vb => v.needs_vb
      BY <2>1, <2>3 DEF WalksPast
    <3>2. Listed(v.out) /\ Len(v.out) = Len(w.out) + 1 /\ Len(w.out) \in Nat
      BY <2>0, <3>1, SeqAppend DEF Listed
    <3>3. v.out # w.out
      BY <3>2
    <3>4. y = Run(x, t)
      BY <3>3
    <3>5. /\ DOMAIN y = Dp2Fields /\ y.failed = FALSE /\ y.type = x.type /\ y.vtx = x.vtx
          /\ y.drawn = x.drawn \/ \E rec : y.drawn = Append(x.drawn, rec)
      <4>1. CASE t.op \notin Draws
        <5>1. Keeps(x, y)
          BY <2>0, <2>3, <3>4, <4>1, RunDoes
        <5> QED
          BY <2>0, <5>1 DEF Keeps
      <4>2. CASE t.op \in Draws /\ ~InReach(x.vtx, x.type, Used(t))
        BY <2>0, <2>3, <3>4, <4>2, RunDoes
      <4>3. CASE t.op \in Draws /\ InReach(x.vtx, x.type, Used(t))
        <5>1. DrawsOne(x, y, Picked(x.vtx, x.type, Used(t)))
          BY <2>0, <2>3, <3>4, <4>3, RunDoes
        <5> QED
          BY <2>0, <5>1 DEF DrawsOne
      <4> QED
        BY <4>1, <4>2, <4>3
    <3>6. Listed(y.drawn)
      BY <2>0, <3>5, SeqAppend
    <3> QED
      BY <2>0, <3>1, <3>2, <3>5, <3>6 DEF Shaped, Walked
  <2> QED
    BY <2>2, <2>3
<1> QED
  BY <1>1, <1>2

(* All of what is left. *)
LEMMA WalkMeets ==
  ASSUME NEW b, Listed(b), NEW at \in Nat, at < Len(b),
         NEW q, q = SubSeq(b, at + 1, Len(b)),
         NEW w, NEW x, Starts(w, x),
         Reached(b, at).over = FALSE,
         WalkedTo(w, q, Len(q)).needs_vb => x.vtx = asks.processed[Reached(b, at).vertices]
  PROVE  LET v == WalkedTo(w, q, Len(q))
             y == RanTo(w, x, q, Len(q))
         IN  /\ Shaped(v, y)
             /\ Meets(v, y, Len(q), Reached(b, at), Reached(b, Len(b)),
                      Reached(b, at + v.bounce + 1), b[at + v.bounce + 1])
<1> DEFINE start == Reached(b, at)
           vertices == asks.processed[start.vertices]
           V(n) == WalkedTo(w, q, n)
           Y(n) == RanTo(w, x, q, n)
           F(n) == Reached(b, at + V(n).bounce + 1)
           T(n) == b[at + V(n).bounce + 1]
           Good(n) == /\ Shaped(V(n), Y(n)) /\ Y(n).vtx = x.vtx
                      /\ (V(n).needs_vb => x.vtx = vertices) =>
                           Meets(V(n), Y(n), n, start, Reached(b, at + n), F(n), T(n))
<1>1. /\ Listed(q) /\ Len(q) = Len(b) - at /\ \A i \in 1..Len(q) : q[i] = b[at + i]
      /\ Len(q) \in Nat /\ Len(b) \in Nat
  <2>1. Listed(q) /\ Len(q) = Len(b) - at /\ \A i \in 1..Len(q) : q[i] = b[at + i]
    BY LeftIs
  <2>2. Len(q) \in Nat /\ Len(b) \in Nat
    BY <2>1 DEF Listed
  <2> QED
    BY <2>1, <2>2
<1>2. Expects(start)
  BY ReachedExpects
<1> DEFINE S == {n \in Nat : n <= Len(q) => Good(n)}
<1>3. 0 \in S
  <2>1. SubSeq(q, 1, 0) = <<>>
    BY <1>1, StartsOf
  <2>2. V(0) = w
    BY <2>1, AllNone DEF WalkedTo
  <2>3. w.out = <<>>
    BY DEF Starts
  <2>4. RanTo(w, x, q, 0) = All("run", x, <<>>)
    BY <2>2, <2>3 DEF RanTo
  <2>5. Y(0) = x
    BY <2>4, AllNone
  <2>6. start.drawn \o Shown(x.drawn) = start.drawn
    <3>1. Shown(<<>>) = <<>>
      BY DEF Shown
    <3>2. Listed(start.drawn)
      BY <1>2 DEF Expects
    <3> HIDE DEF start
    <3>3. start.drawn \o <<>> = start.drawn
      BY <3>2, SeqEmpty, ConcatLists
    <3> QED
      BY <3>1, <3>3 DEF Starts
  <2>7. Reached(b, at + 0) = start
    OBVIOUS
  <2> HIDE DEF start, V, Y
  <2>8. Meets(w, x, 0, start, start, F(0), T(0))
    BY <2>6 DEF Meets, Starts, start
  <2>9. Good(0)
    BY <2>2, <2>5, <2>7, <2>8 DEF Starts
  <2> QED
    BY <2>9
<1>4. ASSUME NEW n \in Nat, n \in S PROVE n + 1 \in S
  <2> SUFFICES ASSUME n + 1 <= Len(q) PROVE Good(n + 1)
    OBVIOUS
  <2>1. Good(n) /\ n < Len(q) /\ n + 1 \in 1..Len(q) /\ n <= Len(q)
    BY <1>1, <1>4
  <2> DEFINE t == q[n + 1]
             v == V(n)
             y == Y(n)
             v2 == V(n + 1)
             y2 == Y(n + 1)
  <2>2. v2 = WalkStep(v, t)
    <3> DEFINE p == SubSeq(q, 1, n)
    <3>1. SubSeq(q, 1, n + 1) = Append(p, t) /\ Listed(p)
      BY <1>1, <2>1, StartsOf
    <3> HIDE DEF p, t
    <3>2. All("walk", w, Append(p, t)) = Step("walk", All("walk", w, p), t)
      BY <3>1, AllMore
    <3>3. v2 = All("walk", w, Append(p, t)) /\ v = All("walk", w, p)
      BY <3>1 DEF WalkedTo, p
    <3> QED
      BY <3>2, <3>3 DEF Step
  <2>3. y = All("run", x, v.out) /\ y2 = All("run", x, v2.out)
    BY DEF RanTo
  <2>4. b[at + n + 1] = t /\ Reached(b, at + n + 1) = Instruction(Reached(b, at + n), b[at + n + 1])
    <3>1. at + n \in Nat /\ at + n < Len(b)
      BY <1>1, <2>1
    <3>2. q[n + 1] = b[at + (n + 1)] /\ at + (n + 1) = (at + n) + 1
      BY <1>1, <2>1
    <3> QED
      BY <3>1, <3>2, ReachedMore
  <2>5. Expects(Reached(b, at + n))
    <3>1. at + n \in Nat /\ at + n <= Len(b)
      BY <1>1, <2>1
    <3> QED
      BY <3>1, ReachedExpects
  <2>6. Shaped(v, y) /\ y.vtx = x.vtx
    BY <2>1
  <2>7. at + n + 1 = at + (n + 1)
    OBVIOUS
  <2> DEFINE e == Reached(b, at + n)
             g == Reached(b, at + (n + 1))
  <2>8. g = Instruction(e, t)
    BY <2>4, <2>7
  <2>9. (v.needs_vb => x.vtx = vertices) => Meets(v, y, n, start, e, F(n), T(n))
    BY <2>1
  <2> DEFINE out == v.out
  <2> HIDE DEF start, V, Y, v, v2, y, y2, t, F, T
  <2> DEFINE z == IF v2.out = v.out THEN y ELSE Run(y, t)
  <2>10. /\ Listed(out) /\ Shaped(v2, z) /\ z.vtx = y.vtx /\ (v.needs_vb => v2.needs_vb)
         /\ v2.out = v.out \/ v2.out = Append(v.out, t)
    <3>1. Listed(out)
      BY <2>6 DEF Shaped
    <3>2. z = IF v2.out = v.out THEN y ELSE Run(y, t)
      OBVIOUS
    <3> HIDE DEF z
    <3>3. Shaped(v, y)
      BY <2>6
    <3>4. /\ Shaped(v2, z) /\ z.vtx = y.vtx /\ (v.needs_vb => v2.needs_vb)
          /\ v2.out = v.out \/ v2.out = Append(v.out, t)
      BY <2>2, <3>2, <3>3, ShapedMore
    <3> QED
      BY <3>1, <3>4
  <2>11. y2 = IF v2.out = v.out THEN y ELSE Run(y, t)
    <3>1. CASE v2.out = v.out
      BY <2>3, <3>1
    <3>2. CASE v2.out = Append(out, t)
      <4> HIDE DEF out
      <4>1. All("run", x, Append(out, t)) = Step("run", All("run", x, out), t)
        BY <2>10, AllMore
      <4>2. y2 = Run(y, t)
        BY <2>3, <3>2, <4>1 DEF out, Step
      <4>3. Len(Append(out, t)) = Len(out) + 1 /\ Len(out) \in Nat
        BY <2>10, SeqAppend DEF Listed
      <4>4. Append(out, t) # out
        BY <4>3
      <4> QED
        BY <3>2, <4>2, <4>4 DEF out
    <3> QED
      BY <2>10, <3>1, <3>2
  <2>12. Shaped(v2, y2) /\ y2.vtx = x.vtx /\ (v.needs_vb => v2.needs_vb)
    BY <2>6, <2>10, <2>11
  <2>13. ASSUME v2.needs_vb => x.vtx = vertices
         PROVE  Meets(v2, y2, n + 1, start, g, F(n + 1), T(n + 1))
    <3>1. Meets(v, y, n, start, e, F(n), T(n))
      BY <2>9, <2>12, <2>13
    <3>2. v2.needs_vb => y.vtx = vertices
      BY <2>6, <2>13
    <3>3. v.over # "no" /\ v.bounce # NoBounce => F(n + 1) = F(n) /\ T(n + 1) = T(n)
      <4>1. v.over # "no" => v2 = v
        BY <2>2, <2>6 DEF Shaped, WalkStep
      <4> QED
        BY <4>1 DEF F, T, v, v2
    <3>4. v.over = "no" /\ v2.over # "no" /\ v2.bounce # NoBounce => F(n + 1) = g /\ T(n + 1) = t
      <4> SUFFICES ASSUME v.over = "no", v2.over # "no", v2.bounce # NoBounce
                   PROVE  F(n + 1) = g /\ T(n + 1) = t
        OBVIOUS
      <4>1. v.pos = n /\ v.bounce = NoBounce
        BY <3>1 DEF Meets
      <4>2. WalksPast(v, t, v2)
        BY <2>2, <2>6, WalksOn DEF Shaped
      <4>3. v2.bounce = n
        BY <4>1, <4>2 DEF WalksPast, Runtimes
      <4> QED
        BY <2>4, <2>7, <4>3 DEF F, T, v2
    <3> HIDE DEF e, g, vertices
    <3>5. vertices = asks.processed[start.vertices]
      BY DEF vertices
    <3>6. Expects(start) /\ Expects(e)
      BY <1>2, <2>5 DEF start, e
    <3> DEFINE f == F(n)
               u == T(n)
               f2 == F(n + 1)
               u2 == T(n + 1)
    <3>7. /\ Meets(v, y, n, start, e, f, u)
          /\ v.over # "no" /\ v.bounce # NoBounce => f2 = f /\ u2 = u
          /\ v.over = "no" /\ v2.over # "no" /\ v2.bounce # NoBounce => f2 = g /\ u2 = t
      BY <3>1, <3>3, <3>4
    <3> HIDE DEF f, u, f2, u2
    <3>8. Meets(v2, y2, n + 1, start, g, f2, u2)
      BY <2>2, <2>6, <2>8, <2>11, <3>2, <3>5, <3>6, <3>7, OneMore
    <3> QED
      BY <3>8 DEF f2, u2
  <2>14. /\ Shaped(v2, y2) /\ y2.vtx = x.vtx
         /\ (v2.needs_vb => x.vtx = vertices) => Meets(v2, y2, n + 1, start, g, F(n + 1), T(n + 1))
    BY <2>12, <2>13
  <2> QED
    BY <2>14 DEF v2, y2
<1> HIDE DEF S, Good
<1>5. \A n \in Nat : n \in S
  BY <1>3, <1>4, EveryNumber
<1>6. Good(Len(q))
  BY <1>1, <1>5 DEF S
<1>7. at + Len(q) = Len(b)
  BY <1>1
<1> QED
  BY <1>6, <1>7 DEF Good

-----------------------------------------------------------------------------
(* The invariant *)

(* The place in the buffer, and what was drawn of it. *)
Placed ==
  /\ DOMAIN execute = {"buffer", "at", "vertices", "done"}
  /\ Listed(execute.buffer) /\ Listed(execute.done)
  /\ execute.at \in Nat /\ execute.at <= Len(execute.buffer)

Once == Reached(execute.buffer, execute.at).drawn = Shown(execute.done)

(* While there is something left, it goes on from where the runtime is. *)
Going ==
  execute.at < Len(execute.buffer) =>
    /\ Reached(execute.buffer, execute.at).over = FALSE
    /\ Reached(execute.buffer, execute.at).vertices = execute.vertices

(* What a request under way has drawn, and where it has led. *)
GivesBack(b, at, n, done, d, vertices) ==
  LET f == Reached(b, at + n + 1) IN
  /\ n \in Nat /\ at + n < Len(b) /\ f.over = FALSE /\ f.drawn = Shown(done) \o Shown(d)
  /\ f.vertices = IF b[at + n + 1].op = "PROCESSVERTICES" THEN vertices + 1 ELSE vertices

UnderWay ==
  request # Idle /\ request.eb = TRUE =>
    /\ Listed(drawn) /\ execute.at < Len(execute.buffer)
    /\ answer.ok = TRUE =>
         Reached(execute.buffer, Len(execute.buffer)).drawn = Shown(execute.done) \o Shown(drawn)
    /\ answer.ok # TRUE =>
         GivesBack(execute.buffer, execute.at, answer.stop, execute.done, drawn, execute.vertices)

AtRest == request = Idle => drawn = <<>>

ExecInv == Placed /\ Once /\ Going /\ UnderWay /\ AtRest

LEMMA BegunSame == ASSUME program' = program PROVE Begun' = Begun
  BY DEF Begun, ProcessedType, asks

LEMMA InitOnce == Init => ExecInv
<1> SUFFICES ASSUME Init PROVE ExecInv
  OBVIOUS
<1>1. /\ program \in DOMAIN Programs /\ request = Idle /\ drawn = <<>>
      /\ execute \in [buffer : asks.buffers, at : {0}, vertices : {1}, done : {<<>>}]
  BY DEF Init
<1> DEFINE b == execute.buffer
<1>2. /\ b \in asks.buffers /\ execute.at = 0 /\ execute.vertices = 1 /\ execute.done = <<>>
      /\ DOMAIN execute = {"buffer", "at", "vertices", "done"}
  BY <1>1
<1>3. b \in Seq({b[i] : i \in DOMAIN b})
  BY <1>1, <1>2, BuffersAreLists DEF asks
<1>4. Listed(b)
  <2> DEFINE S == {b[i] : i \in DOMAIN b}
  <2>1. b \in Seq(S)
    BY <1>3
  <2> HIDE DEF S, b
  <2>2. Len(b) \in Nat /\ b \in [1..Len(b) -> S]
    BY <2>1, LenProperties, Zenon
  <2>3. b = [i \in 1..Len(b) |-> b[i]]
    BY <2>2, Zenon
  <2> QED
    BY <2>2, <2>3 DEF Listed
<1>5. SubSeq(b, 1, 0) = <<>> /\ Len(b) \in Nat
  BY <1>4, StartsOf DEF Listed
<1>6. Reached(b, 0) = Begun
  BY <1>5, AllNone DEF Reached
<1>7. Placed
  BY <1>2, <1>4, <1>5, SeqEmpty DEF Placed
<1>8. Once /\ Going
  BY <1>2, <1>6 DEF Once, Going, Shown, Begun
<1> QED
  BY <1>1, <1>7, <1>8 DEF ExecInv, UnderWay, AtRest

(* A step that leaves the buffer alone, and asks nothing of it. *)
LEMMA OtherSteps ==
  ASSUME ExecInv, UNCHANGED <<program, execute>>,
         request' # Idle => request'.eb # TRUE, request' = Idle => drawn' = <<>>
  PROVE  ExecInv'
<1>1. Placed'
  BY DEF ExecInv, Placed
<1>2. Reached(execute.buffer, execute.at)' = Reached(execute.buffer, execute.at)
  BY BegunSame DEF Reached
<1>3. Once'
  BY <1>2 DEF ExecInv, Once
<1>4. Going'
  BY <1>2 DEF ExecInv, Going
<1>5. UnderWay' /\ AtRest'
  BY DEF UnderWay, AtRest, Idle
<1> QED
  BY <1>1, <1>3, <1>4, <1>5 DEF ExecInv

(* A request for what is left of the buffer. *)
Asks(r, q) ==
  /\ r.stream = q /\ r.eb = TRUE /\ r.type = ProcessedType
  /\ r.vertices = asks.processed[execute.vertices] /\ r # Idle

LEMMA WalkIs ==
  ASSUME NEW w, NEW q, Listed(q), w.request.stream = q
  PROVE  Walk(w) = WalkedTo(w, q, Len(q))
<1>1. SubSeq(q, 1, Len(q)) = q
  BY StartsOf DEF Listed
<1> QED
  BY <1>1 DEF Walk, WalkedTo, All

Pass(r, w) == w = DP2WALK(r) \/ \E m : w = [DP2WALK(r) EXCEPT !.pass = 2, !.memory = m]

Loaded(x) == DOMAIN x = Dp2Fields /\ x.failed = FALSE /\ x.type = ProcessedType /\ x.drawn = <<>>

LEMMA PassStarts ==
  ASSUME NEW r, NEW q, Asks(r, q), NEW w, Pass(r, w), NEW x, Loaded(x)
  PROVE  Starts(w, x) /\ w.request.stream = q
<1>1. LET d == DP2WALK(r) IN
      /\ DOMAIN d = WalkFields /\ d.request = r /\ d.out = <<>> /\ d.over = "no" /\ d.pos = 0
      /\ d.bounce = NoBounce /\ d.needs_vb = FALSE
  BY DEF DP2WALK, WalkFields
<1>2. /\ DOMAIN w = WalkFields /\ w.request = r /\ w.out = <<>> /\ w.over = "no" /\ w.pos = 0
      /\ w.bounce = NoBounce /\ w.needs_vb = FALSE
  <2>1. CASE w = DP2WALK(r)
    BY <1>1, <2>1
  <2>2. CASE \E m : w = [DP2WALK(r) EXCEPT !.pass = 2, !.memory = m]
    <3> DEFINE d == DP2WALK(r)
    <3>1. PICK m : w = [d EXCEPT !.pass = 2, !.memory = m]
      BY <2>2
    <3>2. /\ DOMAIN d = WalkFields /\ d.request = r /\ d.out = <<>> /\ d.over = "no" /\ d.pos = 0
          /\ d.bounce = NoBounce /\ d.needs_vb = FALSE
      BY <1>1
    <3> HIDE DEF d
    <3> QED
      BY <3>1, <3>2 DEF WalkFields
  <2> QED
    BY <2>1, <2>2 DEF Pass
<1> QED
  BY <1>2, SeqEmpty DEF Starts, Shaped, Asks, Loaded

(* The first pass gives all of it back: nothing is done. *)
LEMMA GivenBackAtOnce ==
  ASSUME ExecInv, execute.at < Len(execute.buffer), NEW r, Asks(r, Left),
         GivenBack(Walk(DP2WALK(r)))
  PROVE  GivesBack(execute.buffer, execute.at, 0, execute.done, <<>>, execute.vertices)
<1> DEFINE b  == execute.buffer
           at == execute.at
           q  == Left
           w  == DP2WALK(r)
           x  == [h |-> 0, d |-> 0, cur |-> 0, ctx |-> 0, type |-> ProcessedType, m |-> 0,
                  vtx |-> asks.processed[execute.vertices], drawn |-> <<>>, failed |-> FALSE]
           start == Reached(b, at)
           v == WalkedTo(w, q, Len(q))
           y == RanTo(w, x, q, Len(q))
<1>1. /\ Listed(b) /\ at \in Nat /\ at < Len(b) /\ Listed(execute.done)
      /\ start.drawn = Shown(execute.done)
      /\ start.over = FALSE /\ start.vertices = execute.vertices
  BY DEF ExecInv, Placed, Once, Going
<1>2. q = SubSeq(b, at + 1, Len(b)) /\ Listed(q) /\ Len(q) = Len(b) - at
  BY <1>1, LeftIs DEF Left
<1>3. /\ DOMAIN x = Dp2Fields /\ x.failed = FALSE /\ x.type = ProcessedType /\ x.drawn = <<>>
      /\ x.vtx = asks.processed[execute.vertices]
  BY DEF Dp2Fields
<1> HIDE DEF x, w, q
<1>4. Starts(w, x) /\ w.request.stream = q
  <2>1. Asks(r, q) /\ Pass(r, w)
    BY DEF q, w, Pass
  <2>2. Loaded(x)
    BY <1>3 DEF Loaded
  <2> QED
    BY <2>1, <2>2, PassStarts
<1>5. Walk(w) = v
  BY <1>2, <1>4, WalkIs
<1>6. v.bounce = 0
  BY <1>5 DEF GivenBack, w
<1> HIDE DEF b, at
<1>7. /\ Shaped(v, y)
      /\ Meets(v, y, Len(q), start, Reached(b, Len(b)), Reached(b, at + v.bounce + 1),
               b[at + v.bounce + 1])
  BY <1>1, <1>2, <1>3, <1>4, WalkMeets
<1>8. Len(q) \in Nat /\ 0 < Len(q) /\ Len(b) \in Nat
  BY <1>1, <1>2 DEF Listed
<1> HIDE DEF v, y, start
<1>9. v.over # "no"
  <2>1. v.over = "no" => v.bounce = NoBounce
    BY <1>7 DEF Meets
  <2> QED
    BY <1>6, <2>1 DEF NoBounce
<1>10. v.bounce # NoBounce
  BY <1>6 DEF NoBounce
<1>11. at + v.bounce + 1 = at + 1
  BY <1>1, <1>6
<1>12. Runtimes(b[at + 1])
  BY <1>7, <1>9, <1>10, <1>11 DEF Meets
<1>13. Expects(start) /\ Reached(b, at + 1) = Instruction(start, b[at + 1])
  BY <1>1, ReachedExpects, ReachedMore DEF start
<1>14. Done(start, b[at + 1], Reached(b, at + 1))
  BY <1>13, InstructionDoes
<1>15. /\ Reached(b, at + 1).over = FALSE /\ Reached(b, at + 1).drawn = start.drawn
       /\ Reached(b, at + 1).vertices = IF b[at + 1].op = "PROCESSVERTICES" THEN start.vertices + 1
                                        ELSE start.vertices
  BY <1>1, <1>12, <1>14 DEF Done, Runtimes, Consumed, Draws
<1>16. Shown(execute.done) \o Shown(<<>>) = Shown(execute.done)
  <2>1. Shown(<<>>) = <<>>
    BY DEF Shown
  <2>2. Listed(Shown(execute.done))
    BY <1>1, ShownLists
  <2>3. Shown(execute.done) \o <<>> = Shown(execute.done)
    BY <2>2, SeqEmpty, ConcatLists
  <2> QED
    BY <2>1, <2>3
<1>17. at + 0 + 1 = at + 1 /\ at + 0 < Len(b)
  BY <1>1, <1>8
<1>18. GivesBack(b, at, 0, execute.done, <<>>, execute.vertices)
  BY <1>1, <1>15, <1>16, <1>17 DEF GivesBack
<1> QED
  BY <1>18 DEF b, at

(* The second pass, and the executor's run. *)
LEMMA Submitted ==
  ASSUME ExecInv, execute.at < Len(execute.buffer), NEW r, Asks(r, Left), NEW w1,
         NEW w2, w2 = Second(r, w1), NEW x, x = Submit(r, w1, w2)
  PROVE  /\ Listed(x.drawn) /\ x.failed = FALSE
         /\ w2.bounce = NoBounce =>
              Reached(execute.buffer, Len(execute.buffer)).drawn = Shown(execute.done) \o Shown(x.drawn)
         /\ w2.bounce # NoBounce =>
              GivesBack(execute.buffer, execute.at, w2.bounce, execute.done, x.drawn, execute.vertices)
<1> DEFINE b  == execute.buffer
           at == execute.at
           q  == Left
           w  == [DP2WALK(r) EXCEPT !.pass = 2, !.memory = w1.memory]
           x00 == Dp2(r, w1, w2)
           x0 == IF r.type = "none" THEN x00
                 ELSE [SetOn(x00, "format", <<r.type, VertexSize[r.type]>>) EXCEPT !.cur = r.type]
           start == Reached(b, at)
           v == WalkedTo(w, q, Len(q))
           y == RanTo(w, x0, q, Len(q))
<1>1. /\ Listed(b) /\ at \in Nat /\ at < Len(b) /\ Listed(execute.done)
      /\ start.drawn = Shown(execute.done)
      /\ start.over = FALSE /\ start.vertices = execute.vertices
  BY DEF ExecInv, Placed, Once, Going
<1>2. q = SubSeq(b, at + 1, Len(b)) /\ Listed(q) /\ Len(q) = Len(b) - at
  BY <1>1, LeftIs DEF Left
<1>3. /\ DOMAIN x0 = Dp2Fields /\ x0.failed = FALSE /\ x0.type = ProcessedType
      /\ x0.drawn = <<>> /\ (w2.needs_vb => x0.vtx = asks.processed[execute.vertices])
  <2>1. /\ DOMAIN x00 = Dp2Fields /\ x00.failed = FALSE /\ x00.type = ProcessedType
        /\ x00.drawn = <<>> /\ (w2.needs_vb => x00.vtx = asks.processed[execute.vertices])
    BY DEF Dp2Fields, Asks, Dp2
  <2> DEFINE f  == <<r.type, VertexSize[r.type]>>
             x1 == SetOn(x00, "format", f)
  <2> HIDE DEF x00, f
  <2>2. Keeps(x00, x1)
    BY <2>1, SetOnKeeps
  <2> HIDE DEF x1
  <2>3. x0 = x00 \/ x0 = [x1 EXCEPT !.cur = r.type]
    BY DEF x1, f
  <2> QED
    BY <2>1, <2>2, <2>3 DEF Keeps, Dp2Fields
<1>4. x = FoldLeft(Run, x0, w2.out) /\ w2 = Walk(w)
  BY DEF Submit, Second
<1> HIDE DEF x0, w, q
<1>5. Starts(w, x0) /\ w.request.stream = q
  <2>1. Pass(r, w)
    BY DEF w, Pass
  <2>2. Asks(r, q)
    BY DEF q
  <2>3. Loaded(x0)
    BY <1>3 DEF Loaded
  <2> QED
    BY <2>1, <2>2, <2>3, PassStarts
<1>6. w2 = v
  BY <1>2, <1>4, <1>5, WalkIs
<1>7. x = y
  BY <1>4, <1>6 DEF RanTo, All
<1> HIDE DEF b, at
<1>8. /\ Shaped(v, y)
      /\ Meets(v, y, Len(q), start, Reached(b, Len(b)), Reached(b, at + v.bounce + 1),
               b[at + v.bounce + 1])
  BY <1>1, <1>2, <1>3, <1>5, <1>6, WalkMeets
<1>9. Len(q) \in Nat /\ 0 < Len(q) /\ Len(b) \in Nat
  BY <1>1, <1>2 DEF Listed
<1> HIDE DEF v, y
<1>10. Listed(x.drawn) /\ x.failed = FALSE
  BY <1>7, <1>8 DEF Shaped
<1>11. ASSUME w2.bounce = NoBounce
       PROVE  Reached(b, Len(b)).drawn = Shown(execute.done) \o Shown(x.drawn)
  <2>1. CASE v.over = "no"
    <3>1. v.over = "no"
      BY <2>1
    <3> QED
      BY <1>1, <1>7, <1>8, <3>1 DEF Meets
  <2>2. CASE v.over # "no"
    BY <1>1, <1>6, <1>7, <1>8, <1>11, <2>2 DEF Meets
  <2> QED
    BY <2>1, <2>2
<1>12. ASSUME w2.bounce # NoBounce
       PROVE  GivesBack(b, at, w2.bounce, execute.done, x.drawn, execute.vertices)
  <2>1. v.over # "no"
    BY <1>6, <1>8, <1>12 DEF Meets
  <2>2. v.bounce \in Nat /\ v.bounce < Len(q)
    BY <1>6, <1>8, <1>12, <2>1 DEF Meets
  <2>3. at + v.bounce < Len(b)
    BY <1>1, <1>2, <1>9, <2>2
  <2>4. LET f == Reached(b, at + v.bounce + 1) IN
        /\ f.over = FALSE /\ f.drawn = Shown(execute.done) \o Shown(x.drawn)
        /\ f.vertices = IF b[at + v.bounce + 1].op = "PROCESSVERTICES" THEN execute.vertices + 1
                        ELSE execute.vertices
    BY <1>1, <1>6, <1>7, <1>8, <1>12, <2>1 DEF Meets
  <2> QED
    BY <1>6, <2>2, <2>3, <2>4 DEF GivesBack
<1> QED
  BY <1>10, <1>11, <1>12 DEF b, at

(* A request for what is left: the driver gives it back, or both have gone through it. *)
LEMMA ExecuteOnce == ASSUME ExecInv, NEW c \in Contexts, Execute(c) PROVE ExecInv'
<1>1. /\ request = Idle /\ Left # <<>> /\ UNCHANGED <<program, execute>> /\ drawn = <<>>
      /\ Placed /\ Once /\ Going
  BY DEF Execute, Steady, ExecInv, AtRest
<1>2. execute.at < Len(execute.buffer)
  <2> DEFINE b == execute.buffer
  <2>1. Listed(b) /\ execute.at \in Nat /\ execute.at <= Len(b) /\ Len(b) \in Nat
    BY <1>1 DEF Placed, Listed
  <2>2. CASE execute.at = Len(b)
    <3>1. SubSeq(b, Len(b) + 1, Len(b)) = <<>>
      <4>1. Len(b) \in Nat /\ Len(b) < Len(b) + 1
        BY <2>1
      <4> QED
        BY <4>1, SubSeqEmpty
    <3> QED
      BY <1>1, <2>2, <3>1 DEF Left
  <2> QED
    BY <2>1, <2>2
<1>3. PICK r \in [op : {"dp2"}, ctx : {c}, stream : {Left}, type : {ProcessedType},
                  vertices : {asks.processed[execute.vertices]}, eb : {TRUE}] :
        DrawPrimitives2(r)
  BY Zenon DEF Execute
<1>4. Asks(r, Left) /\ request' = r /\ r # Idle
  <2>1. /\ r.stream = Left /\ r.eb = TRUE /\ r.type = ProcessedType
        /\ r.vertices = asks.processed[execute.vertices] /\ r.op = "dp2"
    BY <1>3
  <2>2. r # Idle
    BY <2>1 DEF Idle
  <2> QED
    BY <1>3, <2>1, <2>2 DEF Asks, DrawPrimitives2
<1> DEFINE b    == execute.buffer
           at   == execute.at
           done == execute.done
<1>5. /\ Listed(drawn')
      /\ answer'.ok = TRUE => Reached(b, Len(b)).drawn = Shown(done) \o Shown(drawn')
      /\ answer'.ok # TRUE => GivesBack(b, at, answer'.stop, done, drawn', execute.vertices)
  <2> DEFINE w1 == Walk(DP2WALK(r))
  <2>1. CASE GivenBack(w1)
    <3>1. answer' = [ok |-> FALSE, stop |-> 0] /\ drawn' = drawn
      BY <1>3, <2>1 DEF DrawPrimitives2
    <3>2. GivesBack(b, at, 0, done, <<>>, execute.vertices)
      BY <1>2, <1>4, <2>1, GivenBackAtOnce
    <3>3. Listed(<<>>)
      BY SeqEmpty
    <3> HIDE DEF w1
    <3> QED
      BY <1>1, <3>1, <3>2, <3>3
  <2>2. CASE ~GivenBack(w1)
    <3> DEFINE w2 == Second(r, w1)
               x  == Submit(r, w1, w2)
    <3>1. /\ drawn' = x.drawn
          /\ answer' = IF x.failed \/ w2.bounce = NoBounce THEN [ok |-> ~x.failed, stop |-> 0]
                       ELSE [ok |-> FALSE, stop |-> w2.bounce]
      BY <1>3, <2>2 DEF DrawPrimitives2
    <3>2. /\ Listed(x.drawn) /\ x.failed = FALSE
          /\ w2.bounce = NoBounce => Reached(b, Len(b)).drawn = Shown(done) \o Shown(x.drawn)
          /\ w2.bounce # NoBounce => GivesBack(b, at, w2.bounce, done, x.drawn, execute.vertices)
      BY <1>2, <1>4, Submitted
    <3> HIDE DEF w1, w2, x
    <3>3. CASE w2.bounce = NoBounce
      BY <3>1, <3>2, <3>3
    <3>4. CASE w2.bounce # NoBounce
      BY <3>1, <3>2, <3>4
    <3> QED
      BY <3>3, <3>4
  <2> QED
    BY <2>1, <2>2
<1>6. Begun' = Begun
  BY <1>1, BegunSame
<1>7. Placed'
  BY <1>1 DEF Placed
<1>8. Once'
  <2>1. Reached(execute.buffer, execute.at)' = Reached(execute.buffer, execute.at)
    BY <1>1, <1>6 DEF Reached
  <2> QED
    BY <1>1, <2>1 DEF Once
<1>9. Going'
  <2>1. Reached(execute.buffer, execute.at)' = Reached(execute.buffer, execute.at)
    BY <1>1, <1>6 DEF Reached
  <2> QED
    BY <1>1, <2>1 DEF Going
<1>10. UnderWay'
  <2>1. Reached(execute.buffer, Len(execute.buffer))' = Reached(b, Len(b))
    BY <1>1, <1>6 DEF Reached
  <2>2. Reached(execute.buffer, execute.at + answer.stop + 1)' = Reached(b, at + answer'.stop + 1)
    BY <1>1, <1>6 DEF Reached
  <2>3. GivesBack(execute.buffer, execute.at, answer.stop, execute.done, drawn, execute.vertices)'
          = GivesBack(b, at, answer'.stop, done, drawn', execute.vertices)
    BY <1>1, <2>2 DEF GivesBack
  <2> QED
    BY <1>1, <1>2, <1>5, <2>1, <2>3 DEF UnderWay
<1>11. AtRest'
  BY <1>4 DEF AtRest, Idle
<1> QED
  BY <1>7, <1>8, <1>9, <1>10, <1>11 DEF ExecInv

(* The runtime goes on: behind the whole buffer, or behind the instruction that is its own. *)
LEMMA ProceedOnce == ASSUME ExecInv, Proceed PROVE ExecInv'
<1> DEFINE b    == execute.buffer
           at   == execute.at
           done == execute.done
           n    == answer.stop
<1>1. /\ request # Idle /\ request.eb /\ request' = Idle /\ drawn' = <<>> /\ program' = program
      /\ execute' = IF answer.ok
           THEN [execute EXCEPT !.at = Len(b), !.done = done \o drawn]
           ELSE [execute EXCEPT !.at = at + n + 1, !.done = done \o drawn,
                   !.vertices = IF Left[n + 1].op = "PROCESSVERTICES" THEN @ + 1 ELSE @]
  BY DEF Proceed
<1>2. /\ DOMAIN execute = {"buffer", "at", "vertices", "done"} /\ Listed(b) /\ Listed(done)
      /\ at \in Nat
  BY DEF ExecInv, Placed
<1>3. request.eb = TRUE
  BY <1>1
<1>4. /\ Listed(drawn) /\ at < Len(b)
      /\ answer.ok = TRUE => Reached(b, Len(b)).drawn = Shown(done) \o Shown(drawn)
      /\ answer.ok # TRUE => GivesBack(b, at, n, done, drawn, execute.vertices)
  BY <1>1, <1>3 DEF ExecInv, UnderWay
<1>5. Listed(done \o drawn) /\ Shown(done \o drawn) = Shown(done) \o Shown(drawn)
  BY <1>2, <1>4, ConcatLists, ShownConcat
<1>6. Begun' = Begun
  BY <1>1, BegunSame
<1>7. Len(b) \in Nat
  BY <1>2 DEF Listed
<1>8. UnderWay' /\ AtRest'
  BY <1>1 DEF UnderWay, AtRest
<1>9. CASE answer.ok
  <2>1. /\ execute'.buffer = b /\ execute'.at = Len(b) /\ execute'.done = done \o drawn
        /\ DOMAIN execute' = {"buffer", "at", "vertices", "done"}
    BY <1>1, <1>2, <1>9
  <2>2. Placed'
    BY <1>2, <1>5, <1>7, <2>1 DEF Placed
  <2>3. Reached(execute.buffer, execute.at)' = Reached(b, Len(b))
    BY <1>6, <2>1 DEF Reached
  <2>4. Once'
    BY <1>4, <1>5, <1>9, <2>1, <2>3 DEF Once
  <2>5. Going'
    BY <1>7, <2>1 DEF Going
  <2> QED
    BY <1>8, <2>2, <2>4, <2>5 DEF ExecInv
<1>10. CASE ~answer.ok
  <2> DEFINE f == Reached(b, at + n + 1)
  <2>1. /\ n \in Nat /\ at + n < Len(b) /\ f.over = FALSE /\ f.drawn = Shown(done) \o Shown(drawn)
        /\ f.vertices = IF b[at + n + 1].op = "PROCESSVERTICES" THEN execute.vertices + 1
                        ELSE execute.vertices
    BY <1>4, <1>10 DEF GivesBack
  <2>2. Left[n + 1] = b[at + n + 1]
    <3> DEFINE q == Left
    <3>1. Len(q) = Len(b) - at /\ \A i \in 1..Len(q) : q[i] = b[at + i]
      BY <1>2, <1>4, LeftIs DEF Left
    <3> HIDE DEF q
    <3>2. n + 1 \in 1..Len(q) /\ at + (n + 1) = at + n + 1
      BY <1>2, <1>7, <2>1, <3>1
    <3>3. q[n + 1] = b[at + n + 1]
      BY <3>1, <3>2
    <3> QED
      BY <3>3 DEF q
  <2>3. /\ execute'.buffer = b /\ execute'.at = at + n + 1 /\ execute'.done = done \o drawn
        /\ execute'.vertices = IF b[at + n + 1].op = "PROCESSVERTICES" THEN execute.vertices + 1
                               ELSE execute.vertices
        /\ DOMAIN execute' = {"buffer", "at", "vertices", "done"}
    BY <1>1, <1>2, <1>10, <2>2
  <2>4. at + n + 1 \in Nat /\ at + n + 1 <= Len(b)
    BY <1>2, <1>7, <2>1
  <2>5. Placed'
    BY <1>2, <1>5, <2>3, <2>4 DEF Placed
  <2>6. Reached(execute.buffer, execute.at)' = f
    BY <1>6, <2>3 DEF Reached
  <2>7. Once'
    BY <1>5, <2>1, <2>3, <2>6 DEF Once
  <2>8. Going'
    BY <2>1, <2>3, <2>6 DEF Going
  <2> QED
    BY <1>8, <2>5, <2>7, <2>8 DEF ExecInv
<1> QED
  BY <1>9, <1>10

LEMMA NextOnce == ASSUME ExecInv, [Next]_vars PROVE ExecInv'
<1>1. CASE UNCHANGED vars
  BY <1>1 DEF vars, ExecInv, Placed, Once, Going, UnderWay, AtRest, GivesBack, Reached, Begun,
              ProcessedType, asks
<1>2. ASSUME NEW c \in Contexts, CreateContext(c) \/ DestroyContext(c) PROVE ExecInv'
  <2>1. request = Idle /\ UNCHANGED <<program, execute, request, drawn>>
    BY <1>2 DEF CreateContext, DestroyContext, Quiet, Steady
  <2> QED
    BY <2>1, OtherSteps DEF ExecInv, AtRest
<1>3. ASSUME NEW c \in Contexts, Stream(c) PROVE ExecInv'
  <2>1. PICK r \in [op : {"dp2"}, ctx : {c}, stream : asks.streams, type : Current(c),
                    vertices : asks.vertices, eb : {FALSE}] : DrawPrimitives2(r)
    BY <1>3, Zenon DEF Stream
  <2>2. request' = r /\ r.eb = FALSE /\ r.op = "dp2"
    BY <2>1 DEF DrawPrimitives2
  <2>3. r # Idle
    BY <2>2 DEF Idle
  <2>4. UNCHANGED <<program, execute>>
    BY <1>3 DEF Stream, Steady
  <2> QED
    BY <2>2, <2>3, <2>4, OtherSteps
<1>4. ASSUME NEW c \in Contexts, Execute(c) PROVE ExecInv'
  BY <1>4, ExecuteOnce
<1>5. ASSUME NEW d \in Buffers, NEW cells, WriteBuffer(d, cells) PROVE ExecInv'
  <2>1. request = Idle /\ UNCHANGED <<program, execute, request, drawn>>
    BY <1>5 DEF WriteBuffer, Quiet, Steady
  <2> QED
    BY <2>1, OtherSteps DEF ExecInv, AtRest
<1>6. ASSUME NEW t, NEW v, Unlock(t, v) \/ SetColorKey(t, v) \/ Move(t) PROVE ExecInv'
  <2>1. request = Idle /\ UNCHANGED <<program, execute, request, drawn>>
    BY <1>6 DEF Unlock, SetColorKey, Move, Quiet, Steady
  <2> QED
    BY <2>1, OtherSteps DEF ExecInv, AtRest
<1>7. CASE Return
  <2>1. request' = Idle /\ drawn' = <<>> /\ UNCHANGED <<program, execute>>
    BY <1>7 DEF Return, Steady
  <2> QED
    BY <2>1, OtherSteps
<1>8. CASE Proceed
  BY <1>8, ProceedOnce
<1> QED
  BY <1>1, <1>2, <1>3, <1>4, <1>5, <1>6, <1>7, <1>8, Zenon DEF Next

LEMMA OnceIs == ExecInv => InstructionsOnce
  BY DEF ExecInv, Once, InstructionsOnce, Reached, All, Shown

(* Whatever an execute buffer holds, however long it is and wherever the driver gives it back, the *)
(* draws before the place the runtime is at were all done, once, in order, and out of the vertices *)
(* that were processed last before each of them (walk of d3dptdisp.c, D3dDrawPrimitives2's offset, *)
(* Dp2::run).                                                                                      *)
THEOREM EachInstructionOnce == Spec => []InstructionsOnce
<1>1. Init => ExecInv
  BY InitOnce
<1>2. ExecInv /\ [Next]_vars => ExecInv'
  BY NextOnce
<1>3. ExecInv => InstructionsOnce
  BY OnceIs
<1> QED
  BY <1>1, <1>2, <1>3, PTL DEF Spec
=============================================================================
