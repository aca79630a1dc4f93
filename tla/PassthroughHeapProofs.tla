------------------------ MODULE PassthroughHeapProofs ------------------------
(***************************************************************************)
(* Lemmas about the operations Passthrough's calls are made of, for every  *)
(* number of handles, length of a batch and set of programs.               *)
(*                                                                         *)
(* Folds: induction on the length of a sequence (EveryNumber, from the     *)
(* well-foundedness of <) gives what FoldLeft does with a concatenation,   *)
(* so that a record can be thought of as run when a call says it.  Told    *)
(* is what the host will be like when the window has been run; Sound says  *)
(* that no batch of it is refused.                                         *)
(*                                                                         *)
(* Heaps: HeapOK gives the shape of the objects (which kinds own, cache    *)
(* and bind which) and Balance the counts: an object counts the links to   *)
(* it, less those an operation has taken out (X), and the references from  *)
(* outside (e).  Counting is by cardinality of the links; Rebalance says   *)
(* what one link that leads elsewhere does to all counts.                  *)
(*                                                                         *)
(* Worlds: View relates a device to what the host will know of it.  The    *)
(* second half of the module shows that the Release methods, however they  *)
(* cascade, use up one reference and keep HeapOK and View, or leave no     *)
(* device (DropDrops), and that AddRef adds one.                           *)
(***************************************************************************)
EXTENDS Passthrough, WellFoundedInduction, FiniteSetTheorems, SequenceTheorems, TLAPS

-----------------------------------------------------------------------------
(* Folds *)

(* What holds of 0, and of n + 1 when it holds of n, holds of every number. *)
LEMMA EveryNumber ==
  ASSUME NEW S, 0 \in S, \A n \in Nat : n \in S => n + 1 \in S
  PROVE  \A n \in Nat : n \in S
<1> DEFINE Out == Nat \ S
<1> SUFFICES ASSUME Out # {} PROVE FALSE
  OBVIOUS
<1>1. PICK n \in Out : \A m \in Out : ~(<<m, n>> \in OpToRel(<, Nat))
  BY WFMin, NatLessThanWellFounded, Zenon
<1>2. \A m \in Out : ~(m < n)
  BY <1>1, Zenon DEF OpToRel
<1>3. n # 0 /\ n \in Nat
  OBVIOUS
<1>4. n - 1 \in Nat /\ n - 1 < n /\ (n - 1) + 1 = n
  BY <1>3
<1>5. n - 1 \notin Out
  BY <1>2, <1>4
<1> QED
  BY <1>4, <1>5

(* The last of some places up to n. *)
LEMMA LastOfSome ==
  ASSUME NEW n \in Nat, NEW S \in SUBSET (1..n), S # {}
  PROVE  Max(S) \in S /\ \A i \in S : i <= Max(S)
<1> DEFINE T == {n - i : i \in S}
<1>0. \A i \in S : i \in Nat /\ n - i \in Nat
  OBVIOUS
<1>1. T \subseteq Nat /\ T # {}
  BY <1>0, Zenon
<1>2. PICK x \in T : \A y \in T : ~(<<y, x>> \in OpToRel(<, Nat))
  BY <1>1, WFMin, NatLessThanWellFounded, Zenon
<1>3. \A y \in T : ~(y < x)
  BY <1>1, <1>2, Zenon DEF OpToRel
<1>4. PICK m \in S : x = n - m
  OBVIOUS
<1>5. ASSUME NEW i \in S PROVE m >= i
  <2>1. n - i \in T
    OBVIOUS
  <2>2. ~(n - i < x) /\ i \in Int /\ m \in Int
    BY <1>3, <2>1
  <2> QED
    BY <2>2, <1>4
<1>6. \E k \in S : \A i \in S : k >= i
  BY <1>5, Zenon
<1>7. Max(S) \in S /\ \A i \in S : Max(S) >= i
  BY <1>6, Zenon DEF Max
<1>8. \A i \in S : i \in Int
  OBVIOUS
<1> QED
  BY <1>7, <1>8

LEMMA LastIs ==
  ASSUME NEW n \in Nat, NEW S \in SUBSET (1..n + 1), n + 1 \in S
  PROVE  Max(S) = n + 1
<1>1. n + 1 \in Nat /\ S # {}
  OBVIOUS
<1>2. Max(S) \in S /\ n + 1 <= Max(S)
  BY <1>1, LastOfSome, Zenon
<1>3. \A i \in S : i \in Int /\ i <= n + 1
  OBVIOUS
<1>4. Max(S) \in Int /\ Max(S) <= n + 1
  BY <1>2, <1>3, Zenon
<1> QED
  BY <1>2, <1>4

Listed(q) == Len(q) \in Nat /\ q = [i \in 1..Len(q) |-> q[i]]

LEMMA SeqAppend ==
  ASSUME NEW q, Listed(q), NEW r
  PROVE  /\ Listed(Append(q, r)) /\ Len(Append(q, r)) = Len(q) + 1
         /\ DOMAIN q = 1..Len(q) /\ DOMAIN Append(q, r) = 1..Len(q) + 1
         /\ Append(q, r)[Len(q) + 1] = r /\ \A i \in 1..Len(q) : Append(q, r)[i] = q[i]
         /\ Append(q, r) # <<>>
<1> DEFINE S == {q[i] : i \in 1..Len(q)} \cup {r}
<1>1. q \in Seq(S) /\ r \in S
  BY DEF Listed
<1> HIDE DEF S
<1>2. /\ Append(q, r) \in Seq(S) /\ Len(Append(q, r)) = Len(q) + 1
      /\ DOMAIN q = 1..Len(q) /\ DOMAIN Append(q, r) = 1..Len(q) + 1
      /\ Append(q, r)[Len(q) + 1] = r /\ \A i \in 1..Len(q) : Append(q, r)[i] = q[i]
  BY <1>1
<1>3. Append(q, r) \in [1..Len(Append(q, r)) -> S]
  BY <1>2, LenProperties, Zenon
<1>4. Append(q, r) = [i \in 1..Len(q) + 1 |-> Append(q, r)[i]]
  BY <1>2, <1>3, Zenon
<1>5. Listed(Append(q, r))
  BY <1>2, <1>4 DEF Listed
<1> QED
  BY <1>2, <1>5 DEF Listed

LEMMA SeqEmpty == Listed(<<>>) /\ Len(<<>>) = 0
  BY DEF Listed

RunAll(x, q) == FoldLeft(RunRecord, x, q)

RunFun(f, x, q, n) ==
  f = [s \in SUBSET (1..n) |-> IF s = {} THEN x ELSE RunRecord(f[s \ {Max(s)}], q[Max(s)])]

LEMMA RunFunExists ==
  ASSUME NEW x, NEW q
  PROVE  \A n \in Nat : \E f : RunFun(f, x, q, n)
<1> DEFINE S == {n \in Nat : \E f : RunFun(f, x, q, n)}
<1>1. 0 \in S
  <2> DEFINE f == [s \in {{}} |-> x]
  <2>1. SUBSET (1..0) = {{}}
    OBVIOUS
  <2>2. RunFun(f, x, q, 0)
    BY <2>1 DEF RunFun
  <2> QED
    BY <2>2
<1>2. ASSUME NEW n \in Nat, n \in S PROVE n + 1 \in S
  <2>1. PICK f : RunFun(f, x, q, n)
    BY <1>2
  <2> DEFINE g == [s \in SUBSET (1..n + 1) |->
                     IF n + 1 \in s THEN RunRecord(f[s \ {n + 1}], q[n + 1]) ELSE f[s]]
             V(s) == IF s = {} THEN x ELSE RunRecord(g[s \ {Max(s)}], q[Max(s)])
  <2>2. ASSUME NEW s \in SUBSET (1..n + 1) PROVE g[s] = V(s)
    <3>1. CASE n + 1 \in s
      <4>1. Max(s) = n + 1
        BY <3>1, LastIs
      <4>2. s \ {n + 1} \in SUBSET (1..n + 1) /\ n + 1 \notin s \ {n + 1}
        OBVIOUS
      <4>3. g[s \ {n + 1}] = f[s \ {n + 1}]
        BY <4>2
      <4> QED
        BY <3>1, <4>1, <4>3
    <3>2. CASE n + 1 \notin s
      <4>1. s \in SUBSET (1..n)
        BY <3>2
      <4>2. g[s] = f[s]
        BY <3>2
      <4>3. CASE s = {}
        BY <2>1, <4>1, <4>2, <4>3 DEF RunFun
      <4>4. CASE s # {}
        <5>0. s \ {Max(s)} \subseteq s
          OBVIOUS
        <5>1. s \ {Max(s)} \in SUBSET (1..n + 1) /\ n + 1 \notin s \ {Max(s)}
          BY <3>2, <5>0, Zenon
        <5>2. g[s \ {Max(s)}] = f[s \ {Max(s)}]
          BY <5>1
        <5>3. f[s] = RunRecord(f[s \ {Max(s)}], q[Max(s)])
          BY <2>1, <4>1, <4>4, Zenon DEF RunFun
        <5> QED
          BY <4>2, <4>4, <5>2, <5>3, Zenon
      <4> QED
        BY <4>3, <4>4
    <3> QED
      BY <3>1, <3>2
  <2>3. g = [s \in SUBSET (1..n + 1) |-> V(s)]
    <3>1. g = [s \in SUBSET (1..n + 1) |-> g[s]]
      OBVIOUS
    <3> HIDE DEF g, V
    <3> QED
      BY <3>1, <2>2, Zenon
  <2>4. RunFun(g, x, q, n + 1)
    BY <2>3, Zenon DEF RunFun
  <2> HIDE DEF g
  <2> QED
    BY <2>4
<1> HIDE DEF S
<1>3. \A n \in Nat : n \in S
  BY <1>1, <1>2, EveryNumber
<1> QED
  BY <1>3 DEF S

(* The fold is one of those functions, over all of the sequence. *)
LEMMA RunAllIs ==
  ASSUME NEW x, NEW q, Listed(q)
  PROVE  \E f : RunFun(f, x, q, Len(q)) /\ RunAll(x, q) = f[1..Len(q)]
<1>1. DOMAIN q = 1..Len(q) /\ Len(q) \in Nat
  BY DEF Listed
<1> DEFINE Is(f) == f = [s \in SUBSET (DOMAIN q) |->
                           IF s = {} THEN x ELSE RunRecord(f[s \ {Max(s)}], q[Max(s)])]
<1>2. RunAll(x, q) = (CHOOSE f : Is(f))[DOMAIN q]
  BY DEF RunAll, FoldLeft, MapThenFoldSet
<1>3. \E f : RunFun(f, x, q, Len(q))
  BY <1>1, RunFunExists
<1>4. \A f : Is(f) <=> RunFun(f, x, q, Len(q))
  BY <1>1 DEF RunFun
<1>5. \E f : Is(f)
  BY <1>3, <1>4, Zenon
<1> HIDE DEF Is
<1>6. Is(CHOOSE f : Is(f))
  BY <1>5
<1> QED
  BY <1>1, <1>2, <1>4, <1>6, Zenon

(* Nothing is done with no record; with one more, the last one comes after all the others. *)
LEMMA RunAllNone ==
  ASSUME NEW x
  PROVE  RunAll(x, <<>>) = x
<1>1. PICK f : RunFun(f, x, <<>>, 0) /\ RunAll(x, <<>>) = f[1..0]
  BY SeqEmpty, RunAllIs
<1>2. 1..0 = {} /\ {} \in SUBSET (1..0)
  OBVIOUS
<1> QED
  BY <1>1, <1>2 DEF RunFun

LEMMA RunAllMore ==
  ASSUME NEW x, NEW q, Listed(q), NEW r
  PROVE  RunAll(x, Append(q, r)) = RunRecord(RunAll(x, q), r)
<1> DEFINE n == Len(q)
           p == Append(q, r)
<1>1. /\ Listed(p) /\ Len(p) = n + 1 /\ n \in Nat
      /\ p[n + 1] = r /\ \A i \in 1..n : p[i] = q[i]
  BY SeqAppend DEF Listed
<1>2. PICK f : RunFun(f, x, q, n) /\ RunAll(x, q) = f[1..n]
  BY RunAllIs
<1>3. PICK g : RunFun(g, x, p, n + 1) /\ RunAll(x, p) = g[1..n + 1]
  BY <1>1, RunAllIs, Zenon
<1> HIDE DEF n, p
<1>4. ASSUME NEW k \in Nat
      PROVE  /\ (1..k + 1) \ {Max(1..k + 1)} = 1..k /\ Max(1..k + 1) = k + 1
             /\ 1..k + 1 # {}
  <2>1. Max(1..k + 1) = k + 1
    BY LastIs
  <2> QED
    BY <2>1
<1>5. ASSUME NEW k \in Nat, k <= n
      PROVE  g[1..k + 1] = RunRecord(g[1..k], p[k + 1])
  <2>1. 1..k + 1 \in SUBSET (1..n + 1)
    BY <1>1, <1>5
  <2>2. \A s \in SUBSET (1..n + 1) : s # {} => g[s] = RunRecord(g[s \ {Max(s)}], p[Max(s)])
    BY <1>3, Zenon DEF RunFun
  <2>3. g[1..k + 1] = RunRecord(g[(1..k + 1) \ {Max(1..k + 1)}], p[Max(1..k + 1)])
    BY <1>4, <2>1, <2>2, Zenon
  <2> QED
    BY <1>4, <2>3, Zenon
<1>6. ASSUME NEW k \in Nat, k + 1 <= n
      PROVE  f[1..k + 1] = RunRecord(f[1..k], q[k + 1])
  <2>1. 1..k + 1 \in SUBSET (1..n)
    BY <1>1, <1>6
  <2>2. \A s \in SUBSET (1..n) : s # {} => f[s] = RunRecord(f[s \ {Max(s)}], q[Max(s)])
    BY <1>2, Zenon DEF RunFun
  <2>3. f[1..k + 1] = RunRecord(f[(1..k + 1) \ {Max(1..k + 1)}], q[Max(1..k + 1)])
    BY <1>4, <2>1, <2>2, Zenon
  <2> QED
    BY <1>4, <2>3, Zenon
<1> DEFINE S == {k \in Nat : k <= n => f[1..k] = g[1..k]}
<1>7. 0 \in S
  <2>1. 1..0 = {} /\ {} \in SUBSET (1..n) /\ {} \in SUBSET (1..n + 1)
    OBVIOUS
  <2> QED
    BY <1>2, <1>3, <2>1 DEF RunFun
<1>8. ASSUME NEW k \in Nat, k \in S PROVE k + 1 \in S
  <2> SUFFICES ASSUME k + 1 <= n PROVE f[1..k + 1] = g[1..k + 1]
    OBVIOUS
  <2>1. k <= n /\ k + 1 \in 1..n
    BY <1>1
  <2>2. q[k + 1] = p[k + 1] /\ f[1..k] = g[1..k]
    BY <1>1, <1>8, <2>1
  <2>3. g[1..k + 1] = RunRecord(g[1..k], p[k + 1])
    BY <1>5, <2>1
  <2>4. f[1..k + 1] = RunRecord(f[1..k], q[k + 1])
    BY <1>6
  <2> QED
    BY <2>2, <2>3, <2>4
<1> HIDE DEF S
<1>9. \A k \in Nat : k \in S
  BY <1>7, <1>8, EveryNumber
<1>10. n \in S
  BY <1>1, <1>9
<1>11. f[1..n] = g[1..n]
  BY <1>1, <1>10 DEF S
<1>12. g[1..n + 1] = RunRecord(g[1..n], p[n + 1])
  BY <1>1, <1>5
<1>13. RunAll(x, p) = RunRecord(RunAll(x, q), r)
  BY <1>1, <1>2, <1>3, <1>11, <1>12
<1> QED
  BY <1>13 DEF p

SendAll(x, q) == FoldLeft(Record, x, q)

SendFun(f, x, q, n) ==
  f = [s \in SUBSET (1..n) |-> IF s = {} THEN x ELSE Record(f[s \ {Max(s)}], q[Max(s)])]

LEMMA SendFunExists ==
  ASSUME NEW x, NEW q
  PROVE  \A n \in Nat : \E f : SendFun(f, x, q, n)
<1> DEFINE S == {n \in Nat : \E f : SendFun(f, x, q, n)}
<1>1. 0 \in S
  <2> DEFINE f == [s \in {{}} |-> x]
  <2>1. SUBSET (1..0) = {{}}
    OBVIOUS
  <2>2. SendFun(f, x, q, 0)
    BY <2>1 DEF SendFun
  <2> QED
    BY <2>2
<1>2. ASSUME NEW n \in Nat, n \in S PROVE n + 1 \in S
  <2>1. PICK f : SendFun(f, x, q, n)
    BY <1>2
  <2> DEFINE g == [s \in SUBSET (1..n + 1) |->
                     IF n + 1 \in s THEN Record(f[s \ {n + 1}], q[n + 1]) ELSE f[s]]
             V(s) == IF s = {} THEN x ELSE Record(g[s \ {Max(s)}], q[Max(s)])
  <2>2. ASSUME NEW s \in SUBSET (1..n + 1) PROVE g[s] = V(s)
    <3>1. CASE n + 1 \in s
      <4>1. Max(s) = n + 1
        BY <3>1, LastIs
      <4>2. s \ {n + 1} \in SUBSET (1..n + 1) /\ n + 1 \notin s \ {n + 1}
        OBVIOUS
      <4>3. g[s \ {n + 1}] = f[s \ {n + 1}]
        BY <4>2
      <4> QED
        BY <3>1, <4>1, <4>3
    <3>2. CASE n + 1 \notin s
      <4>1. s \in SUBSET (1..n)
        BY <3>2
      <4>2. g[s] = f[s]
        BY <3>2
      <4>3. CASE s = {}
        BY <2>1, <4>1, <4>2, <4>3 DEF SendFun
      <4>4. CASE s # {}
        <5>0. s \ {Max(s)} \subseteq s
          OBVIOUS
        <5>1. s \ {Max(s)} \in SUBSET (1..n + 1) /\ n + 1 \notin s \ {Max(s)}
          BY <3>2, <5>0, Zenon
        <5>2. g[s \ {Max(s)}] = f[s \ {Max(s)}]
          BY <5>1
        <5>3. f[s] = Record(f[s \ {Max(s)}], q[Max(s)])
          BY <2>1, <4>1, <4>4, Zenon DEF SendFun
        <5> QED
          BY <4>2, <4>4, <5>2, <5>3, Zenon
      <4> QED
        BY <4>3, <4>4
    <3> QED
      BY <3>1, <3>2
  <2>3. g = [s \in SUBSET (1..n + 1) |-> V(s)]
    <3>1. g = [s \in SUBSET (1..n + 1) |-> g[s]]
      OBVIOUS
    <3> HIDE DEF g, V
    <3> QED
      BY <3>1, <2>2, Zenon
  <2>4. SendFun(g, x, q, n + 1)
    BY <2>3, Zenon DEF SendFun
  <2> HIDE DEF g
  <2> QED
    BY <2>4
<1> HIDE DEF S
<1>3. \A n \in Nat : n \in S
  BY <1>1, <1>2, EveryNumber
<1> QED
  BY <1>3 DEF S

(* The fold is one of those functions, over all of the sequence. *)
LEMMA SendAllIs ==
  ASSUME NEW x, NEW q, Listed(q)
  PROVE  \E f : SendFun(f, x, q, Len(q)) /\ SendAll(x, q) = f[1..Len(q)]
<1>1. DOMAIN q = 1..Len(q) /\ Len(q) \in Nat
  BY DEF Listed
<1> DEFINE Is(f) == f = [s \in SUBSET (DOMAIN q) |->
                           IF s = {} THEN x ELSE Record(f[s \ {Max(s)}], q[Max(s)])]
<1>2. SendAll(x, q) = (CHOOSE f : Is(f))[DOMAIN q]
  BY DEF SendAll, FoldLeft, MapThenFoldSet
<1>3. \E f : SendFun(f, x, q, Len(q))
  BY <1>1, SendFunExists
<1>4. \A f : Is(f) <=> SendFun(f, x, q, Len(q))
  BY <1>1 DEF SendFun
<1>5. \E f : Is(f)
  BY <1>3, <1>4, Zenon
<1> HIDE DEF Is
<1>6. Is(CHOOSE f : Is(f))
  BY <1>5
<1> QED
  BY <1>1, <1>2, <1>4, <1>6, Zenon

(* Nothing is done with no record; with one more, the last one comes after all the others. *)
LEMMA SendAllNone ==
  ASSUME NEW x
  PROVE  SendAll(x, <<>>) = x
<1>1. PICK f : SendFun(f, x, <<>>, 0) /\ SendAll(x, <<>>) = f[1..0]
  BY SeqEmpty, SendAllIs
<1>2. 1..0 = {} /\ {} \in SUBSET (1..0)
  OBVIOUS
<1> QED
  BY <1>1, <1>2 DEF SendFun

LEMMA SendAllMore ==
  ASSUME NEW x, NEW q, Listed(q), NEW r
  PROVE  SendAll(x, Append(q, r)) = Record(SendAll(x, q), r)
<1> DEFINE n == Len(q)
           p == Append(q, r)
<1>1. /\ Listed(p) /\ Len(p) = n + 1 /\ n \in Nat
      /\ p[n + 1] = r /\ \A i \in 1..n : p[i] = q[i]
  BY SeqAppend DEF Listed
<1>2. PICK f : SendFun(f, x, q, n) /\ SendAll(x, q) = f[1..n]
  BY SendAllIs
<1>3. PICK g : SendFun(g, x, p, n + 1) /\ SendAll(x, p) = g[1..n + 1]
  BY <1>1, SendAllIs, Zenon
<1> HIDE DEF n, p
<1>4. ASSUME NEW k \in Nat
      PROVE  /\ (1..k + 1) \ {Max(1..k + 1)} = 1..k /\ Max(1..k + 1) = k + 1
             /\ 1..k + 1 # {}
  <2>1. Max(1..k + 1) = k + 1
    BY LastIs
  <2> QED
    BY <2>1
<1>5. ASSUME NEW k \in Nat, k <= n
      PROVE  g[1..k + 1] = Record(g[1..k], p[k + 1])
  <2>1. 1..k + 1 \in SUBSET (1..n + 1)
    BY <1>1, <1>5
  <2>2. \A s \in SUBSET (1..n + 1) : s # {} => g[s] = Record(g[s \ {Max(s)}], p[Max(s)])
    BY <1>3, Zenon DEF SendFun
  <2>3. g[1..k + 1] = Record(g[(1..k + 1) \ {Max(1..k + 1)}], p[Max(1..k + 1)])
    BY <1>4, <2>1, <2>2, Zenon
  <2> QED
    BY <1>4, <2>3, Zenon
<1>6. ASSUME NEW k \in Nat, k + 1 <= n
      PROVE  f[1..k + 1] = Record(f[1..k], q[k + 1])
  <2>1. 1..k + 1 \in SUBSET (1..n)
    BY <1>1, <1>6
  <2>2. \A s \in SUBSET (1..n) : s # {} => f[s] = Record(f[s \ {Max(s)}], q[Max(s)])
    BY <1>2, Zenon DEF SendFun
  <2>3. f[1..k + 1] = Record(f[(1..k + 1) \ {Max(1..k + 1)}], q[Max(1..k + 1)])
    BY <1>4, <2>1, <2>2, Zenon
  <2> QED
    BY <1>4, <2>3, Zenon
<1> DEFINE S == {k \in Nat : k <= n => f[1..k] = g[1..k]}
<1>7. 0 \in S
  <2>1. 1..0 = {} /\ {} \in SUBSET (1..n) /\ {} \in SUBSET (1..n + 1)
    OBVIOUS
  <2> QED
    BY <1>2, <1>3, <2>1 DEF SendFun
<1>8. ASSUME NEW k \in Nat, k \in S PROVE k + 1 \in S
  <2> SUFFICES ASSUME k + 1 <= n PROVE f[1..k + 1] = g[1..k + 1]
    OBVIOUS
  <2>1. k <= n /\ k + 1 \in 1..n
    BY <1>1
  <2>2. q[k + 1] = p[k + 1] /\ f[1..k] = g[1..k]
    BY <1>1, <1>8, <2>1
  <2>3. g[1..k + 1] = Record(g[1..k], p[k + 1])
    BY <1>5, <2>1
  <2>4. f[1..k + 1] = Record(f[1..k], q[k + 1])
    BY <1>6
  <2> QED
    BY <2>2, <2>3, <2>4
<1> HIDE DEF S
<1>9. \A k \in Nat : k \in S
  BY <1>7, <1>8, EveryNumber
<1>10. n \in S
  BY <1>1, <1>9
<1>11. f[1..n] = g[1..n]
  BY <1>1, <1>10 DEF S
<1>12. g[1..n + 1] = Record(g[1..n], p[n + 1])
  BY <1>1, <1>5
<1>13. SendAll(x, p) = Record(SendAll(x, q), r)
  BY <1>1, <1>2, <1>3, <1>11, <1>12
<1> QED
  BY <1>13 DEF p

-----------------------------------------------------------------------------
(* The window *)

(* All that the window looks at of a world. *)
Encoder(w) == [pending |-> w.pending, status |-> w.status, host |-> w.host, refused |-> w.refused]

(* What the executor works on, what the window keeps, and what the calls   *)
(* of a world say to them: Told is what the host will be like once the     *)
(* records in the window, and those that are still to go there, are run.   *)
IsExec(x) == x = [f \in {"status", "host", "refused"} |-> x[f]]

IsEncoder(x) ==
  x = [f \in {"pending", "status", "host", "refused"} |-> x[f]] /\ Listed(x.pending) /\ Len(x.pending) <= BatchLen

Seen(x)    == RunAll(Exec(x), x.pending)
Told(x, C) == Seen(SendAll(x, C))

Telling(x, C) ==
  Listed(C) /\ IsEncoder(SendAll(x, C)) /\ IsExec(Told(x, C)) /\ Told(x, C).status = TRUE

LEMMA RunKeepsExec ==
  ASSUME NEW x, IsExec(x), NEW r
  PROVE  IsExec(RunRecord(x, r))
<1>0. \A h : IsExec([x EXCEPT !.host = h])
  BY DEF IsExec
<1>1. IsExec(Refuse(x)) /\ \A h : IsExec([x EXCEPT !.host = h])
  BY Zenon DEF IsExec, Refuse
<1>2. \A s : IsExec([x EXCEPT !.host.bound[s] = r.h]) /\ IsExec([x EXCEPT !.host = HostBind(@, r.slot, r.h)])
            /\ IsExec([x EXCEPT !.host = HostSet(@, r.part, r.v)])
            /\ IsExec([x EXCEPT !.host.apart = Left(x.host)])
  BY <1>0 DEF IsExec
<1>3. IsExec(Put(x, r.h)) /\ IsExec([x EXCEPT !.host.objs = @ \ {r.h}])
  BY <1>1, Zenon DEF IsExec, Put
<1>4. IsExec(RunCreateDevice(x, r)) /\ IsExec(RunReset(x, r)) /\ IsExec(RunRelease(x, r))
  BY <1>1, <1>3 DEF RunCreateDevice, RunReset, RunRelease
<1>5. IsExec(RunBind(x, r)) /\ IsExec(RunValue(x, r)) /\ IsExec(RunCreate(x, r))
  BY <1>1, <1>2, <1>3, Zenon DEF RunBind, RunValue, RunCreate
<1>6. IsExec(RunGetSurface(x, r)) /\ IsExec(RunDraw(x, r)) /\ IsExec(RunUpdate(x, r))
      /\ IsExec(RunQuery(x, r)) /\ IsExec(RunSurface(x, r))
  BY <1>1, <1>3 DEF RunGetSurface, RunDraw, RunUpdate, RunQuery, RunSurface
<1> QED
  BY <1>1, <1>4, <1>5, <1>6 DEF RunRecord

LEMMA RunAllKeepsExec ==
  ASSUME NEW x, IsExec(x)
  PROVE  \A q : Listed(q) => IsExec(RunAll(x, q))
<1> DEFINE S == {n \in Nat : \A q : Listed(q) /\ Len(q) = n => IsExec(RunAll(x, q))}
<1>1. 0 \in S
  <2> SUFFICES ASSUME NEW q, Listed(q), Len(q) = 0 PROVE IsExec(RunAll(x, q))
    OBVIOUS
  <2>1. q = <<>>
    BY DEF Listed
  <2> QED
    BY <2>1, RunAllNone
<1>2. ASSUME NEW n \in Nat, n \in S PROVE n + 1 \in S
  <2> SUFFICES ASSUME NEW q, Listed(q), Len(q) = n + 1 PROVE IsExec(RunAll(x, q))
    OBVIOUS
  <2> DEFINE p == [i \in 1..n |-> q[i]]
  <2>1. Listed(p) /\ Len(p) = n
    BY DEF Listed
  <2>2. q = Append(p, q[n + 1])
    <3>1. /\ Listed(Append(p, q[n + 1])) /\ Len(Append(p, q[n + 1])) = n + 1
          /\ Append(p, q[n + 1])[n + 1] = q[n + 1]
          /\ \A i \in 1..n : Append(p, q[n + 1])[i] = p[i]
      BY <2>1, SeqAppend
    <3>2. \A i \in 1..n : p[i] = q[i]
      OBVIOUS
    <3> HIDE DEF p
    <3>3. \A i \in 1..n + 1 : Append(p, q[n + 1])[i] = q[i]
      BY <3>1, <3>2
    <3> QED
      BY <3>1, <3>3 DEF Listed
  <2>3. IsExec(RunAll(x, p))
    BY <1>2, <2>1
  <2> HIDE DEF p
  <2>4. RunAll(x, Append(p, q[n + 1])) = RunRecord(RunAll(x, p), q[n + 1])
    BY <2>1, RunAllMore
  <2> QED
    BY <2>2, <2>3, <2>4, RunKeepsExec, Zenon
<1> HIDE DEF S
<1>3. \A n \in Nat : n \in S
  BY <1>1, <1>2, EveryNumber
<1> SUFFICES ASSUME NEW q, Listed(q) PROVE IsExec(RunAll(x, q))
  OBVIOUS
<1>4. Len(q) \in S
  BY <1>3 DEF Listed
<1> QED
  BY <1>4 DEF S

LEMMA SeenIsExec ==
  ASSUME NEW x, IsEncoder(x)
  PROVE  IsExec(Seen(x))
<1>1. IsExec(Exec(x))
  BY DEF IsExec, Exec
<1> QED
  BY <1>1, RunAllKeepsExec DEF Seen, IsEncoder

(* A doorbell changes nothing of what the host will be like. *)
LEMMA FlushSeen ==
  ASSUME NEW x, IsEncoder(x), Seen(x).status = TRUE
  PROVE  /\ IsEncoder(Flush(x)) /\ Flush(x).pending = <<>> /\ Seen(Flush(x)) = Seen(x)
         /\ Flush(x).host = Seen(x).host /\ Flush(x).refused = Seen(x).refused
         /\ x.pending # <<>> => Flush(x).status = TRUE
<1>0. 0 <= BatchLen /\ BatchLen \in Nat
  BY BoundAssumption
<1>1. IsExec(Seen(x))
  BY SeenIsExec
<1>2. CASE x.pending = <<>>
  <2>1. Seen(x) = Exec(x)
    BY <1>2, RunAllNone DEF Seen
  <2> QED
    BY <1>2, <2>1 DEF Flush, Exec
<1>3. CASE x.pending # <<>>
  <2> DEFINE y == [pending |-> <<>>, status |-> Seen(x).status, host |-> Seen(x).host,
                   refused |-> Seen(x).refused]
  <2>1. Flush(x) = y
    <3>1. /\ x = [pending |-> x.pending, status |-> x.status, host |-> x.host, refused |-> x.refused]
          /\ Flush(x) = [[x EXCEPT !.status = Seen(x).status, !.host = Seen(x).host,
                                   !.refused = Seen(x).refused] EXCEPT !.pending = <<>>]
      BY <1>3 DEF Flush, WithExec, Seen, IsEncoder, Encoder, RunAll
    <3> QED
      BY <3>1, Zenon
  <2>2. IsEncoder(y)
    BY <1>0, SeqEmpty DEF IsEncoder, Encoder
  <2>3. Seen(y) = Exec(y)
    BY RunAllNone DEF Seen
  <2>4. Exec(y) = Seen(x)
    BY <1>1, Zenon DEF Exec, IsExec
  <2> QED
    BY <2>1, <2>2, <2>3, <2>4
<1> QED
  BY <1>2, <1>3, Zenon

(* A record does to it what the executor does with the record. *)
LEMMA RecordSeen ==
  ASSUME NEW x, IsEncoder(x), Seen(x).status = TRUE, NEW r, r # Doorbell
  PROVE  /\ IsEncoder(Record(x, r)) /\ Record(x, r).pending # <<>>
         /\ Seen(Record(x, r)) = RunRecord(Seen(x), r)
<1>0. BatchLen \in Nat /\ 1 <= BatchLen
  BY BoundAssumption
<1> DEFINE room == IF Len(x.pending) = BatchLen THEN Flush(x) ELSE x
<1>1. IsEncoder(room) /\ Len(room.pending) + 1 <= BatchLen /\ Seen(room) = Seen(x)
  <2>1. CASE Len(x.pending) = BatchLen
    <3>1. room = Flush(x)
      BY <2>1
    <3>2. Len(room.pending) = 0
      BY <3>1, FlushSeen, SeqEmpty, Zenon
    <3> QED
      <4>1. IsEncoder(Flush(x)) /\ Seen(Flush(x)) = Seen(x)
        BY FlushSeen, Zenon
      <4>2. Len(room.pending) + 1 <= BatchLen
        BY <1>0, <3>2
      <4> QED
        BY <3>1, <4>1, <4>2
  <2>2. CASE Len(x.pending) # BatchLen
    BY <1>0, <2>2 DEF IsEncoder, Listed
  <2> QED
    BY <2>1, <2>2
<1> HIDE DEF room
<1> DEFINE y == [room EXCEPT !.pending = Append(@, r)]
<1>2. y = [pending |-> Append(room.pending, r), status |-> room.status, host |-> room.host,
           refused |-> room.refused]
  <2>1. room = [pending |-> room.pending, status |-> room.status, host |-> room.host,
                refused |-> room.refused]
    BY <1>1 DEF IsEncoder, Encoder
  <2> QED
    BY <2>1, SMTT(30)
<1>3. Listed(Append(room.pending, r)) /\ Len(Append(room.pending, r)) = Len(room.pending) + 1
      /\ Append(room.pending, r) # <<>>
  BY <1>1, SeqAppend DEF IsEncoder
<1>4. IsEncoder(y) /\ y.pending # <<>>
  <2>1. y = Encoder(y) /\ y.pending = Append(room.pending, r)
    BY <1>2 DEF Encoder
  <2> QED
    BY <1>1, <1>3, <2>1, Zenon DEF IsEncoder
<1>5. Exec(y) = Exec(room)
  BY <1>2 DEF Exec
<1>6. Seen(y) = RunRecord(Seen(room), r)
  BY <1>1, <1>2, <1>5, RunAllMore DEF Seen, IsEncoder
<1>7. Record(x, r) = y
  BY DEF Record, room
<1> QED
  BY <1>1, <1>4, <1>6, <1>7

LEMMA Tell ==
  ASSUME NEW x, NEW C, Telling(x, C), NEW r, r # Doorbell, RunRecord(Told(x, C), r).status = TRUE
  PROVE  Telling(x, Append(C, r)) /\ Told(x, Append(C, r)) = RunRecord(Told(x, C), r)
<1>1. SendAll(x, Append(C, r)) = Record(SendAll(x, C), r) /\ Listed(Append(C, r))
  BY SendAllMore, SeqAppend DEF Telling
<1>2. /\ IsEncoder(SendAll(x, Append(C, r)))
      /\ Told(x, Append(C, r)) = RunRecord(Told(x, C), r)
  BY <1>1, RecordSeen, Zenon DEF Telling, Told
<1> QED
  BY <1>1, <1>2, RunKeepsExec DEF Telling

LEMMA Ring ==
  ASSUME NEW x, NEW C, Telling(x, C)
  PROVE  Telling(x, Append(C, Doorbell)) /\ Told(x, Append(C, Doorbell)) = Told(x, C)
<1>1. /\ SendAll(x, Append(C, Doorbell)) = Record(SendAll(x, C), Doorbell)
      /\ Listed(Append(C, Doorbell))
  BY SendAllMore, SeqAppend DEF Telling
<1>2. Record(SendAll(x, C), Doorbell) = Flush(SendAll(x, C))
  BY DEF Record
<1> QED
  BY <1>1, <1>2, FlushSeen, Zenon DEF Telling, Told

-----------------------------------------------------------------------------
(* Counting references *)

Links  == Objects \X Fields
Is(a, b) == IF a = b THEN 1 ELSE 0

(* The links of a heap, without those an operation has taken out (X), and  *)
(* how many of some links are to one object.                               *)
LX(H, X) == [l \in Links |-> IF l \in X THEN None ELSE Link(H[l[1]], l[2])]
N(T, h)  == Cardinality({l \in Links : T[l] = h})

LEMMA LinksFinite == IsFiniteSet(Links)
<1>1. IsFiniteSet(Objects)
  BY FS_Interval, HandleAssumption DEF Objects
<1> DEFINE F1 == (({} \cup {"stage"}) \cup {"stream"}) \cup {"shader"}
           F2 == ((F1 \cup {"declaration"}) \cup {"pixel"}) \cup {"target"}
           F3 == ((F2 \cup {"recording"}) \cup {"peer"}) \cup {"dev"}
<1>2. Fields = F3
  BY DEF Fields, Slots, Content
<1>3. IsFiniteSet(Fields)
  <2>1. IsFiniteSet(F1)
    BY FS_EmptySet, FS_AddElement, Zenon
  <2> HIDE DEF F1
  <2>2. IsFiniteSet(F2)
    BY <2>1, FS_AddElement, Zenon
  <2> HIDE DEF F2
  <2>3. IsFiniteSet(F3)
    BY <2>2, FS_AddElement, Zenon
  <2> QED
    BY <1>2, <2>3
<1> QED
  BY <1>1, <1>3, FS_Product DEF Links

LEMMA Counted ==
  ASSUME NEW T, NEW h
  PROVE  /\ N(T, h) \in Nat
         /\ N(T, h) = 0 => \A l \in Links : T[l] # h
         /\ (\A l \in Links : T[l] # h) => N(T, h) = 0
<1> DEFINE A == {l \in Links : T[l] = h}
<1>1. IsFiniteSet(A)
  BY LinksFinite, FS_Subset
<1>2. Cardinality(A) \in Nat /\ (Cardinality(A) = 0 <=> A = {})
  BY <1>1, FS_CardinalityType, FS_EmptySet
<1> QED
  BY <1>2 DEF N

LEMMA SameLinks ==
  ASSUME NEW T, NEW U, \A m \in Links : U[m] = T[m]
  PROVE  \A h : N(U, h) = N(T, h)
<1> TAKE h
<1>1. {l \in Links : U[l] = h} = {l \in Links : T[l] = h}
  OBVIOUS
<1> QED
  BY <1>1 DEF N

LEMMA Relinked ==
  ASSUME NEW T, NEW U, NEW l \in Links, \A m \in Links \ {l} : U[m] = T[m]
  PROVE  \A h : N(U, h) + Is(T[l], h) = N(T, h) + Is(U[l], h)
<1> TAKE h
<1> DEFINE A == {m \in Links : T[m] = h}
           B == {m \in Links : U[m] = h}
<1>1. IsFiniteSet(A) /\ IsFiniteSet(B) /\ Cardinality(A) \in Nat /\ Cardinality(B) \in Nat
  BY LinksFinite, FS_Subset, FS_CardinalityType
<1>2. CASE T[l] = h /\ U[l] = h
  <2>1. A = B
    BY <1>2
  <2> QED
    BY <1>2, <2>1 DEF N, Is
<1>3. CASE T[l] # h /\ U[l] # h
  <2>1. A = B
    BY <1>3
  <2> QED
    BY <1>3, <2>1 DEF N, Is
<1>4. CASE T[l] = h /\ U[l] # h
  <2>1. A = B \cup {l} /\ l \notin B
    BY <1>4
  <2>2. Cardinality(A) = Cardinality(B) + 1
    BY <1>1, <2>1, FS_AddElement, Zenon
  <2> QED
    BY <1>1, <1>4, <2>2 DEF N, Is
<1>5. CASE T[l] # h /\ U[l] = h
  <2>1. B = A \cup {l} /\ l \notin A
    BY <1>5
  <2>2. Cardinality(B) = Cardinality(A) + 1
    BY <1>1, <2>1, FS_AddElement
  <2> QED
    BY <1>1, <1>5, <2>2 DEF N, Is
<1> QED
  BY <1>2, <1>3, <1>4, <1>5

-----------------------------------------------------------------------------
(* Heaps *)

ObjectType == [kind : {"none", "device", "level", "backbuffer"} \cup Kinds,
               ref : Nat, named : BOOLEAN, dev : Handles, peer : Handles,
               bound : [Slots -> Handles], value : [States -> Values],
               marks : SUBSET Parts, recording : Handles]
Heaps == [Objects -> ObjectType]

Built(a, b) ==
  /\ a.kind = b.kind /\ a.named = b.named /\ a.dev = b.dev /\ a.peer = b.peer
  /\ a.bound = b.bound /\ a.recording = b.recording
Alike(a, b) == Built(a, b) /\ a.value = b.value /\ a.marks = b.marks

(* What an object of each kind has, *)
Hosted == Plain \cup {"texture", "surface", "backbuffer"}
Formed(o) ==
  /\ o.kind = "none" => o = Gone
  /\ o.kind = "device" => o.dev = None /\ o.named
  /\ o.kind \notin {"none", "device"} => o.recording = None /\ o.dev # None
  /\ o.kind \notin {"device", "block"} => o.bound = Unbound
  /\ o.kind = "block" => o.bound["target"] = None
  /\ o.kind \notin {"level", "texture", "device"} => o.peer = None
  /\ o.kind = "level" => o.peer # None /\ (o.ref > 0 => o.named)
  /\ o.kind \in Hosted => o.named
  /\ o.kind \in {"memory", "block"} => ~o.named

(* what its links lead to, *)
Owner(H, o) == IF H[o].kind = "device" THEN o ELSE H[o].dev

HasDevice(H) ==
  \A o \in Objects : H[o].kind \notin {"none", "device", "backbuffer"} =>
    H[o].dev \in Objects /\ H[H[o].dev].kind = "device"

Records(H) ==
  \A o \in Objects : H[o].kind = "device" /\ H[o].recording # None =>
    H[H[o].recording].kind = "block" /\ H[H[o].recording].dev = o

Peers(H) ==
  \A o \in Objects :
    /\ H[o].kind = "device" /\ H[o].peer # None =>
         H[H[o].peer].kind = "backbuffer" /\ H[H[o].peer].dev = o
    /\ H[o].kind = "level" /\ H[o].named =>
         /\ H[o].peer \in Objects /\ H[H[o].peer].kind = "texture"
         /\ H[H[o].peer].peer = o /\ H[H[o].peer].dev = H[o].dev
    /\ H[o].kind = "texture" /\ H[o].peer # None =>
         /\ H[H[o].peer].kind = "level" /\ H[H[o].peer].peer = o /\ H[H[o].peer].named
         /\ H[H[o].peer].dev = H[o].dev

Fits(s, k) ==
  CASE s = "stage"  -> k = "texture"
    [] s = "stream" -> k = "buffer"
    [] s = "target" -> k \in {"level", "backbuffer", "surface"}
    [] OTHER        -> k = s

BoundFit(H, X) ==
  \A o \in Objects, s \in Slots :
    <<o, s>> \notin X /\ H[o].bound[s] # None =>
      Fits(s, H[H[o].bound[s]].kind) /\ H[H[o].bound[s]].dev = Owner(H, o)

(* and how many references there are: e from outside the heap. *)
Balance(H, e, X) == \A k \in Objects : H[k].ref = e[k] + N(LX(H, X), k)

HeapOK(H, e, X) ==
  /\ H \in Heaps /\ e \in [Objects -> Nat] /\ X \subseteq Objects \X Slots
  /\ \A o \in Objects : Formed(H[o])
  /\ HasDevice(H) /\ Records(H) /\ Peers(H) /\ BoundFit(H, X) /\ Balance(H, e, X)

(* A reference to a is used up, and one to b comes from outside the heap.  *)
Moves(e, f, a, b) ==
  f \in [Objects -> Nat] /\ \A k \in Objects : f[k] + Is(k, a) = e[k] + Is(k, b)

Plus(e, b) == [k \in Objects |-> e[k] + Is(k, b)]
Less(e, a) == [k \in Objects |-> e[k] - Is(k, a)]

LEMMA MovesPlus ==
  ASSUME NEW e \in [Objects -> Nat], NEW b
  PROVE  Moves(e, Plus(e, b), None, b)
BY DEF Moves, Plus, Is, Objects, None

LEMMA MovesLess ==
  ASSUME NEW e \in [Objects -> Nat], NEW a, a \in Objects => e[a] > 0
  PROVE  Moves(e, Less(e, a), a, None)
<1>1. \A k \in Objects : e[k] - Is(k, a) \in Nat
  BY DEF Is
<1> QED
  BY <1>1 DEF Moves, Less, Is, Objects, None

LEMMA LinkTypes ==
  ASSUME NEW H \in Heaps, NEW o \in Objects
  PROVE  \A f \in Fields : Link(H[o], f) \in Handles
<1> TAKE f \in Fields
<1>1. H[o] \in ObjectType
  BY DEF Heaps
<1> QED
  BY <1>1 DEF ObjectType, Link, Fields, Handles

(* One link leads elsewhere, and the counts follow. *)
Shift(H, G, e, f, X, Y, l) ==
  /\ H \in Heaps /\ G \in Heaps /\ e \in [Objects -> Nat] /\ f \in [Objects -> Nat] /\ l \in Links
  /\ \A m \in Links \ {l} : LX(G, Y)[m] = LX(H, X)[m]
  /\ \A k \in Objects : G[k].ref + e[k] + Is(k, LX(H, X)[l]) = f[k] + H[k].ref + Is(k, LX(G, Y)[l])

LEMMA Rebalance ==
  ASSUME NEW H, NEW G, NEW e, NEW f, NEW X, NEW Y, NEW l,
         Balance(H, e, X), Shift(H, G, e, f, X, Y, l)
  PROVE  Balance(G, f, Y)
<1>0. /\ H \in Heaps /\ G \in Heaps /\ e \in [Objects -> Nat] /\ f \in [Objects -> Nat] /\ l \in Links
      /\ \A m \in Links \ {l} : LX(G, Y)[m] = LX(H, X)[m]
      /\ \A k \in Objects : G[k].ref + e[k] + Is(k, LX(H, X)[l])
                              = f[k] + H[k].ref + Is(k, LX(G, Y)[l])
  BY DEF Shift
<1> SUFFICES ASSUME NEW k \in Objects PROVE G[k].ref = f[k] + N(LX(G, Y), k)
  BY DEF Balance
<1> DEFINE T == LX(H, X)
           U == LX(G, Y)
<1>1. N(U, k) + Is(T[l], k) = N(T, k) + Is(U[l], k)
  <2> HIDE DEF T, U
  <2>1. \A m \in Links \ {l} : U[m] = T[m]
    BY <1>0 DEF T, U
  <2> QED
    BY <1>0, <2>1, Relinked
<1>2. H[k].ref = e[k] + N(T, k)
  BY DEF Balance
<1>3. N(T, k) \in Nat /\ N(U, k) \in Nat
  BY Counted
<1>4. H[k].ref \in Nat /\ G[k].ref \in Nat /\ e[k] \in Nat /\ f[k] \in Nat
  BY <1>0 DEF Heaps, ObjectType
<1>5. G[k].ref + e[k] + Is(k, T[l]) = f[k] + H[k].ref + Is(k, U[l])
  BY <1>0
<1> HIDE DEF T, U
<1>6. Is(T[l], k) = Is(k, T[l]) /\ Is(U[l], k) = Is(k, U[l])
      /\ Is(k, T[l]) \in Nat /\ Is(k, U[l]) \in Nat
  BY DEF Is
<1>7. N(U, k) + Is(k, T[l]) = N(T, k) + Is(k, U[l])
  BY <1>1, <1>6
<1>8. G[k].ref = f[k] + N(U, k)
  <2> DEFINE a == N(U, k)
             b == N(T, k)
             c == Is(k, T[l])
             d == Is(k, U[l])
             g == G[k].ref
             h == H[k].ref
             p == e[k]
             q == f[k]
  <2>1. a \in Nat /\ b \in Nat /\ c \in Nat /\ d \in Nat /\ g \in Nat /\ h \in Nat
        /\ p \in Nat /\ q \in Nat
    BY <1>3, <1>4, <1>6
  <2>2. a + c = b + d /\ h = p + b /\ g + p + c = q + h + d
    BY <1>2, <1>5, <1>7
  <2> HIDE DEF a, b, c, d, g, h, p, q
  <2>3. g = q + a
    BY <2>1, <2>2
  <2> QED
    BY <2>3 DEF a, g, q
<1> QED
  BY <1>8 DEF U

(* What e and the links say of an object. *)
LEMMA Counting ==
  ASSUME NEW H, NEW e, NEW X, HeapOK(H, e, X), NEW k \in Objects
  PROVE  /\ H[k].ref \in Nat /\ e[k] \in Nat /\ H[k].ref >= e[k]
         /\ e[k] > 0 => H[k].kind # "none"
         /\ H[k].ref = e[k] => \A l \in Links : LX(H, X)[l] # k
         /\ \A l \in Links : LX(H, X)[l] = k => H[k].ref > e[k] /\ H[k].kind # "none"
<1>1. H[k].ref = e[k] + N(LX(H, X), k) /\ e[k] \in Nat /\ N(LX(H, X), k) \in Nat
  BY Counted DEF HeapOK, Balance
<1>2. H[k].ref > 0 => H[k].kind # "none"
  BY DEF HeapOK, Formed, Gone
<1>3. (\E l \in Links : LX(H, X)[l] = k) => N(LX(H, X), k) > 0
  BY <1>1, Counted
<1>4. N(LX(H, X), k) = 0 => \A l \in Links : LX(H, X)[l] # k
  BY Counted
<1> HIDE DEF LX, N
<1> QED
  BY <1>1, <1>2, <1>3, <1>4

(* What the provers need to know of a heap's fields. *)
LEMMA FieldTypes ==
  ASSUME NEW H \in Heaps, NEW o \in Objects
  PROVE  /\ H[o] \in ObjectType /\ H[o].ref \in Nat /\ H[o].named \in BOOLEAN
         /\ H[o].dev \in Handles /\ H[o].peer \in Handles /\ H[o].recording \in Handles
         /\ H[o].bound \in [Slots -> Handles] /\ \A s \in Slots : H[o].bound[s] \in Handles
         /\ H[o].value \in [States -> Values] /\ H[o].marks \in SUBSET Parts
         /\ H[o].kind \in {"none", "device", "level", "backbuffer"} \cup Kinds
<1>1. H[o] \in ObjectType
  BY DEF Heaps
<1> QED
  BY <1>1 DEF ObjectType

LEMMA ObjectOrNone ==
  ASSUME NEW h \in Handles, h # None
  PROVE  h \in Objects
BY DEF Handles

AllBuilt(H, G) == H \in Heaps /\ G \in Heaps /\ \A o \in Objects : Built(H[o], G[o])
Hangs(H, X)    == HasDevice(H) /\ Records(H) /\ Peers(H) /\ BoundFit(H, X)

LEMMA BuiltHangs ==
  ASSUME NEW H, NEW G, AllBuilt(H, G), NEW X, Hangs(H, X)
  PROVE  Hangs(G, X)
<1>0. /\ H \in Heaps /\ G \in Heaps /\ \A o \in Objects : Built(H[o], G[o])
      /\ HasDevice(H) /\ Records(H) /\ Peers(H) /\ BoundFit(H, X)
  BY DEF AllBuilt, Hangs
<1>1. HasDevice(G)
  BY <1>0 DEF HasDevice, Built
<1>2. Records(G)
  <2> SUFFICES ASSUME NEW o \in Objects, H[o].kind = "device", H[o].recording # None
               PROVE  G[H[o].recording].kind = "block" /\ G[H[o].recording].dev = o
    BY <1>0 DEF Records, Built
  <2>1. H[o].recording \in Objects
    BY <1>0, FieldTypes, ObjectOrNone
  <2> QED
    BY <1>0, <2>1 DEF Records, Built
<1>3. Peers(G)
  <2> SUFFICES ASSUME NEW o \in Objects
               PROVE  /\ H[o].kind = "device" /\ H[o].peer # None =>
                           G[H[o].peer].kind = "backbuffer" /\ G[H[o].peer].dev = o
                      /\ H[o].kind = "level" /\ H[o].named =>
                           /\ H[o].peer \in Objects /\ G[H[o].peer].kind = "texture"
                           /\ G[H[o].peer].peer = o /\ G[H[o].peer].dev = H[o].dev
                      /\ H[o].kind = "texture" /\ H[o].peer # None =>
                           /\ G[H[o].peer].kind = "level" /\ G[H[o].peer].peer = o
                           /\ G[H[o].peer].named /\ G[H[o].peer].dev = H[o].dev
    BY <1>0 DEF Peers, Built
  <2>1. H[o].peer # None => H[o].peer \in Objects
    BY <1>0, FieldTypes, ObjectOrNone
  <2> QED
    BY <1>0, <2>1 DEF Peers, Built
<1>4. BoundFit(G, X)
  <2> SUFFICES ASSUME NEW o \in Objects, NEW s \in Slots, <<o, s>> \notin X, H[o].bound[s] # None
               PROVE  /\ Fits(s, G[H[o].bound[s]].kind)
                      /\ G[H[o].bound[s]].dev = Owner(G, o)
    BY <1>0 DEF BoundFit, Built
  <2>1. H[o].bound[s] \in Objects
    BY <1>0, FieldTypes, ObjectOrNone
  <2>2. Owner(G, o) = Owner(H, o) /\ Built(H[H[o].bound[s]], G[H[o].bound[s]])
    BY <1>0, <2>1 DEF Owner, Built
  <2>3. Fits(s, H[H[o].bound[s]].kind) /\ H[H[o].bound[s]].dev = Owner(H, o)
    BY <1>0 DEF BoundFit
  <2> QED
    BY <2>2, <2>3 DEF Built
<1> QED
  BY <1>1, <1>2, <1>3, <1>4 DEF Hangs

LEMMA LinkBuilt ==
  ASSUME NEW a, NEW b, Built(a, b), a.kind = "level" => (a.ref > 0 <=> b.ref > 0)
  PROVE  \A f : Link(a, f) = Link(b, f)
BY DEF Link, Built

LEMMA LinkPairs ==
  /\ \A l \in Links : l = <<l[1], l[2]>> /\ l[1] \in Objects /\ l[2] \in Fields
  /\ \A o \in Objects, f \in Fields : <<o, f>> \in Links
BY DEF Links

(* What the fields of one object come to, and no other's. *)
LEMMA LinksElsewhere ==
  ASSUME NEW H, NEW G, NEW X, NEW h, \A o \in Objects \ {h} : G[o] = H[o]
  PROVE  \A m \in Links : m[1] # h => LX(G, X)[m] = LX(H, X)[m]
BY LinkPairs DEF LX

(* Only a count changes. *)
Counts(H, G, h, n) ==
  /\ G \in Heaps /\ G[h].ref = n /\ Alike(H[h], G[h]) /\ \A o \in Objects \ {h} : G[o] = H[o]

LEMMA Counting1 ==
  ASSUME NEW H \in Heaps, NEW h \in Objects, NEW n \in Nat
  PROVE  Counts(H, [H EXCEPT ![h].ref = n], h, n)
BY Zenon DEF Counts, Heaps, ObjectType, Alike, Built

LEMMA CountsAlike ==
  ASSUME NEW H, NEW G, NEW h \in Objects, NEW n, Counts(H, G, h, n)
  PROVE  /\ G \in Heaps /\ G[h].ref = n /\ \A o \in Objects \ {h} : G[o] = H[o]
         /\ \A o \in Objects : Alike(H[o], G[o]) /\ Built(H[o], G[o])
BY DEF Counts, Alike, Built

LEMMA Recounted ==
  ASSUME NEW H, NEW e, NEW X, HeapOK(H, e, X), NEW h \in Objects, NEW n \in Nat,
         H[h].kind # "none", H[h].kind = "level" => (H[h].ref > 0 <=> n > 0),
         NEW f \in [Objects -> Nat], n + e[h] = f[h] + H[h].ref, \A k \in Objects \ {h} : f[k] = e[k],
         NEW G, Counts(H, G, h, n)
  PROVE  HeapOK(G, f, X)
<1>0. H \in Heaps /\ e \in [Objects -> Nat] /\ \A o \in Objects : H[o] \in ObjectType
  BY DEF HeapOK, Heaps
<1>1. /\ G \in Heaps /\ G[h].ref = n /\ \A o \in Objects \ {h} : G[o] = H[o]
      /\ \A o \in Objects : Alike(H[o], G[o]) /\ Built(H[o], G[o])
  BY CountsAlike, Zenon
<1>2. \A o \in Objects : Formed(G[o])
  BY <1>0, <1>1 DEF HeapOK, Formed, Built
<1>3. Hangs(G, X)
  <2>1. Hangs(H, X) /\ AllBuilt(H, G)
    BY <1>0, <1>1 DEF HeapOK, Hangs, AllBuilt
  <2> QED
    BY <2>1, BuiltHangs
<1>4. \A m \in Links : LX(G, X)[m] = LX(H, X)[m]
  <2> SUFFICES ASSUME NEW m \in Links PROVE Link(G[m[1]], m[2]) = Link(H[m[1]], m[2])
    BY DEF LX
  <2>1. m[1] \in Objects
    BY LinkPairs
  <2>2. Built(H[m[1]], G[m[1]]) /\ (H[m[1]].kind = "level" => (H[m[1]].ref > 0 <=> G[m[1]].ref > 0))
    BY <1>1, <2>1
  <2> DEFINE a == H[m[1]]
             b == G[m[1]]
  <2>3. Built(a, b) /\ (a.kind = "level" => (a.ref > 0 <=> b.ref > 0))
    BY <2>2
  <2> HIDE DEF a, b
  <2>4. \A g : Link(a, g) = Link(b, g)
    BY <2>3, LinkBuilt
  <2> QED
    BY <2>4 DEF a, b
<1>5. Balance(G, f, X)
  <2> SUFFICES ASSUME NEW k \in Objects PROVE G[k].ref = f[k] + N(LX(G, X), k)
    BY DEF Balance
  <2>1. N(LX(G, X), k) = N(LX(H, X), k) /\ N(LX(H, X), k) \in Nat
    <3>1. \A j : N(LX(G, X), j) = N(LX(H, X), j)
      BY <1>4, SameLinks
    <3> QED
      BY <3>1, Counted
  <2>2. H[k].ref = e[k] + N(LX(H, X), k)
    BY DEF HeapOK, Balance
  <2>3. H[k].ref \in Nat /\ e[k] \in Nat /\ f[k] \in Nat
    BY <1>0 DEF ObjectType
  <2> HIDE DEF N, LX
  <2> QED
    BY <1>1, <2>1, <2>2, <2>3
<1> QED
  BY <1>0, <1>1, <1>2, <1>3, <1>5 DEF HeapOK, Hangs

LEMMA SlotFields ==
  /\ Slots \subseteq Fields /\ {"recording", "peer", "dev"} \subseteq Fields
  /\ \A s \in Slots : s \notin {"recording", "peer", "dev"} /\ (\A o : Link(o, s) = o.bound[s])
  /\ \A f \in Fields : f \in Slots \/ f \in {"recording", "peer", "dev"}
  /\ "target" \in Slots /\ Content \subseteq Slots
BY DEF Fields, Slots, Content, Link

(* X only has slots: the other links are those of the objects. *)
Taken(X) == X \subseteq Objects \X Slots

Others == {"recording", "peer", "dev"}

LEMMA FieldLink ==
  ASSUME NEW H, NEW X, Taken(X), NEW o \in Objects, NEW f \in Others
  PROVE  <<o, f>> \in Links /\ <<o, f>> \notin X /\ LX(H, X)[<<o, f>>] = Link(H[o], f)
<1>1. f \in Fields /\ f \notin Slots
  BY SlotFields DEF Others
<1> QED
  BY <1>1 DEF Taken, Links, LX

LEMMA SlotLink ==
  ASSUME NEW H, NEW X, NEW o \in Objects, NEW s \in Slots
  PROVE  /\ <<o, s>> \in Links
         /\ LX(H, X)[<<o, s>>] = IF <<o, s>> \in X THEN None ELSE H[o].bound[s]
<1>1. <<o, s>> \in Links
  BY SlotFields DEF Links
<1> QED
  BY <1>1, SlotFields DEF LX

(* Nothing changes but what no link and no count depends on. *)
LEMMA Restated ==
  ASSUME NEW H, NEW e, NEW X, HeapOK(H, e, X), NEW G \in Heaps,
         \A o \in Objects : Built(H[o], G[o]) /\ G[o].ref = H[o].ref /\ Formed(G[o])
  PROVE  HeapOK(G, e, X)
<1>1. Hangs(G, X)
  <2>1. Hangs(H, X) /\ AllBuilt(H, G)
    BY DEF HeapOK, Hangs, AllBuilt
  <2> QED
    BY <2>1, BuiltHangs
<1>2. \A m \in Links : LX(G, X)[m] = LX(H, X)[m]
  <2> SUFFICES ASSUME NEW m \in Links PROVE Link(G[m[1]], m[2]) = Link(H[m[1]], m[2])
    BY DEF LX
  <2>1. m[1] \in Objects
    BY LinkPairs
  <2> DEFINE a == H[m[1]]
             b == G[m[1]]
  <2>2. Built(a, b) /\ (a.kind = "level" => (a.ref > 0 <=> b.ref > 0))
    BY <2>1
  <2> HIDE DEF a, b
  <2>3. \A g : Link(a, g) = Link(b, g)
    BY <2>2, LinkBuilt
  <2> QED
    BY <2>3 DEF a, b
<1>3. Balance(G, e, X)
  <2>1. \A j : N(LX(G, X), j) = N(LX(H, X), j)
    BY <1>2, SameLinks
  <2> QED
    BY <2>1 DEF HeapOK, Balance
<1> QED
  BY <1>1, <1>3 DEF HeapOK, Hangs

(* A level surface comes into use, or out of it: with a reference on its texture. *)
LEMMA LevelTurned ==
  ASSUME NEW H, NEW e, NEW X, HeapOK(H, e, X), NEW h \in Objects, NEW n, NEW f,
         H[h].kind = "level", H[h].named,
         \/ H[h].ref = 0 /\ n = 1 /\ Moves(e, f, H[h].peer, h)
         \/ H[h].ref = 1 /\ n = 0 /\ Moves(e, f, h, H[h].peer),
         NEW G, Counts(H, G, h, n)
  PROVE  HeapOK(G, f, X)
<1> DEFINE t == H[h].peer
           l == <<h, "peer">>
<1>0. /\ H \in Heaps /\ \A o \in Objects : H[o] \in ObjectType
      /\ e \in [Objects -> Nat] /\ f \in [Objects -> Nat] /\ n \in Nat
  BY DEF HeapOK, Heaps, Moves
<1>1. /\ G \in Heaps /\ G[h].ref = n /\ \A o \in Objects \ {h} : G[o] = H[o]
      /\ \A o \in Objects : Alike(H[o], G[o]) /\ Built(H[o], G[o])
  BY CountsAlike, Zenon
<1>2. \A o \in Objects : Formed(G[o])
  BY <1>0, <1>1 DEF HeapOK, Formed, Built
<1>3. Hangs(G, X)
  <2>1. Hangs(H, X) /\ AllBuilt(H, G)
    BY <1>0, <1>1 DEF HeapOK, Hangs, AllBuilt
  <2> QED
    BY <2>1, BuiltHangs
<1>4. t \in Objects /\ t # h
  BY DEF HeapOK, Peers
<1>5. X \subseteq Objects \X Slots /\ Taken(X)
  BY DEF HeapOK, Taken
<1>6. l \in Links /\ LX(H, X)[l] = Link(H[h], "peer") /\ LX(G, X)[l] = Link(G[h], "peer")
  <2> DEFINE p == "peer"
  <2>1. p \in Others
    BY DEF Others
  <2> HIDE DEF p
  <2>2. <<h, p>> \in Links /\ LX(H, X)[<<h, p>>] = Link(H[h], p)
    BY <1>5, <2>1, FieldLink
  <2>3. LX(G, X)[<<h, p>>] = Link(G[h], p)
    BY <1>5, <2>1, FieldLink
  <2> QED
    BY <2>2, <2>3 DEF p
<1>7. \A m \in Links \ {l} : LX(G, X)[m] = LX(H, X)[m]
  <2> SUFFICES ASSUME NEW m \in Links, m # l PROVE Link(G[m[1]], m[2]) = Link(H[m[1]], m[2])
    BY DEF LX
  <2>1. CASE m[1] # h
    BY <1>1, <2>1, LinkPairs
  <2>2. CASE m[1] = h
    <3>1. m[2] # "peer"
      BY <2>2, LinkPairs
    <3> QED
      BY <1>1, <2>2, <3>1 DEF Link, Built
  <2> QED
    BY <2>1, <2>2
<1>8. /\ LX(H, X)[l] = IF H[h].ref > 0 THEN t ELSE None
      /\ LX(G, X)[l] = IF n > 0 THEN t ELSE None
  BY <1>1, <1>6 DEF Link, Built
<1>9. \A k \in Objects : G[k].ref + e[k] + Is(k, LX(H, X)[l]) = f[k] + H[k].ref + Is(k, LX(G, X)[l])
  <2> SUFFICES ASSUME NEW k \in Objects
               PROVE  G[k].ref + e[k] + Is(k, LX(H, X)[l]) = f[k] + H[k].ref + Is(k, LX(G, X)[l])
    OBVIOUS
  <2>1. H[k].ref \in Nat /\ e[k] \in Nat /\ f[k] \in Nat /\ k # None
    BY <1>0 DEF ObjectType, Objects, None
  <2>2. k # h => G[k].ref = H[k].ref
    BY <1>1
  <2> HIDE DEF l
  <2>3. CASE H[h].ref = 0 /\ n = 1 /\ Moves(e, f, t, h)
    BY <1>1, <1>4, <1>8, <2>1, <2>2, <2>3 DEF Moves, Is
  <2>4. CASE H[h].ref = 1 /\ n = 0 /\ Moves(e, f, h, t)
    BY <1>1, <1>4, <1>8, <2>1, <2>2, <2>4 DEF Moves, Is
  <2> QED
    BY <2>3, <2>4
<1>10. Balance(G, f, X)
  <2> HIDE DEF l
  <2>1. Balance(H, e, X) /\ Shift(H, G, e, f, X, X, l)
    BY <1>0, <1>1, <1>6, <1>7, <1>9 DEF HeapOK, Shift
  <2> QED
    BY <2>1, Rebalance
<1> QED
  BY <1>0, <1>1, <1>2, <1>3, <1>5, <1>10 DEF HeapOK, Hangs

(* What a slot is bound to is counted from outside while an operation changes the slot. *)
LEMMA TakenOut ==
  ASSUME NEW H, NEW e, NEW X, HeapOK(H, e, X), NEW o \in Objects, NEW s \in Slots,
         <<o, s>> \notin X, NEW f, Moves(e, f, None, H[o].bound[s])
  PROVE  HeapOK(H, f, X \cup {<<o, s>>})
<1> DEFINE l == <<o, s>>
           Y == X \cup {l}
<1>0. /\ H \in Heaps /\ \A k \in Objects : H[k] \in ObjectType
      /\ e \in [Objects -> Nat] /\ f \in [Objects -> Nat]
      /\ X \subseteq Objects \X Slots /\ Balance(H, e, X)
  BY DEF HeapOK, Heaps, Moves
<1>1. l \in Links /\ LX(H, X)[l] = H[o].bound[s]
  BY SlotLink
<1>2. LX(H, Y)[l] = None
  BY <1>1 DEF LX
<1>3. \A m \in Links \ {l} : LX(H, Y)[m] = LX(H, X)[m]
  BY DEF LX
<1>4. \A k \in Objects : H[k].ref + e[k] + Is(k, LX(H, X)[l]) = f[k] + H[k].ref + Is(k, LX(H, Y)[l])
  <2> SUFFICES ASSUME NEW k \in Objects
               PROVE  H[k].ref + e[k] + Is(k, LX(H, X)[l]) = f[k] + H[k].ref + Is(k, LX(H, Y)[l])
    OBVIOUS
  <2>1. H[k].ref \in Nat /\ e[k] \in Nat /\ f[k] \in Nat /\ k # None
    BY <1>0 DEF ObjectType, Objects, None
  <2> HIDE DEF l, Y
  <2> QED
    BY <1>1, <1>2, <2>1 DEF Moves, Is
<1>5. Balance(H, f, Y)
  <2> HIDE DEF l, Y
  <2>1. Shift(H, H, e, f, X, Y, l)
    BY <1>0, <1>1, <1>3, <1>4 DEF Shift
  <2> QED
    BY <1>0, <2>1, Rebalance
<1> QED
  BY <1>0, <1>5 DEF HeapOK, BoundFit

(* Only a slot changes. *)
Binds(H, G, o, s, b) ==
  /\ G \in Heaps /\ \A k \in Objects \ {o} : G[k] = H[k]
  /\ \A k \in Objects :
       /\ G[k].kind = H[k].kind /\ G[k].dev = H[k].dev /\ G[k].ref = H[k].ref
       /\ G[k].named = H[k].named /\ G[k].peer = H[k].peer /\ G[k].recording = H[k].recording
       /\ G[k].value = H[k].value /\ G[k].marks = H[k].marks
  /\ G[o].bound = [H[o].bound EXCEPT ![s] = b]

LEMMA Binding ==
  ASSUME NEW H \in Heaps, NEW o \in Objects, NEW s \in Slots, NEW b \in Handles
  PROVE  Binds(H, [H EXCEPT ![o].bound[s] = b], o, s, b)
<1> DEFINE G == [H EXCEPT ![o].bound[s] = b]
           c == [H[o].bound EXCEPT ![s] = b]
           x == [H[o] EXCEPT !.bound = c]
<1>1. H[o] \in ObjectType /\ H[o].bound \in [Slots -> Handles]
  BY DEF Heaps, ObjectType
<1>2. c \in [Slots -> Handles]
  BY <1>1
<1>3. G = [H EXCEPT ![o] = x]
  OBVIOUS
<1> HIDE DEF c
<1>4. x \in ObjectType
  BY <1>1, <1>2 DEF ObjectType
<1>5. /\ x.kind = H[o].kind /\ x.dev = H[o].dev /\ x.ref = H[o].ref /\ x.named = H[o].named
      /\ x.peer = H[o].peer /\ x.recording = H[o].recording /\ x.value = H[o].value
      /\ x.marks = H[o].marks /\ x.bound = c
  BY <1>1 DEF ObjectType
<1> HIDE DEF x
<1>6. G \in Heaps /\ G[o] = x /\ \A k \in Objects \ {o} : G[k] = H[k]
  BY <1>3, <1>4 DEF Heaps
<1> QED
  BY <1>5, <1>6 DEF Binds, c

LEMMA PutIn ==
  ASSUME NEW H, NEW e, NEW X, HeapOK(H, e, X), NEW o \in Objects, NEW s \in Slots,
         <<o, s>> \in X, NEW b \in Handles, NEW f, Moves(e, f, b, None),
         H[o].kind \in {"device", "block"}, H[o].kind = "block" => s # "target",
         b # None => Fits(s, H[b].kind) /\ H[b].dev = Owner(H, o),
         NEW G, Binds(H, G, o, s, b)
  PROVE  HeapOK(G, f, X \ {<<o, s>>})
<1> DEFINE l == <<o, s>>
           Y == X \ {l}
<1>0. /\ H \in Heaps /\ \A k \in Objects : H[k] \in ObjectType
      /\ e \in [Objects -> Nat] /\ f \in [Objects -> Nat]
      /\ X \subseteq Objects \X Slots /\ Balance(H, e, X)
  BY DEF HeapOK, Heaps, Moves
<1>1. /\ G \in Heaps /\ \A k \in Objects \ {o} : G[k] = H[k]
      /\ \A k \in Objects : G[k].kind = H[k].kind /\ G[k].dev = H[k].dev /\ G[k].ref = H[k].ref
           /\ G[k].named = H[k].named /\ G[k].peer = H[k].peer /\ G[k].recording = H[k].recording
           /\ G[k].value = H[k].value /\ G[k].marks = H[k].marks
      /\ G[o].bound = [H[o].bound EXCEPT ![s] = b]
  BY DEF Binds
<1>2. H[o].bound \in [Slots -> Handles] /\ G[o].bound[s] = b
      /\ \A z \in Slots \ {s} : G[o].bound[z] = H[o].bound[z]
  BY <1>0, <1>1 DEF ObjectType
<1>3. \A k \in Objects : Formed(G[k])
  <2>1. \A k \in Objects \ {o} : Formed(G[k])
    BY <1>1 DEF HeapOK
  <2>2. Formed(G[o])
    <3>1. Formed(H[o])
      BY DEF HeapOK
    <3>2. H[o].kind = "block" => G[o].bound["target"] = None
      BY <1>2, <3>1, SlotFields DEF Formed
    <3>3. "block" \notin Hosted /\ "device" \notin Hosted
      BY DEF Hosted, Plain
    <3> QED
      BY <1>1, <3>1, <3>2, <3>3 DEF Formed
  <2> QED
    BY <2>1, <2>2
<1>4. HasDevice(G)
  BY <1>1 DEF HeapOK, HasDevice
<1>5. Records(G)
  <2>1. \A k \in Objects : H[k].recording # None => H[k].recording \in Objects
    BY <1>0, FieldTypes, ObjectOrNone
  <2> QED
    BY <1>1, <2>1 DEF HeapOK, Records
<1>6. Peers(G)
  <2>1. \A k \in Objects : H[k].peer # None => H[k].peer \in Objects
    BY <1>0, FieldTypes, ObjectOrNone
  <2> QED
    BY <1>1, <2>1 DEF HeapOK, Peers
<1>7. BoundFit(G, Y)
  <2> SUFFICES ASSUME NEW k \in Objects, NEW z \in Slots, <<k, z>> \notin Y, G[k].bound[z] # None
               PROVE  /\ Fits(z, G[G[k].bound[z]].kind)
                      /\ G[G[k].bound[z]].dev = Owner(G, k)
    BY DEF BoundFit
  <2>1. Owner(G, k) = Owner(H, k)
    BY <1>1 DEF Owner
  <2>2. CASE k = o /\ z = s
    <3>1. b \in Objects
      BY <1>2, <2>2, ObjectOrNone
    <3> QED
      BY <1>1, <1>2, <2>1, <2>2, <3>1
  <2>3. CASE ~(k = o /\ z = s)
    <3>1. G[k].bound[z] = H[k].bound[z]
      BY <1>1, <1>2, <2>3
    <3>2. H[k].bound[z] \in Objects
      BY <1>0, <3>1, FieldTypes, ObjectOrNone
    <3>3. <<k, z>> \notin X
      BY <2>3
    <3>4. Fits(z, H[H[k].bound[z]].kind) /\ H[H[k].bound[z]].dev = Owner(H, k)
      BY <3>1, <3>3 DEF HeapOK, BoundFit
    <3> QED
      BY <1>1, <2>1, <3>1, <3>2, <3>4
  <2> QED
    BY <2>2, <2>3
<1>8. l \in Links /\ LX(H, X)[l] = None /\ LX(G, Y)[l] = b
  <2>1. l \notin Y
    OBVIOUS
  <2>2. l \in Links /\ LX(H, X)[l] = None
    BY SlotLink, Zenon
  <2> HIDE DEF Y
  <2>3. LX(G, Y)[l] = G[o].bound[s]
    BY <2>1, SlotLink
  <2> QED
    BY <1>2, <2>2, <2>3
<1>9. \A m \in Links \ {l} : LX(G, Y)[m] = LX(H, X)[m]
  <2> SUFFICES ASSUME NEW m \in Links, m # l PROVE Link(G[m[1]], m[2]) = Link(H[m[1]], m[2])
    BY DEF LX
  <2>1. CASE m[1] # o
    BY <1>1, <2>1, LinkPairs
  <2>2. CASE m[1] = o
    <3>1. m[2] # s /\ m[2] \in Fields
      BY <2>2, LinkPairs
    <3>2. ASSUME m[2] \in Slots PROVE Link(G[o], m[2]) = Link(H[o], m[2])
      <4>1. Link(G[o], m[2]) = G[o].bound[m[2]] /\ Link(H[o], m[2]) = H[o].bound[m[2]]
        BY <3>2, SlotFields
      <4> QED
        BY <1>2, <3>1, <3>2, <4>1
    <3>3. m[2] \in {"recording", "peer", "dev"} => Link(G[o], m[2]) = Link(H[o], m[2])
      BY <1>1 DEF Link
    <3> QED
      BY <2>2, <3>1, <3>2, <3>3, SlotFields
  <2> QED
    BY <2>1, <2>2
<1>10. \A k \in Objects : G[k].ref + e[k] + Is(k, LX(H, X)[l]) = f[k] + H[k].ref + Is(k, LX(G, Y)[l])
  <2> SUFFICES ASSUME NEW k \in Objects
               PROVE  G[k].ref + e[k] + Is(k, LX(H, X)[l]) = f[k] + H[k].ref + Is(k, LX(G, Y)[l])
    BY Zenon
  <2>1. H[k].ref \in Nat /\ e[k] \in Nat /\ f[k] \in Nat /\ k # None /\ G[k].ref = H[k].ref
    BY <1>0, <1>1 DEF ObjectType, Objects, None
  <2> HIDE DEF l, Y
  <2> QED
    BY <1>8, <2>1 DEF Moves, Is
<1>11. Balance(G, f, Y)
  <2> HIDE DEF l, Y
  <2>1. Shift(H, G, e, f, X, Y, l)
    BY <1>0, <1>1, <1>8, <1>9, <1>10 DEF Shift
  <2> QED
    BY <1>0, <2>1, Rebalance
<1> QED
  BY <1>0, <1>1, <1>3, <1>4, <1>5, <1>6, <1>7, <1>11 DEF HeapOK

(* An object is freed. *)
Frees(H, G, h) == G \in Heaps /\ G[h] = Gone /\ \A o \in Objects \ {h} : G[o] = H[o]

LEMMA GoneIs ==
  /\ Gone \in ObjectType /\ Formed(Gone) /\ Gone.kind = "none" /\ Gone.ref = 0
  /\ \A f \in Fields : Link(Gone, f) = None
<1>1. Unbound \in [Slots -> Handles] /\ \A s \in Slots : Unbound[s] = None
  BY DEF Unbound, Handles
<1>2. Gone \in ObjectType
  BY <1>1 DEF Gone, ObjectType, Handles, Values, Unset
<1>3. Formed(Gone)
  BY DEF Formed, Gone, Hosted, Plain
<1>4. \A f \in Fields : Link(Gone, f) = None
  BY <1>1, SlotFields DEF Link, Gone
<1> QED
  BY <1>2, <1>3, <1>4, Zenon DEF Gone

LEMMA Freeing ==
  ASSUME NEW H \in Heaps, NEW h \in Objects
  PROVE  Frees(H, [H EXCEPT ![h] = Gone], h)
BY GoneIs DEF Frees, Heaps

(* The references it had come from outside the heap then: that on the device is left. *)
Leaves(H, X, h, Y) ==
  /\ Taken(Y) /\ \A m \in Links : m[1] # h => (m \in X <=> m \in Y)
  /\ \A m \in Links : m[1] = h /\ m[2] # "dev" => LX(H, X)[m] = None

Freed(H, h, e, f) ==
  /\ f \in [Objects -> Nat] /\ f[h] = 0 /\ H[h].ref = e[h]
  /\ \A k \in Objects \ {h} : f[k] = e[k] + Is(k, Link(H[h], "dev"))

LEMMA FreedBalance ==
  ASSUME NEW H, H \in Heaps, NEW e, e \in [Objects -> Nat], NEW X, Taken(X), Balance(H, e, X),
         NEW h \in Objects, Link(H[h], "dev") # h, NEW f, Freed(H, h, e, f), NEW Y, Leaves(H, X, h, Y),
         NEW G, Frees(H, G, h)
  PROVE  Balance(G, f, Y)
<1> DEFINE p == "dev"
           l == <<h, p>>
<1>1. /\ G \in Heaps /\ G[h] = Gone /\ \A o \in Objects \ {h} : G[o] = H[o]
      /\ f \in [Objects -> Nat]
  BY DEF Frees, Freed
<1>2. p \in Others /\ p \in Fields
  BY SlotFields DEF Others
<1>3. l \in Links /\ LX(H, X)[l] = Link(H[h], "dev") /\ LX(G, Y)[l] = None
  <2> HIDE DEF p
  <2>1. l \in Links /\ LX(H, X)[l] = Link(H[h], p)
    BY <1>2, FieldLink
  <2>2. LX(G, Y)[l] = Link(G[h], p)
    BY <1>2, FieldLink DEF Leaves
  <2>3. Link(G[h], p) = None
    BY <1>1, <1>2, GoneIs
  <2> QED
    BY <2>1, <2>2, <2>3 DEF p
<1>4. \A m \in Links \ {l} : LX(G, Y)[m] = LX(H, X)[m]
  <2> SUFFICES ASSUME NEW m \in Links, m # l PROVE LX(G, Y)[m] = LX(H, X)[m]
    OBVIOUS
  <2>0. m = <<m[1], m[2]>> /\ m[1] \in Objects /\ m[2] \in Fields
    BY LinkPairs
  <2>1. CASE m[1] # h
    <3>1. m \in X <=> m \in Y
      BY <2>1 DEF Leaves
    <3> QED
      BY <1>1, <2>0, <2>1, <3>1 DEF LX
  <2>2. CASE m[1] = h
    <3>1. LX(H, X)[m] = None
      BY <2>0, <2>2 DEF Leaves
    <3>2. Link(G[m[1]], m[2]) = None
      BY <1>1, <2>0, <2>2, GoneIs
    <3> QED
      BY <3>1, <3>2 DEF LX
  <2> QED
    BY <2>1, <2>2
<1>5. \A k \in Objects : G[k].ref + e[k] + Is(k, LX(H, X)[l]) = f[k] + H[k].ref + Is(k, LX(G, Y)[l])
  <2> SUFFICES ASSUME NEW k \in Objects
               PROVE  G[k].ref + e[k] + Is(k, LX(H, X)[l]) = f[k] + H[k].ref + Is(k, LX(G, Y)[l])
    OBVIOUS
  <2>1. H[k].ref \in Nat /\ e[k] \in Nat /\ f[k] \in Nat /\ k # None
    BY FieldTypes DEF Freed, Objects, None
  <2> HIDE DEF l
  <2>2. CASE k = h
    BY <1>1, <1>3, <2>1, <2>2, GoneIs DEF Freed, Is
  <2>3. CASE k # h
    BY <1>1, <1>3, <2>1, <2>3 DEF Freed, Is
  <2> QED
    BY <2>2, <2>3
<1> HIDE DEF l
<1>6. Shift(H, G, e, f, X, Y, l)
  BY <1>1, <1>3, <1>4, <1>5 DEF Shift
<1> QED
  BY <1>6, Rebalance

LEMMA NoLinksTo ==
  ASSUME NEW H, NEW e, NEW X, HeapOK(H, e, X), NEW h \in Objects, H[h].ref = e[h]
  PROVE  /\ \A o \in Objects : Link(H[o], "dev") # h /\ Link(H[o], "peer") # h /\ H[o].recording # h
         /\ \A o \in Objects, s \in Slots : <<o, s>> \notin X => H[o].bound[s] # h
<1>1. \A l \in Links : LX(H, X)[l] # h
  BY Counting
<1>2. Taken(X)
  BY DEF HeapOK, Taken
<1>3. ASSUME NEW o \in Objects, NEW p \in Others
      PROVE  Link(H[o], p) # h
  <2>1. <<o, p>> \in Links /\ LX(H, X)[<<o, p>>] = Link(H[o], p)
    BY <1>2, FieldLink
  <2> QED
    BY <1>1, <2>1
<1>4. ASSUME NEW o \in Objects, NEW s \in Slots, <<o, s>> \notin X
      PROVE  H[o].bound[s] # h
  <2>1. <<o, s>> \in Links /\ LX(H, X)[<<o, s>>] = H[o].bound[s]
    BY <1>4, SlotLink
  <2> QED
    BY <1>1, <2>1
<1>5. \A o : Link(o, "recording") = o.recording
  BY DEF Link
<1> QED
  BY <1>3, <1>4, <1>5 DEF Others

LEMMA FreedHeap ==
  ASSUME NEW H, NEW e, NEW X, HeapOK(H, e, X), NEW h \in Objects,
         H[h].kind \notin {"none", "level"}, H[h].kind = "texture" => H[h].peer = None,
         NEW f, Freed(H, h, e, f), NEW Y, Leaves(H, X, h, Y), NEW G, Frees(H, G, h)
  PROVE  HeapOK(G, f, Y)
<1>0. /\ H \in Heaps /\ e \in [Objects -> Nat] /\ Taken(X) /\ Balance(H, e, X)
      /\ HasDevice(H) /\ Records(H) /\ Peers(H) /\ BoundFit(H, X)
  BY DEF HeapOK, Taken
<1>1. /\ G \in Heaps /\ G[h] = Gone /\ \A o \in Objects \ {h} : G[o] = H[o]
      /\ f \in [Objects -> Nat]
  BY DEF Frees, Freed
<1>2. /\ \A o \in Objects : Link(H[o], "dev") # h /\ Link(H[o], "peer") # h /\ H[o].recording # h
      /\ \A o \in Objects, s \in Slots : <<o, s>> \notin X => H[o].bound[s] # h
  BY NoLinksTo DEF Freed
<1>3. Balance(G, f, Y)
  BY <1>0, <1>2, FreedBalance
<1>4. \A o \in Objects : Formed(G[o])
  BY <1>1, GoneIs DEF HeapOK
<1>5. HasDevice(G)
  <2>1. \A o \in Objects : H[o].kind # "backbuffer" => H[o].dev # h
    BY <1>2 DEF Link
  <2> QED
    BY <1>0, <1>1, <2>1, GoneIs DEF HasDevice
<1>6. Records(G)
  <2>1. \A o \in Objects : H[o].recording # None => H[o].recording \in Objects
    BY <1>0, FieldTypes, ObjectOrNone
  <2> QED
    BY <1>0, <1>1, <1>2, <2>1, GoneIs DEF Records
<1>7. Peers(G)
  <2>1. \A o \in Objects : H[o].peer # None => H[o].peer \in Objects
    BY <1>0, FieldTypes, ObjectOrNone
  <2>2. \A o \in Objects : H[o].kind = "device" => H[o].peer # h
    BY <1>2 DEF Link
  <2>3. \A o \in Objects \ {h} : H[o].kind = "level" /\ H[o].named => H[o].peer # h
    BY <1>0 DEF Peers, Objects, None
  <2>4. \A o \in Objects \ {h} : H[o].kind = "texture" /\ H[o].peer # None => H[o].peer # h
    BY <1>0 DEF Peers
  <2>5. \A o \in Objects : G[o].kind # "none" => o # h
    BY <1>1, GoneIs
  <2> SUFFICES ASSUME NEW o \in Objects \ {h}
               PROVE  /\ H[o].kind = "device" /\ H[o].peer # None =>
                           G[H[o].peer].kind = "backbuffer" /\ G[H[o].peer].dev = o
                      /\ H[o].kind = "level" /\ H[o].named =>
                           /\ H[o].peer \in Objects /\ G[H[o].peer].kind = "texture"
                           /\ G[H[o].peer].peer = o /\ G[H[o].peer].dev = H[o].dev
                      /\ H[o].kind = "texture" /\ H[o].peer # None =>
                           /\ G[H[o].peer].kind = "level" /\ G[H[o].peer].peer = o
                           /\ G[H[o].peer].named /\ G[H[o].peer].dev = H[o].dev
    BY <1>1, <2>5 DEF Peers
  <2>6. H[o].kind = "device" /\ H[o].peer # None => G[H[o].peer] = H[H[o].peer]
    BY <1>1, <2>1, <2>2
  <2>7. H[o].kind = "level" /\ H[o].named => G[H[o].peer] = H[H[o].peer]
    BY <1>0, <1>1, <2>3 DEF Peers
  <2>8. H[o].kind = "texture" /\ H[o].peer # None => G[H[o].peer] = H[H[o].peer]
    BY <1>1, <2>1, <2>4
  <2> QED
    BY <1>0, <2>6, <2>7, <2>8 DEF Peers
<1>8. BoundFit(G, Y)
  <2> SUFFICES ASSUME NEW k \in Objects, NEW z \in Slots, <<k, z>> \notin Y, G[k].bound[z] # None
               PROVE  /\ Fits(z, G[G[k].bound[z]].kind)
                      /\ G[G[k].bound[z]].dev = Owner(G, k)
    BY DEF BoundFit
  <2>1. k # h
    <3>1. \A s \in Slots : Gone.bound[s] = None
      BY DEF Gone, Unbound
    <3> QED
      BY <1>1, <3>1
  <2>2. <<k, z>> \in Links /\ <<k, z>>[1] = k
    BY SlotLink
  <2>3. <<k, z>> \notin X
    BY <2>1, <2>2 DEF Leaves
  <2>4. H[k].bound[z] \in Objects /\ H[k].bound[z] # h /\ G[k].bound[z] = H[k].bound[z]
    BY <1>0, <1>1, <1>2, <2>1, <2>3, FieldTypes, ObjectOrNone
  <2>5. Owner(G, k) = Owner(H, k)
    BY <1>1, <2>1 DEF Owner
  <2>6. Fits(z, H[H[k].bound[z]].kind) /\ H[H[k].bound[z]].dev = Owner(H, k)
    BY <1>0, <2>1, <2>3, <2>4, <1>1 DEF BoundFit
  <2> QED
    BY <1>1, <2>4, <2>5, <2>6
<1> QED
  BY <1>1, <1>3, <1>4, <1>5, <1>6, <1>7, <1>8 DEF HeapOK, Leaves, Taken

LEMMA LeavesPlain ==
  ASSUME NEW H, NEW X, Taken(X), NEW h \in Objects, Formed(H[h]),
         H[h].kind \notin {"none", "device", "block"}, H[h].kind = "level" => ~(H[h].ref > 0),
         \A s \in Slots : <<h, s>> \notin X
  PROVE  Leaves(H, X, h, X)
<1> SUFFICES ASSUME NEW m \in Links, m[1] = h, m[2] # "dev" PROVE LX(H, X)[m] = None
  BY DEF Leaves
<1>1. m = <<h, m[2]>> /\ m[2] \in Fields
  BY LinkPairs
<1>2. H[h].recording = None /\ H[h].bound = Unbound /\ Link(H[h], "peer") = None
  BY DEF Formed, Link
<1>3. CASE m[2] \in Slots
  <2>1. Link(H[h], m[2]) = H[h].bound[m[2]]
    BY <1>3, SlotFields
  <2>2. Unbound[m[2]] = None
    BY <1>3 DEF Unbound
  <2>3. Link(H[m[1]], m[2]) = None
    BY <1>2, <2>1, <2>2
  <2> QED
    BY <2>3 DEF LX
<1>4. CASE m[2] \in {"recording", "peer"}
  <2>1. Link(H[m[1]], m[2]) = None
    BY <1>2, <1>4 DEF Link
  <2> QED
    BY <2>1 DEF LX
<1> QED
  BY <1>1, <1>3, <1>4, SlotFields

(* A texture goes, with the level surface it caches. *)
LEMMA FreedTexture ==
  ASSUME NEW H, NEW e, NEW X, HeapOK(H, e, X), NEW t \in Objects, H[t].kind = "texture",
         NEW s \in Objects, H[t].peer = s, H[s].ref = e[s],
         NEW F, Frees(H, F, s), NEW i, Freed(H, s, e, i),
         NEW f, Freed(F, t, i, f), NEW G, Frees(F, G, t),
         \A z \in Slots : <<t, z>> \notin X /\ <<s, z>> \notin X
  PROVE  HeapOK(G, f, X)
<1>0. /\ H \in Heaps /\ e \in [Objects -> Nat] /\ Taken(X) /\ Balance(H, e, X)
      /\ HasDevice(H) /\ Records(H) /\ Peers(H) /\ BoundFit(H, X) /\ \A o \in Objects : Formed(H[o])
  BY DEF HeapOK, Taken
<1>1. H[s].kind = "level" /\ H[s].peer = t /\ H[s].named /\ s # t
  BY <1>0 DEF Peers, Objects, None
<1>2. /\ F \in Heaps /\ F[s] = Gone /\ \A o \in Objects \ {s} : F[o] = H[o]
      /\ i \in [Objects -> Nat]
  BY DEF Frees, Freed
<1>3. /\ G \in Heaps /\ G[t] = Gone /\ G[s] = Gone /\ \A o \in Objects \ {s, t} : G[o] = H[o]
      /\ f \in [Objects -> Nat]
  BY <1>1, <1>2 DEF Frees, Freed
<1>4. H[t].ref = e[t]
  <2>1. Link(H[s], "dev") = H[s].dev /\ H[s].dev # t
    BY <1>0, <1>1 DEF Link, HasDevice
  <2>2. i[t] = e[t]
    BY <1>0, <1>1, <2>1 DEF Freed, Is
  <2> QED
    BY <1>1, <1>2, <2>2 DEF Freed
<1>5. /\ \A o \in Objects : Link(H[o], "dev") # s /\ Link(H[o], "peer") # s /\ H[o].recording # s
      /\ \A o \in Objects, z \in Slots : <<o, z>> \notin X => H[o].bound[z] # s
  BY NoLinksTo
<1>6. /\ \A o \in Objects : Link(H[o], "dev") # t /\ Link(H[o], "peer") # t /\ H[o].recording # t
      /\ \A o \in Objects, z \in Slots : <<o, z>> \notin X => H[o].bound[z] # t
  BY <1>4, NoLinksTo
<1>7. ~(H[s].ref > 0)
  BY <1>1, <1>6 DEF Link
<1>8. Balance(F, i, X)
  <2>1. Leaves(H, X, s, X)
    BY <1>0, <1>1, <1>7, LeavesPlain, Zenon
  <2> QED
    BY <1>0, <1>5, <2>1, FreedBalance
<1>9. Balance(G, f, X)
  <2>1. Leaves(F, X, t, X)
    BY <1>0, <1>1, <1>2, LeavesPlain, Zenon
  <2>2. Link(F[t], "dev") # t
    BY <1>1, <1>2, <1>6
  <2> QED
    BY <1>0, <1>2, <1>8, <2>1, <2>2, FreedBalance
<1>10. \A o \in Objects : Formed(G[o])
  BY <1>0, <1>3, GoneIs
<1>11. HasDevice(G)
  <2>1. \A o \in Objects : H[o].kind # "backbuffer" => H[o].dev \notin {s, t}
    BY <1>5, <1>6 DEF Link
  <2> QED
    BY <1>0, <1>3, <2>1, GoneIs DEF HasDevice
<1>12. Records(G)
  <2>1. \A o \in Objects : H[o].recording # None => H[o].recording \in Objects
    BY <1>0, FieldTypes, ObjectOrNone
  <2> QED
    BY <1>0, <1>3, <1>5, <1>6, <2>1, GoneIs DEF Records
<1>13. Peers(G)
  <2>1. \A o \in Objects : H[o].peer # None => H[o].peer \in Objects
    BY <1>0, FieldTypes, ObjectOrNone
  <2>2. \A o \in Objects : H[o].kind = "device" => H[o].peer \notin {s, t}
    BY <1>5, <1>6 DEF Link
  <2>3. \A o \in Objects \ {s, t} : H[o].kind = "level" /\ H[o].named => H[o].peer \notin {s, t}
    BY <1>0, <1>1 DEF Peers
  <2>4. \A o \in Objects \ {s, t} : H[o].kind = "texture" /\ H[o].peer # None => H[o].peer \notin {s, t}
    BY <1>0, <1>1 DEF Peers
  <2>5. \A o \in Objects : G[o].kind # "none" => o \notin {s, t}
    BY <1>3, GoneIs
  <2> SUFFICES ASSUME NEW o \in Objects \ {s, t}
               PROVE  /\ H[o].kind = "device" /\ H[o].peer # None =>
                           G[H[o].peer].kind = "backbuffer" /\ G[H[o].peer].dev = o
                      /\ H[o].kind = "level" /\ H[o].named =>
                           /\ H[o].peer \in Objects /\ G[H[o].peer].kind = "texture"
                           /\ G[H[o].peer].peer = o /\ G[H[o].peer].dev = H[o].dev
                      /\ H[o].kind = "texture" /\ H[o].peer # None =>
                           /\ G[H[o].peer].kind = "level" /\ G[H[o].peer].peer = o
                           /\ G[H[o].peer].named /\ G[H[o].peer].dev = H[o].dev
    BY <1>3, <2>5 DEF Peers
  <2>6. H[o].kind = "device" /\ H[o].peer # None => G[H[o].peer] = H[H[o].peer]
    BY <1>3, <2>1, <2>2
  <2>7. H[o].kind = "level" /\ H[o].named => G[H[o].peer] = H[H[o].peer]
    BY <1>0, <1>3, <2>3 DEF Peers
  <2>8. H[o].kind = "texture" /\ H[o].peer # None => G[H[o].peer] = H[H[o].peer]
    BY <1>3, <2>1, <2>4
  <2> QED
    BY <1>0, <2>6, <2>7, <2>8 DEF Peers
<1>14. BoundFit(G, X)
  <2> SUFFICES ASSUME NEW k \in Objects, NEW z \in Slots, <<k, z>> \notin X, G[k].bound[z] # None
               PROVE  /\ Fits(z, G[G[k].bound[z]].kind)
                      /\ G[G[k].bound[z]].dev = Owner(G, k)
    BY DEF BoundFit
  <2>1. k \notin {s, t}
    <3>1. \A y \in Slots : Gone.bound[y] = None
      BY DEF Gone, Unbound
    <3> QED
      BY <1>3, <3>1
  <2>2. H[k].bound[z] \in Objects \ {s, t} /\ G[k].bound[z] = H[k].bound[z]
    BY <1>0, <1>3, <1>5, <1>6, <2>1, FieldTypes, ObjectOrNone
  <2>3. Owner(G, k) = Owner(H, k)
    BY <1>3, <2>1 DEF Owner
  <2>4. Fits(z, H[H[k].bound[z]].kind) /\ H[H[k].bound[z]].dev = Owner(H, k)
    BY <1>0, <1>3, <2>1, <2>2 DEF BoundFit
  <2> QED
    BY <1>3, <2>2, <2>3, <2>4
<1> QED
  BY <1>0, <1>3, <1>9, <1>10, <1>11, <1>12, <1>13, <1>14 DEF HeapOK

(* A handle is taken for a new object: its references are all from outside the heap. *)
Gets(H, G, h, o) == G \in Heaps /\ G[h] = o /\ \A k \in Objects \ {h} : G[k] = H[k]

LEMMA Getting ==
  ASSUME NEW H \in Heaps, NEW h \in Objects, NEW o \in ObjectType
  PROVE  Gets(H, [H EXCEPT ![h] = o], h, o)
BY DEF Gets, Heaps

NewObject(H, o) ==
  /\ o \in ObjectType /\ Formed(o) /\ o.kind # "none" /\ o.bound = Unbound /\ o.recording = None
  /\ o.kind = "level" => ~o.named
  /\ o.kind \in {"texture", "device"} => o.peer = None
  /\ o.kind \notin {"device", "backbuffer"} => o.dev \in Objects /\ H[o.dev].kind = "device"

MadeRefs(h, o, e, f) ==
  /\ f \in [Objects -> Nat] /\ f[h] = o.ref
  /\ \A k \in Objects \ {h} : f[k] + Is(k, Link(o, "dev")) = e[k]

LEMMA Made ==
  ASSUME NEW H, NEW e, NEW X, HeapOK(H, e, X), NEW h \in Objects, H[h].kind = "none",
         NEW o, NewObject(H, o), NEW f, MadeRefs(h, o, e, f), NEW G, Gets(H, G, h, o)
  PROVE  HeapOK(G, f, X)
<1> DEFINE p == "dev"
           l == <<h, p>>
<1>0. /\ H \in Heaps /\ e \in [Objects -> Nat] /\ Taken(X) /\ Balance(H, e, X)
      /\ HasDevice(H) /\ Records(H) /\ Peers(H) /\ BoundFit(H, X) /\ \A k \in Objects : Formed(H[k])
  BY DEF HeapOK, Taken
<1>1. /\ G \in Heaps /\ G[h] = o /\ \A k \in Objects \ {h} : G[k] = H[k]
      /\ f \in [Objects -> Nat]
  BY DEF Gets, MadeRefs
<1>2. H[h] = Gone /\ H[h].ref = 0 /\ e[h] = 0
  <2>1. H[h] = Gone
    BY <1>0 DEF Formed
  <2>2. H[h].ref >= e[h] /\ e[h] \in Nat
    BY Counting
  <2> QED
    BY <2>1, <2>2, GoneIs
<1>3. /\ o.kind # "none" /\ o.bound = Unbound /\ o.recording = None /\ Link(o, "peer") = None
      /\ \A s \in Slots : o.bound[s] = None
  <2>1. \A s \in Slots : Unbound[s] = None
    BY DEF Unbound
  <2> QED
    BY <2>1 DEF NewObject, Formed, Link
<1>4. p \in Others /\ p \in Fields
  BY SlotFields DEF Others
<1>5. l \in Links /\ LX(H, X)[l] = None /\ LX(G, X)[l] = Link(o, "dev")
  <2> HIDE DEF p
  <2>1. l \in Links /\ LX(H, X)[l] = Link(H[h], p)
    BY <1>0, <1>4, FieldLink
  <2>2. LX(G, X)[l] = Link(G[h], p)
    BY <1>0, <1>4, FieldLink
  <2>3. Link(H[h], p) = None
    BY <1>2, <1>4, GoneIs
  <2> QED
    BY <1>1, <2>1, <2>2, <2>3 DEF p
<1>6. \A m \in Links \ {l} : LX(G, X)[m] = LX(H, X)[m]
  <2> SUFFICES ASSUME NEW m \in Links, m # l PROVE Link(G[m[1]], m[2]) = Link(H[m[1]], m[2])
    BY DEF LX
  <2>1. CASE m[1] # h
    BY <1>1, <2>1, LinkPairs
  <2>2. CASE m[1] = h
    <3>1. m[2] # "dev" /\ m[2] \in Fields
      BY <2>2, LinkPairs
    <3>2. m[2] \in Slots => Link(o, m[2]) = None
      BY <1>3, SlotFields
    <3>3. m[2] = "recording" => Link(o, m[2]) = None
      BY <1>3 DEF Link
    <3>4. m[2] = "peer" => Link(o, m[2]) = None
      BY <1>3
    <3>5. Link(o, m[2]) = None
      BY <3>1, <3>2, <3>3, <3>4, SlotFields
    <3> QED
      BY <1>1, <1>2, <2>2, <3>1, <3>5, GoneIs
  <2> QED
    BY <2>1, <2>2
<1>7. Link(o, "dev") # h
  BY <1>2, GoneIs DEF NewObject, Formed, Link, Objects, None
<1>8. \A k \in Objects : G[k].ref + e[k] + Is(k, LX(H, X)[l]) = f[k] + H[k].ref + Is(k, LX(G, X)[l])
  <2> SUFFICES ASSUME NEW k \in Objects
               PROVE  G[k].ref + e[k] + Is(k, LX(H, X)[l]) = f[k] + H[k].ref + Is(k, LX(G, X)[l])
    OBVIOUS
  <2>1. /\ H[k].ref \in Nat /\ e[k] \in Nat /\ f[k] \in Nat /\ k # None /\ G[k].ref \in Nat
        /\ Is(k, Link(o, "dev")) \in Nat
    BY <1>0, <1>1, FieldTypes DEF Objects, None, Is
  <2> HIDE DEF l
  <2>2. CASE k = h
    BY <1>1, <1>2, <1>5, <1>7, <2>1, <2>2 DEF MadeRefs, Is
  <2>3. CASE k # h
    <3>1. f[k] + Is(k, Link(o, "dev")) = e[k] /\ Is(k, None) = 0 /\ G[k].ref = H[k].ref
      BY <1>1, <2>1, <2>3 DEF MadeRefs, Is
    <3> QED
      BY <1>5, <2>1, <3>1
  <2> QED
    BY <2>2, <2>3
<1>9. Balance(G, f, X)
  <2> HIDE DEF l
  <2>1. Shift(H, G, e, f, X, X, l)
    BY <1>0, <1>1, <1>5, <1>6, <1>8 DEF Shift
  <2> QED
    BY <1>0, <2>1, Rebalance
<1>10. \A k \in Objects : Formed(G[k])
  BY <1>0, <1>1 DEF NewObject
<1>11. \A k \in Objects : H[k].kind # "none" => k # h
  BY <1>2, GoneIs
<1>12. HasDevice(G)
  <2>1. ASSUME NEW k \in Objects, G[k].kind \notin {"none", "device", "backbuffer"}
        PROVE  G[k].dev \in Objects /\ H[G[k].dev].kind = "device"
    <3>1. CASE k = h
      BY <1>1, <2>1, <3>1 DEF NewObject
    <3>2. CASE k # h
      BY <1>0, <1>1, <2>1, <3>2 DEF HasDevice
    <3> QED
      BY <3>1, <3>2
  <2> QED
    BY <1>1, <1>11, <2>1 DEF HasDevice
<1>13. Records(G)
  <2>1. \A k \in Objects : H[k].recording # None => H[k].recording \in Objects
    BY <1>0, FieldTypes, ObjectOrNone
  <2> QED
    BY <1>0, <1>1, <1>3, <1>11, <2>1 DEF Records
<1>14. Peers(G)
  <2>1. \A k \in Objects : H[k].peer # None => H[k].peer \in Objects
    BY <1>0, FieldTypes, ObjectOrNone
  <2> SUFFICES ASSUME NEW k \in Objects \ {h}
               PROVE  /\ H[k].kind = "device" /\ H[k].peer # None =>
                           G[H[k].peer].kind = "backbuffer" /\ G[H[k].peer].dev = k
                      /\ H[k].kind = "level" /\ H[k].named =>
                           /\ H[k].peer \in Objects /\ G[H[k].peer].kind = "texture"
                           /\ G[H[k].peer].peer = k /\ G[H[k].peer].dev = H[k].dev
                      /\ H[k].kind = "texture" /\ H[k].peer # None =>
                           /\ G[H[k].peer].kind = "level" /\ G[H[k].peer].peer = k
                           /\ G[H[k].peer].named /\ G[H[k].peer].dev = H[k].dev
    BY <1>1, <1>3 DEF Peers, NewObject
  <2>2. H[k].kind = "device" /\ H[k].peer # None => G[H[k].peer] = H[H[k].peer]
    BY <1>0, <1>1, <1>11, <2>1 DEF Peers
  <2>3. H[k].kind = "level" /\ H[k].named => G[H[k].peer] = H[H[k].peer]
    BY <1>0, <1>1, <1>11 DEF Peers
  <2>4. H[k].kind = "texture" /\ H[k].peer # None => G[H[k].peer] = H[H[k].peer]
    BY <1>0, <1>1, <1>11, <2>1 DEF Peers
  <2> QED
    BY <1>0, <2>2, <2>3, <2>4 DEF Peers
<1>15. BoundFit(G, X)
  <2> SUFFICES ASSUME NEW k \in Objects, NEW z \in Slots, <<k, z>> \notin X, G[k].bound[z] # None
               PROVE  /\ Fits(z, G[G[k].bound[z]].kind)
                      /\ G[G[k].bound[z]].dev = Owner(G, k)
    BY DEF BoundFit
  <2>1. k # h
    BY <1>1, <1>3
  <2>2. H[k].bound[z] \in Objects /\ G[k].bound[z] = H[k].bound[z]
    BY <1>0, <1>1, <2>1, FieldTypes, ObjectOrNone
  <2>3. Owner(G, k) = Owner(H, k)
    BY <1>1, <2>1 DEF Owner
  <2>4. Fits(z, H[H[k].bound[z]].kind) /\ H[H[k].bound[z]].dev = Owner(H, k)
    BY <1>0, <2>2 DEF BoundFit
  <2>5. H[k].bound[z] # h
    <3>1. ~Fits(z, "none")
      BY DEF Fits, Slots, Content
    <3> QED
      BY <1>2, <2>4, <3>1, GoneIs
  <2> QED
    BY <1>1, <2>2, <2>3, <2>4, <2>5
<1> QED
  BY <1>0, <1>1, <1>9, <1>10, <1>12, <1>13, <1>14, <1>15 DEF HeapOK, Taken

(* A device is given its back buffer, or a block to record into, or loses it. *)
PeerSets(H, G, d, b) ==
  /\ G \in Heaps /\ G[d].peer = b /\ \A k \in Objects \ {d} : G[k] = H[k]
  /\ G[d].kind = H[d].kind /\ G[d].ref = H[d].ref /\ G[d].named = H[d].named /\ G[d].dev = H[d].dev
  /\ G[d].recording = H[d].recording /\ G[d].bound = H[d].bound /\ G[d].value = H[d].value /\ G[d].marks = H[d].marks

LEMMA PeerSetting ==
  ASSUME NEW H \in Heaps, NEW d \in Objects, NEW b \in Handles
  PROVE  PeerSets(H, [H EXCEPT ![d].peer = b], d, b)
BY DEF PeerSets, Heaps, ObjectType

LEMMA PeerSet ==
  ASSUME NEW H, NEW e, NEW X, HeapOK(H, e, X), NEW d \in Objects, H[d].kind = "device",
         NEW b \in Handles, b # None => H[b].kind = "backbuffer" /\ H[b].dev = d,
         NEW f, Moves(e, f, b, H[d].peer), NEW G, PeerSets(H, G, d, b)
  PROVE  HeapOK(G, f, X)
<1> DEFINE p == "peer"
           l == <<d, p>>
<1>0. /\ H \in Heaps /\ e \in [Objects -> Nat] /\ Taken(X) /\ Balance(H, e, X)
      /\ HasDevice(H) /\ Records(H) /\ Peers(H) /\ BoundFit(H, X) /\ \A k \in Objects : Formed(H[k])
  BY DEF HeapOK, Taken
<1>1. /\ G \in Heaps /\ G[d].peer = b /\ \A k \in Objects \ {d} : G[k] = H[k]
      /\ \A k \in Objects : /\ G[k].kind = H[k].kind /\ G[k].ref = H[k].ref /\ G[k].named = H[k].named
                            /\ G[k].dev = H[k].dev /\ G[k].recording = H[k].recording /\ G[k].bound = H[k].bound
                            /\ (k # d => G[k].peer = H[k].peer)
      /\ f \in [Objects -> Nat]
  BY DEF PeerSets, Moves
<1>2. p \in Others
  BY DEF Others
<1>3. l \in Links /\ LX(H, X)[l] = H[d].peer /\ LX(G, X)[l] = b
  <2> HIDE DEF p
  <2>1. l \in Links /\ LX(H, X)[l] = Link(H[d], p)
    BY <1>0, <1>2, FieldLink
  <2>2. LX(G, X)[l] = Link(G[d], p)
    BY <1>0, <1>2, FieldLink
  <2> QED
    BY <1>1, <2>1, <2>2 DEF p, Link
<1>4. \A m \in Links \ {l} : LX(G, X)[m] = LX(H, X)[m]
  <2> SUFFICES ASSUME NEW m \in Links, m # l PROVE Link(G[m[1]], m[2]) = Link(H[m[1]], m[2])
    BY DEF LX
  <2>1. CASE m[1] # d
    BY <1>1, <2>1, LinkPairs
  <2>2. CASE m[1] = d
    <3>1. m[2] # "peer"
      BY <2>2, LinkPairs
    <3> QED
      BY <1>1, <2>2, <3>1 DEF Link
  <2> QED
    BY <2>1, <2>2
<1>5. \A k \in Objects : G[k].ref + e[k] + Is(k, LX(H, X)[l]) = f[k] + H[k].ref + Is(k, LX(G, X)[l])
  <2> SUFFICES ASSUME NEW k \in Objects
               PROVE  G[k].ref + e[k] + Is(k, LX(H, X)[l]) = f[k] + H[k].ref + Is(k, LX(G, X)[l])
    OBVIOUS
  <2>1. H[k].ref \in Nat /\ e[k] \in Nat /\ f[k] \in Nat /\ k # None /\ G[k].ref = H[k].ref
    BY <1>0, <1>1, FieldTypes DEF Objects, None
  <2> HIDE DEF l
  <2> QED
    BY <1>3, <2>1 DEF Moves, Is
<1>6. Balance(G, f, X)
  <2> HIDE DEF l
  <2>1. Shift(H, G, e, f, X, X, l)
    BY <1>0, <1>1, <1>3, <1>4, <1>5 DEF Shift
  <2> QED
    BY <1>0, <2>1, Rebalance
<1>7. \A k \in Objects : Formed(G[k])
  <2>1. Formed(G[d])
    <3>1. Formed(H[d])
      BY <1>0
    <3>2. "device" \notin Hosted
      BY DEF Hosted, Plain
    <3> QED
      BY <1>1, <3>1, <3>2 DEF Formed
  <2> QED
    BY <1>0, <1>1, <2>1
<1>8. HasDevice(G)
  BY <1>0, <1>1 DEF HasDevice
<1>9. Records(G)
  <2>1. \A k \in Objects : G[k].recording # None => G[k].recording \in Objects
    BY <1>1, FieldTypes, ObjectOrNone
  <2> QED
    BY <1>0, <1>1, <2>1 DEF Records
<1>10. Peers(G)
  <2>1. \A k \in Objects : G[k].peer # None => G[k].peer \in Objects
    BY <1>1, FieldTypes, ObjectOrNone
  <2>2. \A k \in Objects : H[k].kind # "device" => G[k] = H[k]
    BY <1>1
  <2> SUFFICES ASSUME NEW k \in Objects
               PROVE  /\ G[k].kind = "device" /\ G[k].peer # None =>
                           G[G[k].peer].kind = "backbuffer" /\ G[G[k].peer].dev = k
                      /\ G[k].kind = "level" /\ G[k].named =>
                           /\ G[k].peer \in Objects /\ G[G[k].peer].kind = "texture"
                           /\ G[G[k].peer].peer = k /\ G[G[k].peer].dev = G[k].dev
                      /\ G[k].kind = "texture" /\ G[k].peer # None =>
                           /\ G[G[k].peer].kind = "level" /\ G[G[k].peer].peer = k
                           /\ G[G[k].peer].named /\ G[G[k].peer].dev = G[k].dev
    BY DEF Peers
  <2>3. G[k].kind = "device" /\ G[k].peer # None =>
          G[G[k].peer].kind = "backbuffer" /\ G[G[k].peer].dev = k
    BY <1>0, <1>1, <2>1 DEF Peers
  <2>4. G[k].kind = "level" /\ G[k].named => G[k] = H[k] /\ G[H[k].peer] = H[H[k].peer]
    BY <1>0, <1>1, <2>2 DEF Peers
  <2>5. G[k].kind = "texture" /\ G[k].peer # None => G[k] = H[k] /\ G[H[k].peer] = H[H[k].peer]
    BY <1>0, <1>1, <2>1, <2>2 DEF Peers
  <2> QED
    BY <1>0, <2>3, <2>4, <2>5 DEF Peers
<1>11. BoundFit(G, X)
  <2> SUFFICES ASSUME NEW k \in Objects, NEW z \in Slots, <<k, z>> \notin X, G[k].bound[z] # None
               PROVE  /\ Fits(z, G[G[k].bound[z]].kind)
                      /\ G[G[k].bound[z]].dev = Owner(G, k)
    BY DEF BoundFit
  <2>1. G[k].bound[z] \in Objects /\ G[k].bound[z] = H[k].bound[z] /\ Owner(G, k) = Owner(H, k)
    BY <1>1, FieldTypes, ObjectOrNone DEF Owner
  <2>2. Fits(z, H[H[k].bound[z]].kind) /\ H[H[k].bound[z]].dev = Owner(H, k)
    BY <1>0, <2>1 DEF BoundFit
  <2> QED
    BY <1>1, <2>1, <2>2
<1> QED
  BY <1>0, <1>1, <1>6, <1>7, <1>8, <1>9, <1>10, <1>11 DEF HeapOK, Taken

RecordingSets(H, G, d, b) ==
  /\ G \in Heaps /\ G[d].recording = b /\ \A k \in Objects \ {d} : G[k] = H[k]
  /\ G[d].kind = H[d].kind /\ G[d].ref = H[d].ref /\ G[d].named = H[d].named /\ G[d].dev = H[d].dev
  /\ G[d].peer = H[d].peer /\ G[d].bound = H[d].bound /\ G[d].value = H[d].value /\ G[d].marks = H[d].marks

LEMMA RecordingSetting ==
  ASSUME NEW H \in Heaps, NEW d \in Objects, NEW b \in Handles
  PROVE  RecordingSets(H, [H EXCEPT ![d].recording = b], d, b)
BY DEF RecordingSets, Heaps, ObjectType

LEMMA RecordingSet ==
  ASSUME NEW H, NEW e, NEW X, HeapOK(H, e, X), NEW d \in Objects, H[d].kind = "device",
         NEW b \in Handles, b # None => H[b].kind = "block" /\ H[b].dev = d,
         NEW f, Moves(e, f, b, H[d].recording), NEW G, RecordingSets(H, G, d, b)
  PROVE  HeapOK(G, f, X)
<1> DEFINE p == "recording"
           l == <<d, p>>
<1>0. /\ H \in Heaps /\ e \in [Objects -> Nat] /\ Taken(X) /\ Balance(H, e, X)
      /\ HasDevice(H) /\ Records(H) /\ Peers(H) /\ BoundFit(H, X) /\ \A k \in Objects : Formed(H[k])
  BY DEF HeapOK, Taken
<1>1. /\ G \in Heaps /\ G[d].recording = b /\ \A k \in Objects \ {d} : G[k] = H[k]
      /\ \A k \in Objects : /\ G[k].kind = H[k].kind /\ G[k].ref = H[k].ref /\ G[k].named = H[k].named
                            /\ G[k].dev = H[k].dev /\ G[k].peer = H[k].peer /\ G[k].bound = H[k].bound
                            /\ (k # d => G[k].recording = H[k].recording)
      /\ f \in [Objects -> Nat]
  BY DEF RecordingSets, Moves
<1>2. p \in Others
  BY DEF Others
<1>3. l \in Links /\ LX(H, X)[l] = H[d].recording /\ LX(G, X)[l] = b
  <2> HIDE DEF p
  <2>1. l \in Links /\ LX(H, X)[l] = Link(H[d], p)
    BY <1>0, <1>2, FieldLink
  <2>2. LX(G, X)[l] = Link(G[d], p)
    BY <1>0, <1>2, FieldLink
  <2> QED
    BY <1>1, <2>1, <2>2 DEF p, Link
<1>4. \A m \in Links \ {l} : LX(G, X)[m] = LX(H, X)[m]
  <2> SUFFICES ASSUME NEW m \in Links, m # l PROVE Link(G[m[1]], m[2]) = Link(H[m[1]], m[2])
    BY DEF LX
  <2>1. CASE m[1] # d
    BY <1>1, <2>1, LinkPairs
  <2>2. CASE m[1] = d
    <3>1. m[2] # "recording"
      BY <2>2, LinkPairs
    <3> QED
      BY <1>1, <2>2, <3>1 DEF Link
  <2> QED
    BY <2>1, <2>2
<1>5. \A k \in Objects : G[k].ref + e[k] + Is(k, LX(H, X)[l]) = f[k] + H[k].ref + Is(k, LX(G, X)[l])
  <2> SUFFICES ASSUME NEW k \in Objects
               PROVE  G[k].ref + e[k] + Is(k, LX(H, X)[l]) = f[k] + H[k].ref + Is(k, LX(G, X)[l])
    OBVIOUS
  <2>1. H[k].ref \in Nat /\ e[k] \in Nat /\ f[k] \in Nat /\ k # None /\ G[k].ref = H[k].ref
    BY <1>0, <1>1, FieldTypes DEF Objects, None
  <2> HIDE DEF l
  <2> QED
    BY <1>3, <2>1 DEF Moves, Is
<1>6. Balance(G, f, X)
  <2> HIDE DEF l
  <2>1. Shift(H, G, e, f, X, X, l)
    BY <1>0, <1>1, <1>3, <1>4, <1>5 DEF Shift
  <2> QED
    BY <1>0, <2>1, Rebalance
<1>7. \A k \in Objects : Formed(G[k])
  <2>1. Formed(G[d])
    <3>1. Formed(H[d])
      BY <1>0
    <3>2. "device" \notin Hosted
      BY DEF Hosted, Plain
    <3> QED
      BY <1>1, <3>1, <3>2 DEF Formed
  <2> QED
    BY <1>0, <1>1, <2>1
<1>8. HasDevice(G)
  BY <1>0, <1>1 DEF HasDevice
<1>9. Records(G)
  <2>1. \A k \in Objects : G[k].recording # None => G[k].recording \in Objects
    BY <1>1, FieldTypes, ObjectOrNone
  <2> QED
    BY <1>0, <1>1, <2>1 DEF Records
<1>10. Peers(G)
  <2>1. \A k \in Objects : G[k].peer # None => G[k].peer \in Objects
    BY <1>1, FieldTypes, ObjectOrNone
  <2>2. \A k \in Objects : H[k].kind # "device" => G[k] = H[k]
    BY <1>1
  <2> SUFFICES ASSUME NEW k \in Objects
               PROVE  /\ G[k].kind = "device" /\ G[k].peer # None =>
                           G[G[k].peer].kind = "backbuffer" /\ G[G[k].peer].dev = k
                      /\ G[k].kind = "level" /\ G[k].named =>
                           /\ G[k].peer \in Objects /\ G[G[k].peer].kind = "texture"
                           /\ G[G[k].peer].peer = k /\ G[G[k].peer].dev = G[k].dev
                      /\ G[k].kind = "texture" /\ G[k].peer # None =>
                           /\ G[G[k].peer].kind = "level" /\ G[G[k].peer].peer = k
                           /\ G[G[k].peer].named /\ G[G[k].peer].dev = G[k].dev
    BY DEF Peers
  <2>3. G[k].kind = "device" /\ G[k].peer # None =>
          G[G[k].peer].kind = "backbuffer" /\ G[G[k].peer].dev = k
    BY <1>0, <1>1, <2>1 DEF Peers
  <2>4. G[k].kind = "level" /\ G[k].named => G[k] = H[k] /\ G[H[k].peer] = H[H[k].peer]
    BY <1>0, <1>1, <2>2 DEF Peers
  <2>5. G[k].kind = "texture" /\ G[k].peer # None => G[k] = H[k] /\ G[H[k].peer] = H[H[k].peer]
    BY <1>0, <1>1, <2>1, <2>2 DEF Peers
  <2> QED
    BY <1>0, <2>3, <2>4, <2>5 DEF Peers
<1>11. BoundFit(G, X)
  <2> SUFFICES ASSUME NEW k \in Objects, NEW z \in Slots, <<k, z>> \notin X, G[k].bound[z] # None
               PROVE  /\ Fits(z, G[G[k].bound[z]].kind)
                      /\ G[G[k].bound[z]].dev = Owner(G, k)
    BY DEF BoundFit
  <2>1. G[k].bound[z] \in Objects /\ G[k].bound[z] = H[k].bound[z] /\ Owner(G, k) = Owner(H, k)
    BY <1>1, FieldTypes, ObjectOrNone DEF Owner
  <2>2. Fits(z, H[H[k].bound[z]].kind) /\ H[H[k].bound[z]].dev = Owner(H, k)
    BY <1>0, <2>1 DEF BoundFit
  <2> QED
    BY <1>1, <2>1, <2>2
<1> QED
  BY <1>0, <1>1, <1>6, <1>7, <1>8, <1>9, <1>10, <1>11 DEF HeapOK, Taken

(* The level surface of a texture is told to the host, for the one who asked for it. *)
Names(H, G, h, t) ==
  /\ G \in Heaps /\ \A k \in Objects \ {h, t} : G[k] = H[k]
  /\ G[h].kind = "level" /\ G[h].ref = 1 /\ G[h].named /\ G[h].dev = H[h].dev /\ G[h].peer = t
  /\ G[h].bound = H[h].bound /\ G[h].recording = H[h].recording
  /\ G[t].kind = "texture" /\ G[t].ref = H[t].ref /\ G[t].named = H[t].named /\ G[t].dev = H[t].dev
  /\ G[t].peer = h /\ G[t].bound = H[t].bound /\ G[t].recording = H[t].recording

LEMMA LevelNamed ==
  ASSUME NEW H, NEW e, NEW X, HeapOK(H, e, X), NEW h \in Objects, NEW t \in Objects,
         H[h].kind = "level", ~H[h].named, H[h].ref = 0,
         H[t].kind = "texture", H[t].peer = None, H[t].dev = H[h].dev,
         NEW f, Moves(e, f, t, h), NEW G, Names(H, G, h, t)
  PROVE  HeapOK(G, f, X)
<1> DEFINE p == "peer"
           l == <<h, p>>
<1>0. /\ H \in Heaps /\ e \in [Objects -> Nat] /\ Taken(X) /\ Balance(H, e, X)
      /\ HasDevice(H) /\ Records(H) /\ Peers(H) /\ BoundFit(H, X) /\ \A k \in Objects : Formed(H[k])
  BY DEF HeapOK, Taken
<1>1. /\ G \in Heaps /\ f \in [Objects -> Nat] /\ h # t /\ h # None /\ t # None
      /\ \A k \in Objects \ {h, t} : G[k] = H[k]
      /\ \A k \in Objects : /\ G[k].kind = H[k].kind /\ G[k].dev = H[k].dev
                            /\ G[k].recording = H[k].recording /\ G[k].bound = H[k].bound
      /\ \A k \in Objects \ {h} : G[k].ref = H[k].ref /\ G[k].named = H[k].named
      /\ G[h].peer = t /\ G[h].ref = 1 /\ G[h].named /\ G[t].peer = h
  BY DEF Names, Moves, Objects, None
<1>2. p \in Others
  BY DEF Others
<1>3. l \in Links /\ LX(H, X)[l] = None /\ LX(G, X)[l] = t
  <2> HIDE DEF p
  <2>1. l \in Links /\ LX(H, X)[l] = Link(H[h], p)
    BY <1>0, <1>2, FieldLink
  <2>2. LX(G, X)[l] = Link(G[h], p)
    BY <1>0, <1>2, FieldLink
  <2> QED
    BY <1>1, <2>1, <2>2 DEF p, Link
<1>4. \A m \in Links \ {l} : LX(G, X)[m] = LX(H, X)[m]
  <2> SUFFICES ASSUME NEW m \in Links, m # l PROVE Link(G[m[1]], m[2]) = Link(H[m[1]], m[2])
    BY DEF LX
  <2>1. CASE m[1] \notin {h, t}
    BY <1>1, <2>1, LinkPairs
  <2>2. CASE m[1] = h
    <3>1. m[2] # "peer"
      BY <2>2, LinkPairs
    <3> QED
      BY <1>1, <2>2, <3>1 DEF Link
  <2>3. CASE m[1] = t
    BY <1>1, <2>3 DEF Link
  <2> QED
    BY <2>1, <2>2, <2>3
<1>5. \A k \in Objects : G[k].ref + e[k] + Is(k, LX(H, X)[l]) = f[k] + H[k].ref + Is(k, LX(G, X)[l])
  <2> SUFFICES ASSUME NEW k \in Objects
               PROVE  G[k].ref + e[k] + Is(k, LX(H, X)[l]) = f[k] + H[k].ref + Is(k, LX(G, X)[l])
    OBVIOUS
  <2>1. H[k].ref \in Nat /\ e[k] \in Nat /\ f[k] \in Nat /\ k # None
    BY <1>0, <1>1, FieldTypes DEF Objects, None
  <2> HIDE DEF l
  <2> QED
    BY <1>1, <1>3, <2>1 DEF Moves, Is
<1>6. Balance(G, f, X)
  <2> HIDE DEF l
  <2>1. Shift(H, G, e, f, X, X, l)
    BY <1>0, <1>1, <1>3, <1>4, <1>5 DEF Shift
  <2> QED
    BY <1>0, <2>1, Rebalance
<1>7. \A k \in Objects : Formed(G[k])
  <2>0. Formed(H[h]) /\ Formed(H[t])
    BY <1>0
  <2>1. Formed(G[h])
    <3>1. "level" \notin Hosted
      BY DEF Hosted, Plain
    <3> QED
      BY <1>1, <2>0, <3>1 DEF Formed
  <2>2. Formed(G[t])
    BY <1>1, <2>0 DEF Formed
  <2> QED
    BY <1>0, <1>1, <2>1, <2>2
<1>8. HasDevice(G)
  BY <1>0, <1>1 DEF HasDevice
<1>9. Records(G)
  <2>1. \A k \in Objects : G[k].recording # None => G[k].recording \in Objects
    BY <1>1, FieldTypes, ObjectOrNone
  <2> QED
    BY <1>0, <1>1, <2>1 DEF Records
<1>10. Peers(G)
  <2>1. \A k \in Objects : G[k].peer # None => G[k].peer \in Objects
    BY <1>1, FieldTypes, ObjectOrNone
  <2>2. ASSUME NEW k \in Objects \ {h, t}
        PROVE  /\ G[k].kind = "device" /\ G[k].peer # None =>
                    G[G[k].peer].kind = "backbuffer" /\ G[G[k].peer].dev = k
               /\ G[k].kind = "level" /\ G[k].named =>
                    /\ G[k].peer \in Objects /\ G[G[k].peer].kind = "texture"
                    /\ G[G[k].peer].peer = k /\ G[G[k].peer].dev = G[k].dev
               /\ G[k].kind = "texture" /\ G[k].peer # None =>
                    /\ G[G[k].peer].kind = "level" /\ G[G[k].peer].peer = k
                    /\ G[G[k].peer].named /\ G[G[k].peer].dev = G[k].dev
    <3>1. G[k] = H[k]
      BY <1>1
    <3>2. H[k].kind = "device" /\ H[k].peer # None =>
            G[H[k].peer].kind = "backbuffer" /\ G[H[k].peer].dev = k
      BY <1>0, <1>1, <2>1, <3>1 DEF Peers
    <3>3. H[k].kind = "level" /\ H[k].named => H[k].peer \notin {h, t}
      <4>1. H[k].kind = "level" /\ H[k].named => H[H[k].peer].kind = "texture" /\ H[H[k].peer].peer = k
        BY <1>0 DEF Peers
      <4>2. k # None
        BY DEF Objects, None
      <4> QED
        BY <4>1, <4>2
    <3>4. H[k].kind = "texture" /\ H[k].peer # None => H[k].peer \notin {h, t}
      <4>1. H[k].kind = "texture" /\ H[k].peer # None =>
              H[H[k].peer].kind = "level" /\ H[H[k].peer].named
        BY <1>0 DEF Peers
      <4>2. H[k].peer = h => ~H[H[k].peer].named
        OBVIOUS
      <4>3. H[k].peer = t => H[H[k].peer].kind # "level"
        OBVIOUS
      <4> QED
        BY <4>1, <4>2, <4>3
    <3>5. H[k].kind = "level" /\ H[k].named => G[H[k].peer] = H[H[k].peer]
      BY <1>0, <1>1, <3>3 DEF Peers
    <3>6. H[k].kind = "texture" /\ H[k].peer # None => G[H[k].peer] = H[H[k].peer]
      BY <1>1, <2>1, <3>1, <3>4
    <3> QED
      BY <1>0, <3>1, <3>2, <3>5, <3>6 DEF Peers
  <2> QED
    BY <1>1, <2>2 DEF Peers
<1>11. BoundFit(G, X)
  <2> SUFFICES ASSUME NEW k \in Objects, NEW z \in Slots, <<k, z>> \notin X, G[k].bound[z] # None
               PROVE  /\ Fits(z, G[G[k].bound[z]].kind)
                      /\ G[G[k].bound[z]].dev = Owner(G, k)
    BY DEF BoundFit
  <2>1. G[k].bound[z] \in Objects /\ G[k].bound[z] = H[k].bound[z] /\ Owner(G, k) = Owner(H, k)
    BY <1>1, FieldTypes, ObjectOrNone DEF Owner
  <2>2. Fits(z, H[H[k].bound[z]].kind) /\ H[H[k].bound[z]].dev = Owner(H, k)
    BY <1>0, <2>1 DEF BoundFit
  <2> QED
    BY <1>1, <2>1, <2>2
<1> QED
  BY <1>0, <1>1, <1>6, <1>7, <1>8, <1>9, <1>10, <1>11 DEF HeapOK, Taken

-----------------------------------------------------------------------------
(* Worlds *)

WorldFields == {"heap", "pending", "status", "host", "refused", "calls"}
IsWorld(w)  == w = [f \in DOMAIN w |-> w[f]] /\ WorldFields \subseteq DOMAIN w

HostType == [objs : SUBSET Objects, dev : Handles, bound : [Slots -> Handles],
             value : [States -> Values], lost : BOOLEAN, apart : SUBSET (Slots \cup States)]

(* What the host will be like when all is run that the window has and the  *)
(* call has said: no batch of it is refused.                               *)
Tells(w) == Told(Encoder(w), w.calls)
Sends(w) == SendAll(Encoder(w), w.calls)
Sound(w) ==
  /\ IsWorld(w) /\ Telling(Encoder(w), w.calls)
  /\ Tells(w).refused = FALSE /\ Tells(w).host \in HostType /\ Sends(w).host \in HostType

(* A world with another heap, and one with other calls, too. *)
Writes(w, v) ==
  IsWorld(v) /\ DOMAIN v = DOMAIN w /\ \A f \in DOMAIN w \ {"heap"} : v[f] = w[f]
Steps(w, v) ==
  IsWorld(v) /\ DOMAIN v = DOMAIN w /\ \A f \in DOMAIN w \ {"heap", "calls"} : v[f] = w[f]

LEMMA StepsTwice ==
  ASSUME NEW u, NEW v, NEW w, Steps(u, v), Steps(v, w)
  PROVE  Steps(u, w)
BY DEF Steps

LEMMA StepsNone ==
  ASSUME NEW w, IsWorld(w)
  PROVE  Steps(w, w)
BY DEF Steps

LEMMA StepsEncoder ==
  ASSUME NEW w, NEW v, IsWorld(w), Steps(w, v)
  PROVE  Encoder(v) = Encoder(w)
BY DEF Steps, IsWorld, WorldFields, Encoder

LEMMA WriteSound ==
  ASSUME NEW w, NEW v, Sound(w), Writes(w, v)
  PROVE  Sound(v) /\ Tells(v) = Tells(w) /\ Steps(w, v)
<1>1. Steps(w, v) /\ v.calls = w.calls /\ IsWorld(v)
  BY DEF Sound, Writes, Steps, IsWorld, WorldFields
<1>2. Encoder(v) = Encoder(w)
  BY <1>1, StepsEncoder DEF Sound
<1> QED
  BY <1>1, <1>2 DEF Sound, Tells, Sends

LEMMA Writing ==
  ASSUME NEW w, IsWorld(w), NEW H
  PROVE  Writes(w, [w EXCEPT !.heap = H]) /\ [w EXCEPT !.heap = H].heap = H
BY DEF Writes, IsWorld, WorldFields

(* The host the window has is the one it had, or the one the calls have told. *)
LEMMA SendsHost ==
  ASSUME NEW x, NEW C, Telling(x, C), NEW r
  PROVE  SendAll(x, Append(C, r)).host \in {SendAll(x, C).host, Told(x, C).host}
<1> DEFINE y == SendAll(x, C)
<1>1. SendAll(x, Append(C, r)) = Record(y, r) /\ IsEncoder(y) /\ Seen(y).status = TRUE
  BY SendAllMore DEF Telling, Told
<1> HIDE DEF y
<1>2. IsEncoder(Flush(y)) /\ Flush(y).host = Seen(y).host
  BY <1>1, FlushSeen, Zenon
<1>3. Record(y, r).host \in {y.host, Seen(y).host}
  <2>1. CASE r = Doorbell
    BY <1>2, <2>1 DEF Record
  <2>2. CASE r # Doorbell
    <3> DEFINE room == IF Len(y.pending) = BatchLen THEN Flush(y) ELSE y
    <3>1. room.host \in {y.host, Seen(y).host} /\ IsEncoder(room)
      BY <1>1, <1>2
    <3>2. Record(y, r) = [room EXCEPT !.pending = Append(@, r)]
      BY <2>2 DEF Record
    <3> HIDE DEF room
    <3>3. [room EXCEPT !.pending = Append(@, r)].host = room.host
      BY <3>1 DEF IsEncoder
    <3> QED
      BY <3>1, <3>2, <3>3
  <2> QED
    BY <2>1, <2>2
<1> QED
  BY <1>1, <1>3 DEF y, Told

(* What a call says, and the doorbell. *)
LEMMA Says ==
  ASSUME NEW w, Sound(w), NEW r, r # Doorbell,
         RunRecord(Tells(w), r).status = TRUE, RunRecord(Tells(w), r).refused = FALSE,
         RunRecord(Tells(w), r).host \in HostType
  PROVE  /\ Sound(Cmd(w, r)) /\ Tells(Cmd(w, r)) = RunRecord(Tells(w), r)
         /\ Cmd(w, r).heap = w.heap /\ Steps(w, Cmd(w, r))
<1>1. /\ IsWorld(Cmd(w, r)) /\ Steps(w, Cmd(w, r)) /\ Cmd(w, r).heap = w.heap
      /\ Cmd(w, r).calls = Append(w.calls, r)
  BY Zenon DEF Sound, Cmd, IsWorld, Steps, WorldFields
<1>2. Encoder(Cmd(w, r)) = Encoder(w)
  BY <1>1, StepsEncoder DEF Sound
<1>3. /\ Telling(Encoder(w), Append(w.calls, r))
      /\ Told(Encoder(w), Append(w.calls, r)) = RunRecord(Told(Encoder(w), w.calls), r)
  <2> DEFINE x == Encoder(w)
             C == w.calls
  <2>1. Telling(x, C) /\ RunRecord(Told(x, C), r).status = TRUE
    BY DEF Sound, Tells
  <2> HIDE DEF x, C
  <2>2. Telling(x, Append(C, r)) /\ Told(x, Append(C, r)) = RunRecord(Told(x, C), r)
    BY <2>1, Tell, Zenon
  <2> QED
    BY <2>2 DEF x, C
<1>4. SendAll(Encoder(w), Append(w.calls, r)).host \in HostType
  BY SendsHost DEF Sound, Tells, Sends
<1> QED
  BY <1>1, <1>2, <1>3, <1>4 DEF Sound, Tells, Sends

LEMMA Rings ==
  ASSUME NEW w, Sound(w)
  PROVE  /\ Sound(Cmd(w, Doorbell)) /\ Tells(Cmd(w, Doorbell)) = Tells(w)
         /\ Cmd(w, Doorbell).heap = w.heap /\ Steps(w, Cmd(w, Doorbell))
<1> DEFINE v == Cmd(w, Doorbell)
<1>1. /\ IsWorld(v) /\ Steps(w, v) /\ v.heap = w.heap /\ v.calls = Append(w.calls, Doorbell)
  BY Zenon DEF Sound, Cmd, IsWorld, Steps, WorldFields
<1> HIDE DEF v
<1>2. Encoder(v) = Encoder(w)
  BY <1>1, StepsEncoder DEF Sound
<1>3. /\ Telling(Encoder(w), Append(w.calls, Doorbell))
      /\ Told(Encoder(w), Append(w.calls, Doorbell)) = Told(Encoder(w), w.calls)
  BY Ring DEF Sound
<1>5. SendAll(Encoder(w), Append(w.calls, Doorbell)).host \in HostType
  BY SendsHost DEF Sound, Tells, Sends
<1>4. Sound(v) /\ Tells(v) = Tells(w)
  BY <1>1, <1>2, <1>3, <1>5 DEF Sound, Tells, Sends
<1> QED
  BY <1>1, <1>4 DEF v

LEMMA SoundExec ==
  ASSUME NEW w, Sound(w)
  PROVE  /\ IsExec(Tells(w)) /\ Tells(w).status = TRUE /\ Tells(w).refused = FALSE
         /\ Tells(w).host \in HostType
BY DEF Sound, Telling, Tells

(* A window in a world does what the window does by itself, and nothing    *)
(* else of that world changes.                                             *)
EncoderFields == {"pending", "status", "host", "refused"}
Mirrors(v, w, x) ==
  IsWorld(v) /\ DOMAIN v = DOMAIN w /\ Encoder(v) = x /\ \A f \in DOMAIN w \ EncoderFields : v[f] = w[f]

LEMMA PendingSet ==
  ASSUME NEW a, NEW b, NEW c, NEW d, NEW p
  PROVE  [[pending |-> a, status |-> b, host |-> c, refused |-> d] EXCEPT !.pending = p]
           = [pending |-> p, status |-> b, host |-> c, refused |-> d]
OBVIOUS

LEMMA ExecSet ==
  ASSUME NEW w, NEW e
  PROVE  [WithExec(Encoder(w), e) EXCEPT !.pending = <<>>]
           = [pending |-> <<>>, status |-> e.status, host |-> e.host, refused |-> e.refused]
<1> DEFINE y == [WithExec(Encoder(w), e) EXCEPT !.pending = <<>>]
           z == [pending |-> <<>>, status |-> e.status, host |-> e.host, refused |-> e.refused]
<1>1. /\ y = [f \in EncoderFields |-> y[f]]
      /\ y.pending = <<>> /\ y.status = e.status /\ y.host = e.host /\ y.refused = e.refused
  BY DEF WithExec, Encoder, EncoderFields
<1>2. /\ z = [f \in EncoderFields |-> z[f]]
      /\ z.pending = <<>> /\ z.status = e.status /\ z.host = e.host /\ z.refused = e.refused
  BY DEF EncoderFields
<1> HIDE DEF y, z
<1>3. \A f \in EncoderFields : y[f] = z[f]
  BY <1>1, <1>2 DEF EncoderFields
<1>4. y = z
  BY <1>1, <1>2, <1>3
<1> QED
  BY <1>4 DEF y, z

LEMMA FlushMirrors ==
  ASSUME NEW w, IsWorld(w)
  PROVE  Mirrors(Flush(w), w, Flush(Encoder(w)))
<1> DEFINE x == Encoder(w)
           e == FoldLeft(RunRecord, Exec(w), w.pending)
           v == [WithExec(w, e) EXCEPT !.pending = <<>>]
<1>1. x.pending = w.pending /\ Exec(x) = Exec(w)
  BY DEF Encoder, Exec
<1>2. CASE w.pending = <<>>
  <2>1. Flush(w) = w /\ Flush(x) = x
    BY <1>1, <1>2 DEF Flush
  <2> QED
    BY <2>1 DEF Mirrors
<1>3. CASE w.pending # <<>>
  <2>1. Flush(w) = v
    BY <1>3 DEF Flush
  <2>2. Flush(x) = [WithExec(x, e) EXCEPT !.pending = <<>>]
    BY <1>1, <1>3 DEF Flush
  <2> HIDE DEF e
  <2>3. /\ IsWorld(v) /\ DOMAIN v = DOMAIN w /\ \A f \in DOMAIN w \ EncoderFields : v[f] = w[f]
        /\ v.pending = <<>> /\ v.status = e.status /\ v.host = e.host /\ v.refused = e.refused
    BY DEF IsWorld, WorldFields, EncoderFields, WithExec
  <2>4. [WithExec(x, e) EXCEPT !.pending = <<>>]
          = [pending |-> <<>>, status |-> e.status, host |-> e.host, refused |-> e.refused]
    BY ExecSet
  <2>5. Encoder(v) = Flush(x)
    BY <2>2, <2>3, <2>4 DEF Encoder
  <2> QED
    BY <2>1, <2>3, <2>5 DEF Mirrors
<1> QED
  BY <1>2, <1>3

LEMMA AppendMirrors ==
  ASSUME NEW v, NEW w, NEW x, Mirrors(v, w, x), NEW r
  PROVE  Mirrors([v EXCEPT !.pending = Append(@, r)], w, [x EXCEPT !.pending = Append(@, r)])
<1> DEFINE u == [v EXCEPT !.pending = Append(@, r)]
<1>1. IsWorld(v) /\ DOMAIN v = DOMAIN w /\ Encoder(v) = x /\ \A f \in DOMAIN w \ EncoderFields : v[f] = w[f]
  BY DEF Mirrors
<1>2. /\ IsWorld(u) /\ DOMAIN u = DOMAIN w /\ \A f \in DOMAIN w \ EncoderFields : u[f] = v[f]
      /\ u.pending = Append(v.pending, r) /\ u.status = v.status /\ u.host = v.host
      /\ u.refused = v.refused
  BY <1>1 DEF IsWorld, WorldFields, EncoderFields
<1> HIDE DEF u
<1>3. [x EXCEPT !.pending = Append(@, r)]
        = [pending |-> Append(v.pending, r), status |-> v.status, host |-> v.host, refused |-> v.refused]
  <2>1. x = [pending |-> v.pending, status |-> v.status, host |-> v.host, refused |-> v.refused]
    BY <1>1 DEF Encoder
  <2>2. \A p : [x EXCEPT !.pending = p]
                 = [pending |-> p, status |-> v.status, host |-> v.host, refused |-> v.refused]
    BY <2>1, PendingSet
  <2>3. x.pending = v.pending
    BY <2>1
  <2> QED
    BY <2>2, <2>3
<1>4. Encoder(u) = [x EXCEPT !.pending = Append(@, r)]
  BY <1>2, <1>3 DEF Encoder
<1>5. \A f \in DOMAIN w \ EncoderFields : u[f] = w[f]
  BY <1>1, <1>2
<1>6. Mirrors(u, w, [x EXCEPT !.pending = Append(@, r)])
  BY <1>2, <1>4, <1>5 DEF Mirrors
<1> QED
  BY <1>6 DEF u

LEMMA RecordMirrors ==
  ASSUME NEW w, IsWorld(w), NEW r
  PROVE  Mirrors(Record(w, r), w, Record(Encoder(w), r))
<1> DEFINE x == Encoder(w)
           room == IF Len(w.pending) = BatchLen THEN Flush(w) ELSE w
           left == IF Len(x.pending) = BatchLen THEN Flush(x) ELSE x
<1>1. Mirrors(Flush(w), w, Flush(x))
  BY FlushMirrors
<1>2. Mirrors(w, w, x)
  BY DEF Mirrors
<1>3. x.pending = w.pending
  BY DEF Encoder
<1>4. Mirrors(room, w, left)
  BY <1>1, <1>2, <1>3
<1>5. Record(w, r) = IF r = Doorbell THEN Flush(w) ELSE [room EXCEPT !.pending = Append(@, r)]
  BY DEF Record
<1>6. Record(x, r) = IF r = Doorbell THEN Flush(x) ELSE [left EXCEPT !.pending = Append(@, r)]
  BY DEF Record
<1> HIDE DEF room, left, x
<1>7. Mirrors([room EXCEPT !.pending = Append(@, r)], w, [left EXCEPT !.pending = Append(@, r)])
  BY <1>4, AppendMirrors
<1>8. Mirrors(Record(w, r), w, Record(x, r))
  BY <1>1, <1>5, <1>6, <1>7
<1> QED
  BY <1>8 DEF x

LEMMA SendMirrors ==
  ASSUME NEW w, IsWorld(w)
  PROVE  \A q : Listed(q) => Mirrors(SendAll(w, q), w, SendAll(Encoder(w), q))
<1> DEFINE Reflects(q) == Mirrors(SendAll(w, q), w, SendAll(Encoder(w), q))
           S == {n \in Nat : \A q : Listed(q) /\ Len(q) = n => Reflects(q)}
<1>1. 0 \in S
  <2> SUFFICES ASSUME NEW q, Listed(q), Len(q) = 0 PROVE Reflects(q)
    OBVIOUS
  <2>1. q = <<>>
    BY DEF Listed
  <2> QED
    BY <2>1, SendAllNone DEF Mirrors
<1>2. ASSUME NEW n \in Nat, n \in S PROVE n + 1 \in S
  <2> SUFFICES ASSUME NEW q, Listed(q), Len(q) = n + 1 PROVE Reflects(q)
    OBVIOUS
  <2> DEFINE p == [i \in 1..n |-> q[i]]
  <2>1. Listed(p) /\ Len(p) = n
    BY DEF Listed
  <2>2. q = Append(p, q[n + 1])
    <3>1. /\ Listed(Append(p, q[n + 1])) /\ Len(Append(p, q[n + 1])) = n + 1
          /\ Append(p, q[n + 1])[n + 1] = q[n + 1]
          /\ \A i \in 1..n : Append(p, q[n + 1])[i] = p[i]
      BY <2>1, SeqAppend
    <3>2. \A i \in 1..n : p[i] = q[i]
      OBVIOUS
    <3> HIDE DEF p
    <3>3. \A i \in 1..n + 1 : Append(p, q[n + 1])[i] = q[i]
      BY <3>1, <3>2
    <3> QED
      BY <3>1, <3>3 DEF Listed
  <2> DEFINE v == SendAll(w, p)
  <2>3. Mirrors(v, w, SendAll(Encoder(w), p))
    BY <1>2, <2>1
  <2> HIDE DEF p
  <2>4. /\ SendAll(w, Append(p, q[n + 1])) = Record(v, q[n + 1])
        /\ SendAll(Encoder(w), Append(p, q[n + 1])) = Record(SendAll(Encoder(w), p), q[n + 1])
    BY <2>1, SendAllMore
  <2> HIDE DEF v
  <2>5. Encoder(v) = SendAll(Encoder(w), p) /\ IsWorld(v)
    BY <2>3 DEF Mirrors
  <2>6. Mirrors(Record(v, q[n + 1]), v, Record(Encoder(v), q[n + 1]))
    BY <2>5, RecordMirrors
  <2>7. Mirrors(Record(v, q[n + 1]), w, Record(Encoder(v), q[n + 1]))
    BY <2>3, <2>6 DEF Mirrors
  <2>8. /\ SendAll(w, q) = Record(v, q[n + 1])
        /\ SendAll(Encoder(w), q) = Record(Encoder(v), q[n + 1])
    BY <2>2, <2>4, <2>5
  <2> QED
    BY <2>7, <2>8
<1> HIDE DEF S
<1>3. \A n \in Nat : n \in S
  BY <1>1, <1>2, EveryNumber
<1> SUFFICES ASSUME NEW q, Listed(q) PROVE Reflects(q)
  OBVIOUS
<1>4. Len(q) \in S
  BY <1>3 DEF Listed
<1> QED
  BY <1>4 DEF S

(* The window takes what a call has said. *)
LEMMA WindowTakes ==
  ASSUME NEW w, Sound(w)
  PROVE  /\ Sound(Window(w)) /\ Window(w).calls = <<>> /\ Tells(Window(w)) = Tells(w)
         /\ Window(w).heap = w.heap /\ DOMAIN Window(w) = DOMAIN w
         /\ \A f \in DOMAIN w \ WorldFields : Window(w)[f] = w[f]
         /\ IsEncoder(Encoder(Window(w))) /\ Seen(Encoder(Window(w))) = Tells(w)
         /\ Window(w).status = SendAll(Encoder(w), w.calls).status
         /\ Window(w).pending = SendAll(Encoder(w), w.calls).pending
<1> DEFINE x == Encoder(w)
           n == SendAll(x, w.calls)
           v == Window(w)
<1>1. IsEncoder(n) /\ IsExec(Seen(n)) /\ Seen(n).status = TRUE /\ Seen(n) = Tells(w)
  BY DEF Sound, Telling, Told, Tells
<1>2. IsWorld(w)
  BY DEF Sound
<1>3. v = SendAll([w EXCEPT !.calls = <<>>], w.calls)
  BY DEF Window, SendAll
<1> HIDE DEF n
<1>4. /\ IsWorld(v) /\ DOMAIN v = DOMAIN w /\ v.heap = w.heap /\ v.calls = <<>>
      /\ \A f \in DOMAIN w \ WorldFields : v[f] = w[f]
      /\ v.pending = n.pending /\ v.status = n.status /\ v.host = n.host /\ v.refused = n.refused
  <2> DEFINE y == [w EXCEPT !.calls = <<>>]
  <2>1. /\ IsWorld(y) /\ DOMAIN y = DOMAIN w /\ Encoder(y) = x /\ y.heap = w.heap /\ y.calls = <<>>
        /\ \A f \in DOMAIN w \ WorldFields : y[f] = w[f]
    BY <1>2 DEF IsWorld, WorldFields, Encoder
  <2>2. Listed(w.calls)
    BY DEF Sound, Telling
  <2> HIDE DEF y, x, v
  <2>3. Mirrors(SendAll(y, w.calls), y, SendAll(Encoder(y), w.calls))
    BY <2>1, <2>2, SendMirrors
  <2>4. v = SendAll(y, w.calls) /\ n = SendAll(Encoder(y), w.calls)
    BY <1>3, <2>1 DEF y, n
  <2>5. Mirrors(v, y, n)
    BY <2>3, <2>4
  <2>6. /\ IsWorld(v) /\ DOMAIN v = DOMAIN w /\ Encoder(v) = n
        /\ \A f \in DOMAIN w \ EncoderFields : v[f] = y[f]
    BY <2>1, <2>5 DEF Mirrors
  <2>7. v.pending = n.pending /\ v.status = n.status /\ v.host = n.host /\ v.refused = n.refused
    BY <2>6 DEF Encoder
  <2>8. v.heap = y.heap /\ v.calls = y.calls /\ \A f \in DOMAIN w \ WorldFields : v[f] = y[f]
    BY <1>2, <2>6 DEF IsWorld, WorldFields, EncoderFields
  <2> QED
    BY <2>1, <2>6, <2>7, <2>8
<1> HIDE DEF v
<1>5. Encoder(v) = n
  BY <1>1, <1>4 DEF Encoder, IsEncoder
<1>6. SendAll(n, <<>>) = n /\ Listed(<<>>)
  BY SendAllNone, SeqEmpty
<1>7. Tells(v) = Seen(n) /\ Telling(Encoder(v), <<>>)
  BY <1>1, <1>4, <1>5, <1>6 DEF Tells, Told, Telling
<1>9. Sends(v).host \in HostType
  BY <1>4, <1>5, <1>6 DEF Sends, Sound, n
<1>8. Sound(v) /\ Tells(v) = Tells(w)
  BY <1>1, <1>4, <1>5, <1>7, <1>9 DEF Sound
<1> QED
  BY <1>1, <1>4, <1>5, <1>8 DEF v, n

(* The handles of a device that the DLL has names for, and a host that has *)
(* just these.                                                             *)
Named(H, d) == {h \in Objects : H[h].named /\ d \in {h, H[h].dev}}

View(w, d) ==
  /\ Sound(w) /\ d \in Objects /\ w.heap[d].kind = "device" /\ w.heap[d].named
  /\ Tells(w).host.dev = d /\ Tells(w).host.objs = Named(w.heap, d)

Keeps(w, v) ==
  /\ Tells(v).host.bound = Tells(w).host.bound /\ Tells(v).host.value = Tells(w).host.value
  /\ Tells(v).host.lost = Tells(w).host.lost /\ Tells(v).host.apart = Tells(w).host.apart

LEMMA KeepsTwice ==
  ASSUME NEW u, NEW v, NEW w, Keeps(u, v), Keeps(v, w)
  PROVE  Keeps(u, w)
BY DEF Keeps

Ready(x) == IsExec(x) /\ x.status = TRUE /\ x.refused = FALSE /\ x.host \in HostType

Releases(x, h, y) ==
  /\ Ready(y)
  /\ h = x.host.dev => y.host = HostGone
  /\ h # x.host.dev =>
       /\ y.host.dev = x.host.dev /\ y.host.objs = x.host.objs \ {h} /\ y.host.bound = x.host.bound
       /\ y.host.value = x.host.value /\ y.host.lost = x.host.lost /\ y.host.apart = x.host.apart

LEMMA HostGoneType == HostGone \in HostType
BY DEF HostGone, HostType, Handles, Unbound, Unset, Values

LEMMA ReleaseRun ==
  ASSUME NEW x, Ready(x), NEW r, r.op = "RELEASE", r.h \in x.host.objs
  PROVE  Releases(x, r.h, RunRecord(x, r))
<1>1. RunRecord(x, r) = RunRelease(x, r)
  BY DEF RunRecord, Ready
<1>2. IsExec(RunRecord(x, r))
  BY RunKeepsExec DEF Ready
<1>3. CASE r.h = x.host.dev
  <2>1. RunRelease(x, r) = [x EXCEPT !.host = HostGone]
    BY <1>3 DEF RunRelease, Known
  <2> DEFINE y == RunRelease(x, r)
  <2>2. y.host = HostGone /\ y.status = TRUE /\ y.refused = FALSE
    BY <2>1 DEF Ready, IsExec
  <2> HIDE DEF y
  <2>3. RunRecord(x, r) = y
    BY <1>1 DEF y
  <2> QED
    BY <1>2, <1>3, <2>2, <2>3, HostGoneType DEF Releases, Ready
<1>4. CASE r.h # x.host.dev
  <2>1. RunRelease(x, r) = [x EXCEPT !.host.objs = @ \ {r.h}]
    BY <1>4 DEF RunRelease, Known
  <2> DEFINE y == RunRelease(x, r)
             g == [x.host EXCEPT !.objs = @ \ {r.h}]
  <2>2. /\ y.host = g /\ y.status = TRUE /\ y.refused = FALSE
    BY <2>1 DEF Ready, IsExec
  <2>3. /\ g \in HostType /\ g.dev = x.host.dev /\ g.objs = x.host.objs \ {r.h}
        /\ g.bound = x.host.bound /\ g.value = x.host.value /\ g.lost = x.host.lost
        /\ g.apart = x.host.apart
    BY DEF HostType, Ready
  <2> HIDE DEF g, y
  <2>4. RunRecord(x, r) = y
    BY <1>1 DEF y
  <2> QED
    BY <1>2, <1>4, <2>2, <2>3, <2>4 DEF Releases, Ready
<1> QED
  BY <1>3, <1>4

LEMMA DoorbellIs ==
  \A r : r.op # "DOORBELL" => r # Doorbell
BY DEF Doorbell

(* An object of the device the host has, or the device itself, is released there. *)
LEMMA SaysRelease ==
  ASSUME NEW w, NEW d, View(w, d), NEW h \in Named(w.heap, d), NEW v,
         v = Cmd(w, [op |-> "RELEASE", h |-> h])
  PROVE  /\ Sound(v) /\ Steps(w, v) /\ v.heap = w.heap
         /\ h = d => Tells(v).host = HostGone
         /\ h # d => /\ Tells(v).host.dev = d /\ Tells(v).host.objs = Named(w.heap, d) \ {h}
                     /\ Keeps(w, v)
<1> DEFINE r == [op |-> "RELEASE", h |-> h]
           x == Tells(w)
<1>1. r # Doorbell
  BY DoorbellIs
<1>0. r.op = "RELEASE" /\ r.h = h
  OBVIOUS
<1>2. /\ Sound(w) /\ Ready(x) /\ x.host.dev = d /\ x.host.objs = Named(w.heap, d)
  BY SoundExec, Zenon DEF View, Ready
<1> HIDE DEF x, r
<1>3. Releases(x, h, RunRecord(x, r))
  BY <1>0, <1>2, ReleaseRun
<1>4. Sound(v) /\ Tells(v) = RunRecord(x, r) /\ v.heap = w.heap /\ Steps(w, v)
  <2>1. v = Cmd(w, r)
    BY DEF r
  <2>2. /\ RunRecord(Tells(w), r).status = TRUE /\ RunRecord(Tells(w), r).refused = FALSE
        /\ RunRecord(Tells(w), r).host \in HostType
    BY <1>3 DEF x, Releases, Ready
  <2>3. /\ Sound(Cmd(w, r)) /\ Tells(Cmd(w, r)) = RunRecord(Tells(w), r)
        /\ Cmd(w, r).heap = w.heap /\ Steps(w, Cmd(w, r))
    BY <1>1, <1>2, <2>2, Says, Zenon
  <2> QED
    BY <2>1, <2>3 DEF x
<1>5. Releases(x, h, Tells(v))
  BY <1>3, <1>4
<1> QED
  BY <1>2, <1>4, <1>5 DEF Keeps, x, Releases

(* A name is forgotten, and nothing else. *)
Unnames(H, G, h) ==
  G \in Heaps /\ G[h].dev = H[h].dev /\ ~G[h].named /\ \A k \in Objects \ {h} : G[k] = H[k]

LEMMA Unnaming ==
  ASSUME NEW H \in Heaps, NEW h \in Objects
  PROVE  Unnames(H, [H EXCEPT ![h].named = FALSE], h)
<1> DEFINE G == [H EXCEPT ![h].named = FALSE]
<1>1. H \in [Objects -> ObjectType] /\ H[h] \in ObjectType
  BY DEF Heaps
<1>2. [H[h] EXCEPT !.named = FALSE] \in ObjectType
  BY <1>1 DEF ObjectType
<1>3. G = [H EXCEPT ![h] = [H[h] EXCEPT !.named = FALSE]]
  BY <1>1
<1>4. G \in Heaps /\ \A k \in Objects \ {h} : G[k] = H[k]
  BY <1>1, <1>2, <1>3 DEF Heaps
<1>5. G[h].dev = H[h].dev /\ ~G[h].named
  BY <1>1, <1>3 DEF ObjectType
<1> QED
  BY <1>4, <1>5 DEF Unnames

(* HostRelease *)
LEMMA HostReleased ==
  ASSUME NEW w, NEW d, View(w, d), w.heap \in Heaps, NEW h \in Objects, h # d,
         w.heap[h].named, w.heap[h].dev = d, NEW v, v = HostRelease(w, h)
  PROVE  /\ View(v, d) /\ Steps(w, v) /\ Keeps(w, v)
         /\ v.heap = [w.heap EXCEPT ![h].named = FALSE]
<1> DEFINE u == Cmd(w, [op |-> "RELEASE", h |-> h])
<1>1. h \in Named(w.heap, d)
  BY DEF Named
<1>2. /\ Sound(u) /\ Steps(w, u) /\ u.heap = w.heap
      /\ Tells(u).host.dev = d /\ Tells(u).host.objs = Named(w.heap, d) \ {h} /\ Keeps(w, u)
  BY <1>1, SaysRelease
<1>3. v = Unname(u, h)
  BY DEF HostRelease, View
<1> HIDE DEF u
<1> DEFINE G == [u.heap EXCEPT ![h].named = FALSE]
<1>4. v = [u EXCEPT !.heap = G]
  BY <1>3 DEF Unname
<1>5. IsWorld(u)
  BY <1>2 DEF Sound
<1>8. G = [w.heap EXCEPT ![h].named = FALSE]
  BY <1>2
<1>6. /\ G \in Heaps /\ G[d].kind = "device" /\ G[d].named
      /\ \A k \in Objects : G[k].dev = w.heap[k].dev /\ (k # h => G[k].named = w.heap[k].named)
      /\ ~G[h].named
  <2> HIDE DEF G
  <2>1. d \in Objects /\ w.heap[d].kind = "device" /\ w.heap[d].named
    BY DEF View
  <2>2. /\ G \in Heaps /\ ~G[h].named /\ G[d] = w.heap[d]
        /\ \A k \in Objects : G[k].dev = w.heap[k].dev /\ (k # h => G[k] = w.heap[k])
    <3>1. Unnames(w.heap, G, h)
      BY <1>8, Unnaming
    <3>3. G \in Heaps
      BY <3>1 DEF Unnames
    <3>4. \A k \in Objects \ {h} : G[k] = w.heap[k]
      BY <3>1 DEF Unnames
    <3>6. G[h].dev = w.heap[h].dev /\ ~G[h].named
      BY <3>1 DEF Unnames
    <3>7. d # h
      OBVIOUS
    <3>8. \A k \in Objects : G[k].dev = w.heap[k].dev /\ (k # h => G[k] = w.heap[k])
      BY <3>4, <3>6
    <3> QED
      BY <2>1, <3>3, <3>4, <3>6, <3>7, <3>8
  <2> QED
    BY <2>1, <2>2
<1>7. Named(G, d) = Named(w.heap, d) \ {h}
  BY <1>6, Zenon DEF Named
<1> HIDE DEF G
<1>9. Writes(u, v) /\ v.heap = G
  BY <1>4, <1>5, Writing
<1>10. Sound(v) /\ Tells(v) = Tells(u) /\ Steps(u, v)
  BY <1>2, <1>9, WriteSound
<1>11. Steps(w, v)
  BY <1>2, <1>10, StepsTwice
<1> QED
  BY <1>2, <1>6, <1>7, <1>8, <1>9, <1>10, <1>11, Zenon DEF View, Keeps

(* Another heap, with the same names. *)
LEMMA ViewWrites ==
  ASSUME NEW w, NEW d, View(w, d), NEW v, Writes(w, v), v.heap[d].kind = "device", v.heap[d].named,
         Named(v.heap, d) = Named(w.heap, d)
  PROVE  View(v, d) /\ Steps(w, v) /\ Keeps(w, v)
BY WriteSound DEF View, Keeps

Frame(H, G) ==
  \A o \in Objects : (G[o] = Gone \/ Alike(H[o], G[o])) /\ G[o].ref =< H[o].ref

LEMMA FrameTwice ==
  ASSUME NEW H \in Heaps, NEW G \in Heaps, NEW K \in Heaps, \A o \in Objects : Formed(K[o]),
         Frame(H, G), Frame(G, K)
  PROVE  Frame(H, K)
<1> SUFFICES ASSUME NEW o \in Objects
             PROVE  (K[o] = Gone \/ Alike(H[o], K[o])) /\ K[o].ref =< H[o].ref
  BY DEF Frame
<1>1. H[o].ref \in Nat /\ G[o].ref \in Nat /\ K[o].ref \in Nat
  BY FieldTypes
<1>2. K[o].ref =< H[o].ref
  BY <1>1 DEF Frame
<1>3. G[o] = Gone => K[o] = Gone
  BY GoneIs DEF Frame, Alike, Built, Formed
<1> QED
  BY <1>2, <1>3 DEF Frame, Alike, Built

LEMMA FrameNone ==
  ASSUME NEW H \in Heaps
  PROVE  Frame(H, H)
<1>1. \A o \in Objects : H[o].ref \in Nat
  BY FieldTypes
<1> QED
  BY <1>1 DEF Frame, Alike, Built

(* A reference is given back, and another that remains. *)
LEMMA Lowered ==
  ASSUME NEW w, IsWorld(w), w.heap \in Heaps, NEW h \in Objects, w.heap[h].ref > 0, NEW v, v = Lower(w, h)
  PROVE  Writes(w, v) /\ Counts(w.heap, v.heap, h, w.heap[h].ref - 1)
<1> DEFINE n == w.heap[h].ref - 1
           G == [w.heap EXCEPT ![h].ref = n]
<1>1. n \in Nat
  BY FieldTypes
<1>2. v = [w EXCEPT !.heap = G]
  BY DEF Lower
<1>3. Counts(w.heap, G, h, n)
  <2> HIDE DEF n
  <2> QED
    BY <1>1, Counting1
<1> HIDE DEF G
<1> QED
  BY <1>2, <1>3, Writing

LEMMA Raised ==
  ASSUME NEW w, IsWorld(w), w.heap \in Heaps, NEW h \in Objects, NEW v, v = Raise(w, h)
  PROVE  Writes(w, v) /\ Counts(w.heap, v.heap, h, w.heap[h].ref + 1)
<1> DEFINE n == w.heap[h].ref + 1
           G == [w.heap EXCEPT ![h].ref = n]
<1>1. n \in Nat
  BY FieldTypes
<1>2. v = [w EXCEPT !.heap = G]
  BY DEF Raise
<1>3. Counts(w.heap, G, h, n)
  <2> HIDE DEF n
  <2> QED
    BY <1>1, Counting1
<1> HIDE DEF G
<1> QED
  BY <1>2, <1>3, Writing

LEMMA NamedSame ==
  ASSUME NEW H, NEW G, NEW d, \A o \in Objects : G[o].named = H[o].named /\ G[o].dev = H[o].dev
  PROVE  Named(G, d) = Named(H, d)
BY DEF Named

(* What a call has in its hands while it gives references back: the world, *)
(* a device, and the references from outside the heap; and what it has     *)
(* left, the device or none.                                               *)
Hands(w, d, e, X) == View(w, d) /\ HeapOK(w.heap, e, X)

Drops(w, v, d, f, X) ==
  /\ Steps(w, v) /\ Sound(v) /\ HeapOK(v.heap, f, X) /\ Frame(w.heap, v.heap)
  /\ v.heap[d].kind = "device" => View(v, d) /\ Keeps(w, v)

(* What X has taken out belongs to objects that are still held, or to the  *)
(* device of one.                                                          *)
Pinned(H, e, o) ==
  \E p \in Objects : e[p] > 0 /\ H[p].kind \notin {"none", "device", "backbuffer"} /\ H[p].dev = o
Holding(H, e, X) == \A l \in X : e[l[1]] > 0 \/ Pinned(H, e, l[1])
Held(H, e, X, h) == Holding(H, Less(e, h), X)

LEMMA NotHeld ==
  ASSUME NEW H, NEW e, NEW X, HeapOK(H, e, X), NEW h \in Objects, H[h].ref = e[h],
         NEW g, g[h] = 0, Holding(H, g, X)
  PROVE  \A s \in Slots : <<h, s>> \notin X
<1> SUFFICES ASSUME NEW s \in Slots, <<h, s>> \in X
             PROVE  FALSE
  OBVIOUS
<1>1. g[h] > 0 \/ Pinned(H, g, h)
  BY DEF Holding
<1>2. PICK p \in Objects : H[p].kind \notin {"none", "device", "backbuffer"} /\ H[p].dev = h
  BY <1>1 DEF Pinned
<1>3. Link(H[p], "dev") = h
  BY <1>2 DEF Link
<1> QED
  BY <1>3, NoLinksTo

LEMMA HoldingAlive ==
  ASSUME NEW H, NEW g, NEW X, Holding(H, g, X), NEW G,
         \A k \in Objects : g[k] > 0 => G[k].kind = H[k].kind /\ G[k].dev = H[k].dev
  PROVE  Holding(G, g, X)
BY DEF Holding, Pinned

LEMMA HoldingFrame ==
  ASSUME NEW H, NEW g, NEW X, Holding(H, g, X), NEW G, Frame(H, G), NEW f, NEW Y, HeapOK(G, f, Y),
         \A k \in Objects : g[k] > 0 => f[k] > 0
  PROVE  Holding(G, g, X)
<1>1. \A k \in Objects : g[k] > 0 => G[k].kind # "none"
  BY Counting
<1>2. \A k \in Objects : g[k] > 0 => G[k].kind = H[k].kind /\ G[k].dev = H[k].dev
  BY <1>1, GoneIs DEF Frame, Alike, Built
<1> QED
  BY <1>2, HoldingAlive

LEMMA HandsAre ==
  ASSUME NEW w, NEW d, NEW e, NEW X, Hands(w, d, e, X)
  PROVE  /\ View(w, d) /\ HeapOK(w.heap, e, X) /\ Sound(w) /\ IsWorld(w)
         /\ w.heap \in Heaps /\ e \in [Objects -> Nat] /\ Taken(X) /\ d \in Objects
         /\ w.heap[d].kind = "device" /\ w.heap[d].named
         /\ \A o \in Objects : Formed(w.heap[o])
BY DEF Hands, View, Sound, HeapOK, Taken

LEMMA DropsTwice ==
  ASSUME NEW u, NEW v, NEW w, NEW d, NEW e, NEW f, NEW X, NEW Y, u.heap \in Heaps,
         Drops(u, v, d, e, Y), Drops(v, w, d, f, X), v.heap[d].kind = "device"
  PROVE  Drops(u, w, d, f, X)
<1>1. Steps(u, w)
  BY StepsTwice DEF Drops
<1>2. Frame(u.heap, w.heap)
  BY FrameTwice DEF Drops, HeapOK
<1>3. w.heap[d].kind = "device" => View(w, d) /\ Keeps(u, w)
  BY KeepsTwice DEF Drops
<1> QED
  BY <1>1, <1>2, <1>3 DEF Drops

LEMMA LessIs ==
  ASSUME NEW e \in [Objects -> Nat], NEW h \in Objects, e[h] > 0
  PROVE  /\ Less(e, h) \in [Objects -> Nat] /\ Less(e, h)[h] = e[h] - 1
         /\ \A k \in Objects : k # h => Less(e, h)[k] = e[k]
BY DEF Less, Is

LEMMA PlusIs ==
  ASSUME NEW e \in [Objects -> Nat], NEW h
  PROVE  /\ Plus(e, h) \in [Objects -> Nat]
         /\ \A k \in Objects : Plus(e, h)[k] = (IF k = h THEN e[k] + 1 ELSE e[k])
         /\ h = None => Plus(e, h) = e
<1>1. /\ Plus(e, h) \in [Objects -> Nat]
      /\ \A k \in Objects : Plus(e, h)[k] = (IF k = h THEN e[k] + 1 ELSE e[k])
  BY DEF Plus, Is
<1>2. h = None => \A k \in Objects : Plus(e, h)[k] = e[k]
  BY <1>1 DEF Objects, None
<1> QED
  BY <1>1, <1>2

(* There is another reference: the count goes down. *)
LEMMA LowerDrops ==
  ASSUME NEW w, NEW d, NEW e, NEW X, Hands(w, d, e, X), NEW h \in Objects, e[h] > 0, w.heap[h].ref > 1,
         NEW v, v = Lower(w, h)
  PROVE  Drops(w, v, d, Less(e, h), X) /\ v.heap[d].kind = "device"
<1> DEFINE n == w.heap[h].ref - 1
           f == Less(e, h)
<1>1. /\ HeapOK(w.heap, e, X) /\ View(w, d) /\ w.heap \in Heaps /\ IsWorld(w) /\ d \in Objects
      /\ e \in [Objects -> Nat] /\ w.heap[d].kind = "device" /\ w.heap[d].named
  BY HandsAre
<1>2. w.heap[h].kind # "none" /\ w.heap[h].ref \in Nat
  BY <1>1, Counting
<1>3. n \in Nat /\ n > 0 /\ w.heap[h].ref > 0
  BY <1>2
<1>4. Writes(w, v) /\ Counts(w.heap, v.heap, h, n)
  BY <1>1, <1>3, Lowered
<1>5. f \in [Objects -> Nat] /\ n + e[h] = f[h] + w.heap[h].ref /\ \A k \in Objects \ {h} : f[k] = e[k]
  BY <1>1, <1>2, LessIs
<1>6. HeapOK(v.heap, f, X)
  <2> HIDE DEF f
  <2>1. w.heap[h].kind = "level" => (w.heap[h].ref > 0 <=> n > 0)
    BY <1>3
  <2> HIDE DEF n
  <2> QED
    BY <1>1, <1>2, <1>3, <1>4, <1>5, <2>1, Recounted
<1>7. /\ v.heap[d].kind = "device" /\ v.heap[d].named /\ Named(v.heap, d) = Named(w.heap, d)
      /\ \A o \in Objects : Alike(w.heap[o], v.heap[o])
  <2> HIDE DEF n
  <2>1. \A o \in Objects : Alike(w.heap[o], v.heap[o])
    BY <1>4, CountsAlike, Zenon
  <2>2. \A o \in Objects : v.heap[o].named = w.heap[o].named /\ v.heap[o].dev = w.heap[o].dev
    BY <2>1 DEF Alike, Built
  <2>3. Named(v.heap, d) = Named(w.heap, d)
    BY <2>2 DEF Named
  <2> QED
    BY <1>1, <2>1, <2>3 DEF Alike, Built
<1>8. View(v, d) /\ Steps(w, v) /\ Keeps(w, v)
  BY <1>1, <1>4, <1>7, ViewWrites
<1>9. Frame(w.heap, v.heap)
  <2>1. \A o \in Objects : v.heap[o].ref =< w.heap[o].ref
    <3>1. v.heap[h].ref = n /\ \A o \in Objects \ {h} : v.heap[o] = w.heap[o]
      BY <1>4 DEF Counts
    <3>2. \A o \in Objects : w.heap[o].ref \in Nat
      BY <1>1, FieldTypes
    <3> QED
      BY <3>1, <3>2
  <2> QED
    BY <1>7, <2>1 DEF Frame
<1> QED
  BY <1>6, <1>7, <1>8, <1>9 DEF Drops, View

(* An object is told to the host as gone, and freed. *)
LEMMA FreedWorld ==
  ASSUME NEW w, NEW d, View(w, d), w.heap \in Heaps, NEW h \in Objects, h # d, w.heap[h].dev = d,
         NEW v, v = Free(HostRelease(w, h), h)
  PROVE  /\ Frees(w.heap, v.heap, h) /\ View(v, d) /\ Steps(w, v) /\ Keeps(w, v)
         /\ Frame(w.heap, v.heap)
<1> DEFINE u == HostRelease(w, h)
           G == [u.heap EXCEPT ![h] = Gone]
<1>0. d \in Objects /\ w.heap[d].kind = "device" /\ w.heap[d].named /\ IsWorld(w)
  BY DEF View, Sound
<1>1. /\ View(u, d) /\ Steps(w, u) /\ Keeps(w, u) /\ u.heap \in Heaps /\ ~u.heap[h].named
      /\ \A k \in Objects \ {h} : u.heap[k] = w.heap[k]
  <2>1. CASE w.heap[h].named
    <3> HIDE DEF u
    <3>1. /\ View(u, d) /\ Steps(w, u) /\ Keeps(w, u)
          /\ u.heap = [w.heap EXCEPT ![h].named = FALSE]
      BY <2>1, HostReleased DEF u
    <3> QED
      BY <3>1, Zenon DEF Heaps, ObjectType
  <2>2. CASE ~w.heap[h].named
    <3>1. u = w
      BY <2>2 DEF HostRelease
    <3> QED
      BY <1>0, <2>2, <3>1, StepsNone DEF Keeps
  <2> QED
    BY <2>1, <2>2
<1>2. v = [u EXCEPT !.heap = G]
  BY DEF Free
<1> HIDE DEF u
<1>3. Frees(u.heap, G, h)
  BY <1>1, Freeing
<1> HIDE DEF G
<1>4. Writes(u, v) /\ v.heap = G
  BY <1>1, <1>2, Writing DEF View, Sound
<1>5. Frees(w.heap, v.heap, h)
  BY <1>1, <1>3, <1>4 DEF Frees
<1>6. v.heap[d].kind = "device" /\ v.heap[d].named /\ Named(v.heap, d) = Named(u.heap, d)
  <2>1. ~Gone.named
    BY DEF Gone
  <2>2. /\ v.heap[h] = Gone /\ \A k \in Objects \ {h} : v.heap[k] = u.heap[k]
    BY <1>3, <1>4 DEF Frees
  <2> QED
    BY <1>0, <1>1, <2>1, <2>2 DEF Named
<1>7. View(v, d) /\ Steps(u, v) /\ Keeps(u, v)
  BY <1>1, <1>4, <1>6, ViewWrites
<1>8. Frame(w.heap, v.heap)
  <2>1. \A o \in Objects : w.heap[o].ref \in Nat
    BY FieldTypes
  <2> QED
    BY <1>5, <2>1, GoneIs DEF Frees, Frame, Alike, Built
<1> QED
  BY <1>1, <1>5, <1>7, <1>8, StepsTwice, KeepsTwice

(* A back buffer goes with its last reference. *)
LEMMA DropBackDrops ==
  ASSUME NEW w, NEW d, NEW e, NEW X, Hands(w, d, e, X), NEW s \in Objects, e[s] > 0,
         w.heap[s].kind = "backbuffer", w.heap[s].dev = d, Held(w.heap, e, X, s), NEW v, v = DropBack(w, s)
  PROVE  Drops(w, v, d, Less(e, s), X) /\ v.heap[d].kind = "device"
<1>1. /\ HeapOK(w.heap, e, X) /\ View(w, d) /\ w.heap \in Heaps /\ IsWorld(w) /\ d \in Objects
      /\ e \in [Objects -> Nat] /\ w.heap[d].kind = "device" /\ Taken(X) /\ Formed(w.heap[s])
  BY HandsAre
<1>2. CASE w.heap[s].ref > 1
  BY <1>2, LowerDrops DEF DropBack
<1>3. CASE ~(w.heap[s].ref > 1)
  <2>1. w.heap[s].ref = 1 /\ e[s] = 1
    BY <1>1, <1>3, Counting
  <2> DEFINE f == Less(e, s)
  <2>2. f \in [Objects -> Nat] /\ f[s] = 0 /\ \A k \in Objects \ {s} : f[k] = e[k]
    BY <1>1, <2>1, LessIs
  <2>3. Freed(w.heap, s, e, f)
    <3>1. Link(w.heap[s], "dev") = None
      BY DEF Link
    <3>2. \A k \in Objects : e[k] \in Nat /\ Is(k, None) = 0
      BY <1>1 DEF Is, Objects, None
    <3> HIDE DEF f
    <3> QED
      BY <2>1, <2>2, <3>1, <3>2 DEF Freed
  <2>4. \A z \in Slots : <<s, z>> \notin X
    <3>1. Holding(w.heap, f, X)
      BY DEF Held
    <3> HIDE DEF f
    <3> QED
      BY <1>1, <2>1, <2>2, <3>1, NotHeld
  <2>5. Leaves(w.heap, X, s, X)
    BY <1>1, <2>4, LeavesPlain, Zenon
  <2>6. v = Free(HostRelease(w, s), s)
    BY <1>3 DEF DropBack
  <2>7. /\ Frees(w.heap, v.heap, s) /\ View(v, d) /\ Steps(w, v) /\ Keeps(w, v)
        /\ Frame(w.heap, v.heap)
    BY <1>1, <2>6, FreedWorld
  <2>8. HeapOK(v.heap, f, X)
    <3> HIDE DEF f
    <3> QED
      BY <1>1, <2>3, <2>5, <2>7, FreedHeap
  <2> QED
    BY <2>7, <2>8 DEF Drops, View
<1> QED
  BY <1>2, <1>3

(* What the device itself has changes, and every other object as a Frame says. *)
Partly(w, u, d, e, X) ==
  /\ Steps(w, u) /\ View(u, d) /\ Keeps(w, u) /\ HeapOK(u.heap, e, X)
  /\ \A o \in Objects \ {d} :
       (u.heap[o] = Gone \/ Alike(w.heap[o], u.heap[o])) /\ u.heap[o].ref =< w.heap[o].ref
  /\ u.heap[d].ref =< w.heap[d].ref /\ u.heap[d].recording = w.heap[d].recording
  /\ u.heap[d].value = w.heap[d].value /\ u.heap[d].marks = w.heap[d].marks

LEMMA PlusLess ==
  ASSUME NEW e \in [Objects -> Nat], NEW h \in Objects
  PROVE  Less(Plus(e, h), h) = e /\ Plus(e, h)[h] > 0 /\ Plus(e, h) \in [Objects -> Nat]
<1> DEFINE f == Plus(e, h)
<1>1. f \in [Objects -> Nat] /\ \A k \in Objects : f[k] = (IF k = h THEN e[k] + 1 ELSE e[k])
  BY PlusIs
<1> HIDE DEF f
<1>2. f[h] = e[h] + 1 /\ e[h] \in Nat
  BY <1>1
<1>3. /\ Less(f, h) \in [Objects -> Nat] /\ Less(f, h)[h] = f[h] - 1
      /\ \A k \in Objects : k # h => Less(f, h)[k] = f[k]
  BY <1>1, <1>2, LessIs
<1>4. \A k \in Objects : Less(f, h)[k] = e[k]
  BY <1>1, <1>2, <1>3
<1>5. Less(f, h) = e
  BY <1>3, <1>4
<1> QED
  BY <1>1, <1>2, <1>5 DEF f

LEMMA UnbindTargetDrops ==
  ASSUME NEW w, NEW d, NEW e, NEW X, Hands(w, d, e, X), Holding(w.heap, e, X),
         w.heap[d].ref = 0, NEW u, u = UnbindTarget(w, d)
  PROVE  /\ Partly(w, u, d, e, X) /\ u.heap[d].bound["target"] = None
         /\ u.heap[d].peer = w.heap[d].peer
<1> DEFINE tg == "target"
           t == w.heap[d].bound[tg]
           l == <<d, tg>>
<1>0. tg \in Slots
  BY SlotFields
<1>1. /\ HeapOK(w.heap, e, X) /\ View(w, d) /\ w.heap \in Heaps /\ IsWorld(w) /\ d \in Objects
      /\ e \in [Objects -> Nat] /\ w.heap[d].kind = "device" /\ w.heap[d].named /\ Taken(X)
  BY HandsAre
<1>2. t \in Handles /\ \A o \in Objects : w.heap[o].ref \in Nat
  BY <1>0, <1>1, FieldTypes
<1>3. e[d] = 0
  BY <1>1, Counting
<1>4. l \notin X
  <2>1. w.heap[d].ref = e[d] /\ e[d] = 0
    BY <1>3
  <2> HIDE DEF tg
  <2> QED
    BY <1>0, <1>1, <2>1, NotHeld
<1>5. CASE t = None
  <2>1. u = w
    BY <1>5 DEF UnbindTarget
  <2> QED
    BY <1>1, <1>2, <1>5, <2>1, StepsNone DEF Partly, Keeps, Alike, Built
<1>6. CASE t # None
  <2>1. t \in Objects
    BY <1>2, <1>6, ObjectOrNone
  <2>2. w.heap[t].kind = "backbuffer" /\ w.heap[t].dev = d /\ t # d
    <3>1. Fits(tg, w.heap[t].kind) /\ w.heap[t].dev = d
      <4>1. <<d, tg>> \notin X /\ w.heap[d].bound[tg] # None /\ Owner(w.heap, d) = d
        BY <1>1, <1>4, <1>6 DEF Owner
      <4> HIDE DEF tg
      <4>2. BoundFit(w.heap, X)
        BY <1>1 DEF HeapOK
      <4> QED
        BY <1>0, <1>1, <4>1, <4>2 DEF BoundFit, tg
    <3>2. Link(w.heap[t], "dev") # d
      BY <1>1, <1>3, <2>1, NoLinksTo
    <3> QED
      BY <1>1, <3>1, <3>2 DEF Fits, Link
  <2> DEFINE G == [w.heap EXCEPT ![d].bound[tg] = None]
             y == [w EXCEPT !.heap = G]
             f == Plus(e, t)
  <2>3. Binds(w.heap, G, d, tg, None)
    BY <1>0, <1>1, Binding DEF Handles
  <2>4. u = DropBack(y, t)
    BY <1>6 DEF UnbindTarget
  <2> HIDE DEF G
  <2>5. Writes(w, y) /\ y.heap = G
    BY <1>1, Writing
  <2> HIDE DEF y
  <2>6. Moves(e, f, None, t) /\ f \in [Objects -> Nat] /\ Less(f, t) = e /\ f[t] > 0
    BY <1>1, <2>1, MovesPlus, PlusLess
  <2> HIDE DEF f
  <2>7. HeapOK(w.heap, f, X \cup {l})
    <3> HIDE DEF tg
    <3> QED
      BY <1>0, <1>1, <1>4, <2>6, TakenOut
  <2>8. HeapOK(G, f, X)
    <3> DEFINE Y == X \cup {l}
    <3>1. l \in Y /\ Y \ {l} = X
      BY <1>4
    <3>2. Moves(f, f, None, None)
      BY <2>6 DEF Moves, Is
    <3>3. None \in Handles
      BY DEF Handles
    <3>4. HeapOK(w.heap, f, Y)
      BY <2>7
    <3> HIDE DEF Y, tg
    <3>5. HeapOK(G, f, Y \ {l})
      BY <1>0, <1>1, <2>3, <3>1, <3>2, <3>3, <3>4, PutIn
    <3> QED
      BY <3>1, <3>5
  <2>9. /\ \A k \in Objects \ {d} : G[k] = w.heap[k]
        /\ G[d].kind = "device" /\ G[d].ref = w.heap[d].ref /\ G[d].named /\ G[d].peer = w.heap[d].peer
        /\ G[d].recording = w.heap[d].recording /\ G[d].value = w.heap[d].value
        /\ G[d].marks = w.heap[d].marks /\ G[d].bound["target"] = None
        /\ \A k \in Objects : G[k].named = w.heap[k].named /\ G[k].dev = w.heap[k].dev
    <3>1. w.heap[d].bound \in [Slots -> Handles]
      BY <1>1, FieldTypes
    <3> QED
      BY <1>0, <1>1, <2>3, <3>1 DEF Binds
  <2>10. View(y, d) /\ Steps(w, y) /\ Keeps(w, y)
    <3>1. Named(y.heap, d) = Named(w.heap, d)
      BY <2>5, <2>9, SMTT(30) DEF Named
    <3> QED
      BY <1>1, <2>5, <2>9, <3>1, ViewWrites
  <2>11. Drops(y, u, d, e, X) /\ u.heap[d].kind = "device"
    <3>1. Hands(y, d, f, X) /\ y.heap[t].kind = "backbuffer" /\ y.heap[t].dev = d
      BY <2>1, <2>2, <2>5, <2>8, <2>9, <2>10 DEF Hands
    <3>2. Held(G, f, X, t)
      <4>1. \A k \in Objects : G[k].kind = w.heap[k].kind /\ G[k].dev = w.heap[k].dev
        BY <1>1, <2>9
      <4>2. Holding(G, e, X)
        BY <4>1, HoldingAlive
      <4> QED
        BY <2>6, <4>2 DEF Held
    <3> QED
      BY <2>1, <2>4, <2>5, <2>6, <3>1, <3>2, DropBackDrops
  <2>12. View(u, d) /\ Steps(w, u) /\ Keeps(w, u) /\ HeapOK(u.heap, e, X)
    BY <2>10, <2>11, StepsTwice, KeepsTwice DEF Drops
  <2>13. Frame(G, u.heap)
    BY <2>5, <2>11 DEF Drops
  <2>14. Alike(G[d], u.heap[d])
    BY <1>1, <2>11, <2>13, GoneIs DEF Frame
  <2>15. u.heap[d].ref =< G[d].ref
    BY <1>1, <2>13 DEF Frame
  <2> QED
    BY <2>9, <2>12, <2>13, <2>14, <2>15 DEF Partly, Frame, Alike, Built
<1> QED
  BY <1>5, <1>6

LEMMA DropBackBufferDrops ==
  ASSUME NEW w, NEW d, NEW e, NEW X, Hands(w, d, e, X), Holding(w.heap, e, X),
         NEW u, u = DropBackBuffer(w, d)
  PROVE  /\ Partly(w, u, d, e, X) /\ u.heap[d].bound = w.heap[d].bound
         /\ u.heap[d].peer = None
<1> DEFINE t == w.heap[d].peer
<1>1. /\ HeapOK(w.heap, e, X) /\ View(w, d) /\ w.heap \in Heaps /\ IsWorld(w) /\ d \in Objects
      /\ e \in [Objects -> Nat] /\ w.heap[d].kind = "device" /\ w.heap[d].named /\ Taken(X)
  BY HandsAre
<1>2. t \in Handles /\ \A o \in Objects : w.heap[o].ref \in Nat
  BY <1>1, FieldTypes
<1>5. CASE t = None
  <2>1. u = w
    BY <1>5 DEF DropBackBuffer
  <2> QED
    BY <1>1, <1>2, <1>5, <2>1, StepsNone DEF Partly, Keeps, Alike, Built
<1>6. CASE t # None
  <2>1. t \in Objects
    BY <1>2, <1>6, ObjectOrNone
  <2>2. w.heap[t].kind = "backbuffer" /\ w.heap[t].dev = d /\ t # d
    BY <1>1, <1>6 DEF HeapOK, Peers
  <2> DEFINE G == [w.heap EXCEPT ![d].peer = None]
             y == [w EXCEPT !.heap = G]
             f == Plus(e, t)
  <2>3. PeerSets(w.heap, G, d, None)
    BY <1>1, PeerSetting DEF Handles
  <2>4. u = DropBack(y, t)
    BY <1>6 DEF DropBackBuffer
  <2> HIDE DEF G
  <2>5. Writes(w, y) /\ y.heap = G
    BY <1>1, Writing
  <2> HIDE DEF y
  <2>6. Moves(e, f, None, t) /\ f \in [Objects -> Nat] /\ Less(f, t) = e /\ f[t] > 0
    BY <1>1, <2>1, MovesPlus, PlusLess
  <2> HIDE DEF f
  <2>8. HeapOK(G, f, X)
    <3>1. None \in Handles
      BY DEF Handles
    <3> QED
      BY <1>1, <2>3, <2>6, <3>1, PeerSet
  <2>9. /\ \A k \in Objects \ {d} : G[k] = w.heap[k]
        /\ G[d].kind = "device" /\ G[d].ref = w.heap[d].ref /\ G[d].named /\ G[d].peer = None
        /\ G[d].recording = w.heap[d].recording /\ G[d].value = w.heap[d].value
        /\ G[d].marks = w.heap[d].marks /\ G[d].bound = w.heap[d].bound
        /\ \A k \in Objects : G[k].named = w.heap[k].named /\ G[k].dev = w.heap[k].dev
    BY <1>1, <2>3, Zenon DEF PeerSets
  <2>10. View(y, d) /\ Steps(w, y) /\ Keeps(w, y)
    <3>1. Named(y.heap, d) = Named(w.heap, d)
      BY <2>5, <2>9 DEF Named
    <3> QED
      BY <1>1, <2>5, <2>9, <3>1, ViewWrites
  <2>11. Drops(y, u, d, e, X) /\ u.heap[d].kind = "device"
    <3>1. Hands(y, d, f, X) /\ y.heap[t].kind = "backbuffer" /\ y.heap[t].dev = d
      BY <2>1, <2>2, <2>5, <2>8, <2>9, <2>10 DEF Hands
    <3>2. Held(G, f, X, t)
      <4>1. \A k \in Objects : G[k].kind = w.heap[k].kind /\ G[k].dev = w.heap[k].dev
        BY <1>1, <2>9
      <4>2. Holding(G, e, X)
        BY <4>1, HoldingAlive
      <4> QED
        BY <2>6, <4>2 DEF Held
    <3> QED
      BY <2>1, <2>4, <2>5, <2>6, <3>1, <3>2, DropBackDrops
  <2>12. View(u, d) /\ Steps(w, u) /\ Keeps(w, u) /\ HeapOK(u.heap, e, X)
    BY <2>10, <2>11, StepsTwice, KeepsTwice DEF Drops
  <2>13. Frame(G, u.heap)
    BY <2>5, <2>11 DEF Drops
  <2>14. Alike(G[d], u.heap[d])
    BY <1>1, <2>11, <2>13, GoneIs DEF Frame
  <2>15. u.heap[d].ref =< G[d].ref
    BY <1>1, <2>13 DEF Frame
  <2> QED
    BY <2>9, <2>12, <2>13, <2>14, <2>15 DEF Partly, Frame, Alike, Built
<1> QED
  BY <1>5, <1>6

LEMMA PartlyTwice ==
  ASSUME NEW w, NEW u, NEW v, NEW d, NEW e, NEW X, w.heap \in Heaps,
         Partly(w, u, d, e, X), Partly(u, v, d, e, X), d \in Objects
  PROVE  Partly(w, v, d, e, X)
<1>1. HeapOK(v.heap, e, X) /\ HeapOK(u.heap, e, X)
  BY DEF Partly
<1>2. u.heap \in Heaps /\ v.heap \in Heaps /\ \A o \in Objects : Formed(v.heap[o])
  BY <1>1 DEF HeapOK
<1>3. \A o \in Objects : w.heap[o].ref \in Nat /\ u.heap[o].ref \in Nat /\ v.heap[o].ref \in Nat
  BY <1>2, FieldTypes
<1>4. ASSUME NEW o \in Objects \ {d}
      PROVE  (v.heap[o] = Gone \/ Alike(w.heap[o], v.heap[o])) /\ v.heap[o].ref =< w.heap[o].ref
  <2>1. /\ (v.heap[o] = Gone \/ Alike(u.heap[o], v.heap[o])) /\ v.heap[o].ref =< u.heap[o].ref
        /\ (u.heap[o] = Gone \/ Alike(w.heap[o], u.heap[o])) /\ u.heap[o].ref =< w.heap[o].ref
    BY DEF Partly
  <2>2. u.heap[o] = Gone => v.heap[o] = Gone
    BY <1>2, <2>1, GoneIs DEF Alike, Built, Formed
  <2>3. v.heap[o].ref =< w.heap[o].ref
    BY <1>3, <2>1
  <2> QED
    BY <2>1, <2>2, <2>3 DEF Alike, Built
<1>5. Steps(w, v) /\ View(v, d) /\ Keeps(w, v)
  BY StepsTwice, KeepsTwice DEF Partly
<1>6. /\ v.heap[d].ref =< w.heap[d].ref /\ v.heap[d].recording = w.heap[d].recording
      /\ v.heap[d].value = w.heap[d].value /\ v.heap[d].marks = w.heap[d].marks
  BY <1>3 DEF Partly
<1> QED
  BY <1>1, <1>4, <1>5, <1>6 DEF Partly

LEMMA PartlyHolding ==
  ASSUME NEW w, NEW u, NEW d, NEW e, NEW X, Partly(w, u, d, e, X), d \in Objects,
         HeapOK(w.heap, e, X), w.heap[d].kind = "device", NEW g, Holding(w.heap, g, X),
         \A k \in Objects : g[k] > 0 => e[k] > 0
  PROVE  Holding(u.heap, g, X)
<1>1. HeapOK(u.heap, e, X) /\ View(u, d)
  BY DEF Partly
<1>2. \A k \in Objects : e[k] > 0 => u.heap[k].kind # "none"
  BY <1>1, Counting
<1>3. \A k \in Objects \ {d} : g[k] > 0 =>
        u.heap[k].kind = w.heap[k].kind /\ u.heap[k].dev = w.heap[k].dev
  BY <1>2, GoneIs DEF Partly, Alike, Built
<1>4. u.heap[d].kind = "device" /\ Formed(u.heap[d]) /\ Formed(w.heap[d])
  BY <1>1 DEF View, HeapOK
<1>5. u.heap[d].kind = w.heap[d].kind /\ u.heap[d].dev = w.heap[d].dev
  BY <1>4 DEF Formed
<1> QED
  BY <1>3, <1>5, HoldingAlive

LEMMA SlotLinks ==
  ASSUME NEW H, NEW X, NEW o \in Objects
  PROVE  \A s \in Slots : /\ <<o, s>> \in Links
                          /\ <<o, s>> \notin X => LX(H, X)[<<o, s>>] = H[o].bound[s]
<1> SUFFICES ASSUME NEW s \in Slots
             PROVE  /\ <<o, s>> \in Links
                    /\ <<o, s>> \notin X => LX(H, X)[<<o, s>>] = H[o].bound[s]
  OBVIOUS
<1>1. <<o, s>> \in Links
  BY SlotFields DEF Links
<1>2. ASSUME <<o, s>> \notin X
      PROVE  <<o, s>> \in Links /\ LX(H, X)[<<o, s>>] = H[o].bound[s]
  BY <1>2, SlotLink
<1> QED
  BY <1>1, <1>2

LEMMA EmptySlots ==
  ASSUME NEW H, NEW X, NEW o \in Objects, \A s \in Slots : H[o].bound[s] = None,
         \A s \in Slots : <<o, s>> \notin X
  PROVE  \A s \in Slots : LX(H, X)[<<o, s>>] = None
<1> SUFFICES ASSUME NEW s \in Slots
             PROVE  LX(H, X)[<<o, s>>] = None
  OBVIOUS
<1>1. <<o, s>> \notin X /\ H[o].bound[s] = None
  OBVIOUS
<1>2. \A z \in Slots : <<o, z>> \notin X => LX(H, X)[<<o, z>>] = H[o].bound[z]
  BY SlotLinks
<1> QED
  BY <1>1, <1>2

(* A device without references has nothing but what it takes along. *)
LEMMA LeavesDevice ==
  ASSUME NEW H, NEW e, NEW X, HeapOK(H, e, X), NEW d \in Objects, H[d].kind = "device", H[d].ref = 0,
         e[d] = 0, Holding(H, e, X), H[d].peer = None, H[d].bound["target"] = None
  PROVE  Leaves(H, X, d, X) /\ Link(H[d], "dev") = None
<1>1. /\ \A o \in Objects : Link(H[o], "dev") # d /\ H[o].recording # d
      /\ Taken(X) /\ H \in Heaps /\ \A s \in Slots : <<d, s>> \notin X
  BY NoLinksTo, NotHeld DEF HeapOK, Taken
<1>2. H[d].dev = None /\ H[d].recording \in Handles /\ \A s \in Slots : H[d].bound[s] \in Handles
  BY <1>1, FieldTypes DEF HeapOK, Formed
<1>3. \A o \in Objects : H[o].kind # "backbuffer" => H[o].dev # d
  BY <1>1 DEF Link
<1>4. H[d].recording = None
  <2> SUFFICES ASSUME H[d].recording # None
               PROVE  FALSE
    OBVIOUS
  <2>1. H[H[d].recording].kind = "block" /\ H[H[d].recording].dev = d /\ H[d].recording \in Objects
    BY <1>2, ObjectOrNone DEF HeapOK, Records
  <2> QED
    BY <1>3, <2>1
<1>5. \A s \in Slots : H[d].bound[s] = None
  <2> SUFFICES ASSUME NEW s \in Slots, H[d].bound[s] # None
               PROVE  FALSE
    OBVIOUS
  <2> DEFINE b == H[d].bound[s]
  <2>1. b \in Objects
    BY <1>2, ObjectOrNone
  <2>2. Fits(s, H[b].kind) /\ H[b].dev = d
    BY <1>1, Zenon DEF HeapOK, BoundFit, Owner
  <2>3. s # "target"
    OBVIOUS
  <2>4. H[b].kind # "backbuffer"
    BY <2>2, <2>3 DEF Fits, Slots, Content
  <2> QED
    BY <1>3, <2>1, <2>2, <2>4
<1>8. \A s \in Slots : LX(H, X)[<<d, s>>] = None
  BY <1>1, <1>5, EmptySlots
<1>6. \A f \in Fields : f # "dev" => LX(H, X)[<<d, f>>] = None
  <2> TAKE f \in Fields
  <2>1. CASE f \in Slots
    BY <1>8, <2>1
  <2>2. CASE f \in {"recording", "peer"}
    <3>1. Link(H[d], f) = None /\ f \in Others
      BY <1>4, <2>2 DEF Link, Others
    <3> QED
      BY <1>1, <3>1, FieldLink
  <2> QED
    BY <2>1, <2>2, SlotFields
<1>7. \A m \in Links : m[1] = d /\ m[2] # "dev" => LX(H, X)[m] = None
  BY <1>6, LinkPairs
<1> QED
  BY <1>1, <1>2, <1>7 DEF Leaves, Link

LEMMA FreedDevice ==
  ASSUME NEW w, NEW d, NEW e, NEW X, Hands(w, d, e, X), Holding(w.heap, e, X), w.heap[d].ref = 0,
         w.heap[d].peer = None, w.heap[d].bound["target"] = None,
         NEW v, v = Free(CmdAndFlush(w, [op |-> "RELEASE", h |-> d]), d)
  PROVE  /\ Steps(w, v) /\ Sound(v) /\ HeapOK(v.heap, e, X) /\ Frees(w.heap, v.heap, d)
         /\ v.heap[d] = Gone
<1>1. /\ HeapOK(w.heap, e, X) /\ View(w, d) /\ w.heap \in Heaps /\ IsWorld(w) /\ d \in Objects
      /\ e \in [Objects -> Nat] /\ w.heap[d].kind = "device" /\ w.heap[d].named
  BY HandsAre
<1>2. e[d] = 0
  BY <1>1, Counting
<1> DEFINE x == Cmd(w, [op |-> "RELEASE", h |-> d])
           y == Cmd(x, Doorbell)
           G == [y.heap EXCEPT ![d] = Gone]
<1>3. Sound(x) /\ Steps(w, x) /\ x.heap = w.heap
  <2>1. d \in Named(w.heap, d)
    BY <1>1 DEF Named
  <2> QED
    BY <1>1, <2>1, SaysRelease
<1> HIDE DEF x
<1>4. Sound(y) /\ Steps(w, y) /\ y.heap = w.heap
  BY <1>3, Rings, StepsTwice
<1>5. v = [y EXCEPT !.heap = G]
  BY DEF CmdAndFlush, Free, x
<1> HIDE DEF y
<1>6. Frees(w.heap, G, d)
  BY <1>1, <1>4, Freeing
<1> HIDE DEF G
<1>7. Writes(y, v) /\ v.heap = G
  <2>1. IsWorld(y)
    BY <1>4 DEF Sound
  <2>2. Writes(y, [y EXCEPT !.heap = G]) /\ [y EXCEPT !.heap = G].heap = G
    BY <2>1, Writing
  <2> QED
    BY <1>5, <2>2, Zenon
<1>8. Sound(v) /\ Steps(w, v)
  BY <1>4, <1>7, WriteSound, StepsTwice
<1>9. Leaves(w.heap, X, d, X) /\ Link(w.heap[d], "dev") = None
  BY <1>1, <1>2, LeavesDevice
<1>10. Freed(w.heap, d, e, e)
  <2>1. \A k \in Objects : e[k] \in Nat /\ Is(k, None) = 0
    BY <1>1 DEF Is, Objects, None
  <2> QED
    BY <1>1, <1>2, <1>9, <2>1 DEF Freed
<1>11. HeapOK(G, e, X)
  BY <1>1, <1>6, <1>9, <1>10, FreedHeap
<1> QED
  BY <1>6, <1>7, <1>8, <1>11 DEF Frees

LEMMA DropDeviceDrops ==
  ASSUME NEW w, NEW d, NEW e, NEW X, Hands(w, d, e, X), e[d] > 0, Held(w.heap, e, X, d),
         NEW v, v = DropDevice(w, d)
  PROVE  /\ Drops(w, v, d, Less(e, d), X)
         /\ w.heap[d].ref > 1 => v.heap[d].kind = "device"
<1>1. /\ HeapOK(w.heap, e, X) /\ View(w, d) /\ w.heap \in Heaps /\ IsWorld(w) /\ d \in Objects
      /\ e \in [Objects -> Nat] /\ w.heap[d].kind = "device" /\ w.heap[d].named /\ Sound(w)
  BY HandsAre
<1>2. CASE w.heap[d].ref > 1
  BY <1>1, <1>2, LowerDrops DEF DropDevice
<1>3. CASE ~(w.heap[d].ref > 1)
  <2>1. w.heap[d].ref = 1 /\ e[d] = 1
    BY <1>1, <1>3, Counting
  <2> DEFINE y == Lower(w, d)
             f == Less(e, d)
             t == UnbindTarget(y, d)
             u == DropBackBuffer(t, d)
  <2>2. f \in [Objects -> Nat] /\ f[d] = 0 /\ \A k \in Objects \ {d} : f[k] = e[k]
    BY <1>1, <2>1, LessIs
  <2>3. v = Free(CmdAndFlush(u, [op |-> "RELEASE", h |-> d]), d)
    BY <1>3 DEF DropDevice, FreeDevice
  <2>4. Writes(w, y) /\ Counts(w.heap, y.heap, d, 0)
    BY <1>1, <2>1, Lowered
  <2> HIDE DEF y
  <2>5. Holding(w.heap, f, X)
    BY DEF Held
  <2> HIDE DEF f
  <2>6. HeapOK(y.heap, f, X)
    BY <1>1, <2>1, <2>2, <2>4, Recounted
  <2>7. /\ \A o \in Objects : Alike(w.heap[o], y.heap[o])
        /\ y.heap[d].ref = 0 /\ \A o \in Objects \ {d} : y.heap[o] = w.heap[o]
    <3>1. /\ y.heap[d].ref = 0 /\ Alike(w.heap[d], y.heap[d])
          /\ \A o \in Objects \ {d} : y.heap[o] = w.heap[o]
      BY <2>4 DEF Counts
    <3> QED
      BY <3>1 DEF Alike, Built
  <2>8. View(y, d) /\ Steps(w, y)
    <3>1. \A o \in Objects : y.heap[o].named = w.heap[o].named /\ y.heap[o].dev = w.heap[o].dev
      BY <2>7 DEF Alike, Built
    <3>2. Named(y.heap, d) = Named(w.heap, d)
      BY <3>1 DEF Named
    <3>3. y.heap[d].kind = "device" /\ y.heap[d].named
      BY <1>1, <2>7 DEF Alike, Built
    <3> QED
      BY <1>1, <2>4, <3>2, <3>3, ViewWrites
  <2>20. Holding(y.heap, f, X)
    <3>1. \A k \in Objects : y.heap[k].kind = w.heap[k].kind /\ y.heap[k].dev = w.heap[k].dev
      BY <2>7 DEF Alike, Built
    <3> QED
      BY <2>5, <3>1, HoldingAlive
  <2>21. y.heap[d].kind = "device"
    BY <2>8 DEF View
  <2>9. /\ Partly(y, t, d, f, X) /\ t.heap[d].bound["target"] = None
    BY <2>20, <2>6, <2>7, <2>8, UnbindTargetDrops DEF Hands
  <2> HIDE DEF t
  <2>22. Holding(t.heap, f, X) /\ t.heap[d].kind = "device"
    <3>1. t.heap[d].kind = "device"
      BY <2>9 DEF Partly, View
    <3> QED
      BY <1>1, <2>6, <2>9, <2>20, <2>21, <3>1, PartlyHolding
  <2>10. /\ Partly(t, u, d, f, X) /\ u.heap[d].bound["target"] = None /\ u.heap[d].peer = None
    <3>1. Hands(t, d, f, X)
      BY <2>9 DEF Hands, Partly
    <3> QED
      BY <2>22, <2>9, <3>1, DropBackBufferDrops
  <2> HIDE DEF u
  <2>23. Holding(u.heap, f, X)
    <3>1. HeapOK(t.heap, f, X)
      BY <2>9 DEF Partly
    <3> QED
      BY <1>1, <2>10, <2>22, <3>1, PartlyHolding
  <2>11. Partly(y, u, d, f, X) /\ y.heap \in Heaps
    BY <1>1, <2>6, <2>9, <2>10, PartlyTwice DEF HeapOK
  <2>12. Hands(u, d, f, X) /\ u.heap[d].ref = 0 /\ u.heap \in Heaps
    <3>1. HeapOK(u.heap, f, X) /\ View(u, d) /\ u.heap[d].ref =< 0
      BY <2>7, <2>11 DEF Partly
    <3>2. u.heap \in Heaps
      BY <3>1 DEF HeapOK
    <3>3. u.heap[d].ref \in Nat
      BY <1>1, <3>2, FieldTypes
    <3> QED
      BY <3>1, <3>2, <3>3 DEF Hands
  <2>13. /\ Steps(u, v) /\ Sound(v) /\ HeapOK(v.heap, f, X) /\ Frees(u.heap, v.heap, d)
         /\ v.heap[d] = Gone
    BY <2>3, <2>23, <2>10, <2>12, FreedDevice
  <2>14. Steps(w, v)
    BY <2>8, <2>11, <2>13, StepsTwice DEF Partly
  <2>15. Frame(w.heap, v.heap)
    <3>1. \A o \in Objects \ {d} : /\ v.heap[o] = Gone \/ Alike(y.heap[o], v.heap[o])
                                   /\ v.heap[o].ref =< y.heap[o].ref /\ y.heap[o] = w.heap[o]
      BY <2>7, <2>11, <2>13 DEF Partly, Frees
    <3>2. v.heap[d].ref =< w.heap[d].ref
      BY <2>1, <2>13, GoneIs
    <3> QED
      BY <2>13, <3>1, <3>2 DEF Frame
  <2> QED
    BY <1>3, <2>13, <2>14, <2>15, GoneIs DEF Drops, f
<1> QED
  BY <1>2, <1>3

LEMMA LessNone ==
  ASSUME NEW e \in [Objects -> Nat]
  PROVE  Less(e, None) = e
<1>1. \A k \in Objects : e[k] - Is(k, None) = e[k]
  BY DEF Is, Objects, None
<1> QED
  BY <1>1 DEF Less

LEMMA DropsDevice ==
  ASSUME NEW w, NEW v, NEW d, NEW f, NEW X, Drops(w, v, d, f, X), v.heap[d].kind = "device"
  PROVE  Hands(v, d, f, X)
BY DEF Drops, Hands

(* What was freed had a reference on the device. *)
LEMMA LetDevice ==
  ASSUME NEW w, w.heap \in Heaps, NEW d, NEW g \in [Objects -> Nat], NEW X, NEW y,
         Drops(w, y, d, Plus(g, d), X), y.heap[d].kind = "device", Holding(y.heap, g, X),
         NEW v, v = DropDevice(y, d)
  PROVE  Drops(w, v, d, g, X)
<1> DEFINE f == Plus(g, d)
<1>1. Hands(y, d, f, X)
  BY DropsDevice
<1>2. d \in Objects
  BY <1>1, HandsAre
<1>3. Less(f, d) = g /\ f[d] > 0
  BY <1>2, PlusLess
<1> HIDE DEF f
<1>4. Held(y.heap, f, X, d)
  BY <1>3 DEF Held
<1>5. Drops(y, v, d, g, X)
  <2>1. Drops(y, v, d, Less(f, d), X)
    BY <1>1, <1>3, <1>4, DropDeviceDrops
  <2> QED
    BY <1>3, <2>1
<1>6. Drops(w, y, d, f, X)
  BY DEF f
<1> QED
  BY <1>5, <1>6, DropsTwice

LEMMA ReleasedDev ==
  ASSUME NEW w, IsWorld(w), w.heap \in Heaps, NEW h \in Objects
  PROVE  /\ HostRelease(w, h).heap[h].dev = w.heap[h].dev
         /\ ~w.heap[h].named => HostRelease(w, h) = w
<1>0. w.heap[h] \in ObjectType
  BY FieldTypes
<1>1. CASE ~w.heap[h].named \/ ~w.heap[w.heap[h].dev].named
  <2>1. HostRelease(w, h) = w
    BY <1>1 DEF HostRelease
  <2> QED
    BY <2>1
<1>2. CASE ~(~w.heap[h].named \/ ~w.heap[w.heap[h].dev].named)
  <2> DEFINE u == Cmd(w, [op |-> "RELEASE", h |-> h])
  <2>1. HostRelease(w, h) = Unname(u, h)
    BY <1>2 DEF HostRelease
  <2>2. IsWorld(u) /\ u.heap = w.heap
    BY DEF Cmd, IsWorld, WorldFields
  <2> HIDE DEF u
  <2>3. Unname(u, h).heap = [u.heap EXCEPT ![h].named = FALSE]
    BY <2>2 DEF Unname, IsWorld, WorldFields
  <2>4. [u.heap EXCEPT ![h].named = FALSE][h].dev = w.heap[h].dev
    BY <2>2 DEF Heaps, ObjectType
  <2> QED
    BY <1>2, <2>1, <2>3, <2>4
<1> QED
  BY <1>1, <1>2

Simple == Plain \cup {"surface", "memory"}

LEMMA DropPlainDrops ==
  ASSUME NEW w, NEW d, NEW e, NEW X, Hands(w, d, e, X), NEW h \in Objects, e[h] > 0,
         w.heap[h].kind \in Simple, w.heap[h].dev = d, Held(w.heap, e, X, h), NEW v, v = DropPlain(w, h)
  PROVE  Drops(w, v, d, Less(e, h), X)
<1>1. /\ HeapOK(w.heap, e, X) /\ View(w, d) /\ w.heap \in Heaps /\ IsWorld(w) /\ d \in Objects
      /\ e \in [Objects -> Nat] /\ w.heap[d].kind = "device" /\ Taken(X) /\ Formed(w.heap[h])
  BY HandsAre
<1>2. CASE w.heap[h].ref > 1
  BY <1>2, LowerDrops DEF DropPlain
<1>3. CASE ~(w.heap[h].ref > 1)
  <2>1. w.heap[h].ref = 1 /\ e[h] = 1
    BY <1>1, <1>3, Counting
  <2> DEFINE g == Less(e, h)
             f == Plus(g, d)
             y == Free(HostRelease(w, h), h)
  <2>2. g \in [Objects -> Nat] /\ g[h] = 0 /\ \A k \in Objects \ {h} : g[k] = e[k]
    BY <1>1, <2>1, LessIs
  <2>3. w.heap[h].kind \notin {"none", "device", "block", "level", "texture", "backbuffer"} /\ h # d
    BY <1>1 DEF Simple, Plain
  <2>4. v = DropDevice(y, d)
    BY <1>1, <1>3, ReleasedDev DEF DropPlain, Destroy, FreeObject
  <2>5. /\ Frees(w.heap, y.heap, h) /\ View(y, d) /\ Steps(w, y) /\ Keeps(w, y)
        /\ Frame(w.heap, y.heap)
    BY <1>1, <2>3, FreedWorld
  <2> HIDE DEF y
  <2>6. Holding(w.heap, g, X)
    BY DEF Held
  <2> HIDE DEF g
  <2>7. Leaves(w.heap, X, h, X)
    <3>1. \A s \in Slots : <<h, s>> \notin X
      BY <1>1, <2>1, <2>2, <2>6, NotHeld
    <3> QED
      BY <1>1, <2>3, <3>1, LeavesPlain
  <2>8. Freed(w.heap, h, e, f)
    <3>1. /\ f \in [Objects -> Nat]
          /\ \A k \in Objects : f[k] = (IF k = d THEN g[k] + 1 ELSE g[k])
      BY <2>2, PlusIs
    <3> HIDE DEF f
    <3>2. Link(w.heap[h], "dev") = d
      BY <2>3 DEF Link
    <3>3. f[h] = 0
      BY <2>2, <2>3, <3>1
    <3>4. \A k \in Objects \ {h} : f[k] = e[k] + Is(k, d)
      <4>1. \A k \in Objects : e[k] \in Nat
        BY <1>1
      <4> QED
        BY <2>2, <3>1, <4>1 DEF Is
    <3> QED
      BY <2>1, <3>1, <3>2, <3>3, <3>4 DEF Freed
  <2>9. HeapOK(y.heap, f, X)
    <3> HIDE DEF f
    <3> QED
      BY <1>1, <2>3, <2>5, <2>7, <2>8, FreedHeap
  <2>10. Drops(w, y, d, f, X) /\ y.heap[d].kind = "device"
    BY <2>5, <2>9 DEF Drops, View
  <2>12. Holding(y.heap, g, X)
    <3>1. \A k \in Objects : g[k] > 0 => f[k] > 0
      BY <2>2, PlusIs
    <3> HIDE DEF f
    <3> QED
      BY <2>5, <2>6, <2>9, <3>1, HoldingFrame
  <2>11. Drops(w, v, d, g, X)
    BY <1>1, <2>2, <2>4, <2>12, <2>10, LetDevice
  <2> QED
    BY <2>11 DEF g
<1> QED
  BY <1>2, <1>3

(* What happens to the world on the way, whatever the counts are then. *)
Path(w, u, d) == View(u, d) /\ Steps(w, u) /\ Keeps(w, u) /\ u.heap \in Heaps

LEMMA PathTwice ==
  ASSUME NEW u, NEW v, NEW w, NEW d, Path(u, v, d), Path(v, w, d)
  PROVE  Path(u, w, d)
BY StepsTwice, KeepsTwice DEF Path

LEMMA CountedView ==
  ASSUME NEW w, NEW d, View(w, d), w.heap \in Heaps, NEW h \in Objects, NEW n, NEW v,
         Writes(w, v), Counts(w.heap, v.heap, h, n)
  PROVE  Path(w, v, d)
<1>1. v.heap \in Heaps /\ \A o \in Objects : Alike(w.heap[o], v.heap[o])
  <2>1. /\ v.heap \in Heaps /\ Alike(w.heap[h], v.heap[h])
        /\ \A o \in Objects \ {h} : v.heap[o] = w.heap[o]
    BY DEF Counts
  <2> QED
    BY <2>1 DEF Alike, Built
<1>2. \A o \in Objects : v.heap[o].named = w.heap[o].named /\ v.heap[o].dev = w.heap[o].dev
  BY <1>1 DEF Alike, Built
<1>3. Named(v.heap, d) = Named(w.heap, d)
  BY <1>2 DEF Named
<1>4. v.heap[d].kind = "device" /\ v.heap[d].named
  BY <1>1 DEF View, Alike, Built
<1> QED
  BY <1>1, <1>3, <1>4, ViewWrites DEF Path

LEMMA LoweredPath ==
  ASSUME NEW w, NEW d, View(w, d), w.heap \in Heaps, NEW h \in Objects, w.heap[h].ref > 0,
         NEW v, v = Lower(w, h)
  PROVE  Path(w, v, d) /\ Counts(w.heap, v.heap, h, w.heap[h].ref - 1)
<1>1. IsWorld(w)
  BY DEF View, Sound
<1>2. Writes(w, v) /\ Counts(w.heap, v.heap, h, w.heap[h].ref - 1)
  BY <1>1, Lowered
<1> QED
  BY <1>2, CountedView

LEMMA RaisedPath ==
  ASSUME NEW w, NEW d, View(w, d), w.heap \in Heaps, NEW h \in Objects,
         NEW v, v = Raise(w, h)
  PROVE  Path(w, v, d) /\ Counts(w.heap, v.heap, h, w.heap[h].ref + 1)
<1>1. IsWorld(w)
  BY DEF View, Sound
<1>2. Writes(w, v) /\ Counts(w.heap, v.heap, h, w.heap[h].ref + 1)
  BY <1>1, Raised
<1> QED
  BY <1>2, CountedView

(* Its name goes, then the object itself. *)
LEMMA UnnamedPath ==
  ASSUME NEW w, NEW d, View(w, d), w.heap \in Heaps, NEW h \in Objects, h # d, w.heap[h].dev = d,
         NEW v, v = HostRelease(w, h)
  PROVE  /\ Path(w, v, d) /\ ~v.heap[h].named /\ v.heap[h].dev = d
         /\ \A k \in Objects \ {h} : v.heap[k] = w.heap[k]
<1>1. IsWorld(w)
  BY DEF View, Sound
<1>2. CASE w.heap[h].named
  <2>1. View(v, d) /\ Steps(w, v) /\ Keeps(w, v) /\ v.heap = [w.heap EXCEPT ![h].named = FALSE]
    BY <1>2, HostReleased
  <2> DEFINE H == w.heap
             G == [H EXCEPT ![h].named = FALSE]
  <2>3. H \in Heaps /\ H[h].dev = d
    OBVIOUS
  <2>4. v.heap = G
    BY <2>1
  <2> HIDE DEF H
  <2>5. G \in Heaps /\ ~G[h].named /\ G[h].dev = d /\ \A k \in Objects \ {h} : G[k] = H[k]
    BY <2>3, Zenon DEF Heaps, ObjectType
  <2> HIDE DEF G
  <2>2. /\ v.heap \in Heaps /\ ~v.heap[h].named /\ v.heap[h].dev = d
        /\ \A k \in Objects \ {h} : v.heap[k] = w.heap[k]
    BY <2>4, <2>5 DEF H
  <2> QED
    BY <2>1, <2>2 DEF Path
<1>3. CASE ~w.heap[h].named
  <2>1. v = w
    BY <1>1, <1>3, ReleasedDev
  <2> QED
    BY <1>1, <1>3, <2>1, StepsNone DEF Path, Keeps
<1> QED
  BY <1>2, <1>3

LEMMA FreedPath ==
  ASSUME NEW w, NEW d, View(w, d), w.heap \in Heaps, NEW h \in Objects, h # d, w.heap[h].dev = d,
         ~w.heap[h].named, NEW v, v = Free(w, h)
  PROVE  Path(w, v, d) /\ Frees(w.heap, v.heap, h)
<1>1. IsWorld(w)
  BY DEF View, Sound
<1>2. HostRelease(w, h) = w
  BY <1>1, ReleasedDev
<1>3. /\ Frees(w.heap, v.heap, h) /\ View(v, d) /\ Steps(w, v) /\ Keeps(w, v)
      /\ Frame(w.heap, v.heap)
  BY <1>2, FreedWorld
<1> QED
  BY <1>3 DEF Path, Frees

(* A texture with its last reference given back and its name gone. *)
LEMMA TextureUnnamed ==
  ASSUME NEW w, NEW d, NEW e, NEW X, Hands(w, d, e, X), NEW t \in Objects, w.heap[t].kind = "texture",
         w.heap[t].dev = d, w.heap[t].ref = 1, NEW v, v = HostRelease(Lower(w, t), t)
  PROVE  /\ Path(w, v, d) /\ ~v.heap[t].named /\ v.heap[t].dev = d /\ t # d
         /\ \A k \in Objects \ {t} : v.heap[k] = w.heap[k]
<1>1. /\ View(w, d) /\ w.heap \in Heaps /\ IsWorld(w) /\ d \in Objects /\ w.heap[d].kind = "device"
  BY HandsAre
<1> DEFINE y == Lower(w, t)
<1>2. Path(w, y, d) /\ Counts(w.heap, y.heap, t, w.heap[t].ref - 1)
  BY <1>1, LoweredPath
<1>3. v = HostRelease(y, t)
  OBVIOUS
<1> HIDE DEF y
<1>4. y.heap[t].dev = d /\ t # d /\ \A k \in Objects \ {t} : y.heap[k] = w.heap[k]
  BY <1>1, <1>2 DEF Counts, Alike, Built
<1>5. View(y, d) /\ y.heap \in Heaps
  BY <1>2 DEF Path
<1>6. /\ Path(y, v, d) /\ ~v.heap[t].named /\ v.heap[t].dev = d
      /\ \A k \in Objects \ {t} : v.heap[k] = y.heap[k]
  BY <1>3, <1>4, <1>5, UnnamedPath
<1> QED
  BY <1>2, <1>4, <1>6, PathTwice

(* e without what an object had, and with the reference on the device it leaves. *)
LEMMA FreedRefs ==
  ASSUME NEW e \in [Objects -> Nat], NEW h \in Objects, NEW d \in Objects, h # d, e[h] = 1
  PROVE  LET g == Less(e, h)
             f == Plus(g, d)
         IN  /\ g \in [Objects -> Nat] /\ f \in [Objects -> Nat] /\ f[h] = 0 /\ g[h] = 0
             /\ \A k \in Objects \ {h} : f[k] = e[k] + Is(k, d)
             /\ f[d] > 0
<1> DEFINE g == Less(e, h)
           f == Plus(g, d)
<1>1. g \in [Objects -> Nat] /\ g[h] = 0 /\ \A k \in Objects \ {h} : g[k] = e[k]
  BY LessIs
<1> HIDE DEF g
<1>2. f \in [Objects -> Nat] /\ \A k \in Objects : f[k] = (IF k = d THEN g[k] + 1 ELSE g[k])
  BY <1>1, PlusIs
<1> HIDE DEF f
<1>3. \A k \in Objects : e[k] \in Nat /\ g[k] \in Nat
  BY <1>1
<1>4. f[h] = 0 /\ f[d] > 0 /\ \A k \in Objects \ {h} : f[k] = e[k] + Is(k, d)
  BY <1>1, <1>2, <1>3 DEF Is
<1> QED
  BY <1>1, <1>2, <1>4 DEF f, g

LEMMA DropTextureAloneDrops ==
  ASSUME NEW w, NEW d, NEW e, NEW X, Hands(w, d, e, X), NEW t \in Objects, e[t] > 0,
         w.heap[t].kind = "texture", w.heap[t].dev = d, Held(w.heap, e, X, t), w.heap[t].ref = 1,
         w.heap[t].peer = None, NEW v, v = DropTexture(w, t)
  PROVE  Drops(w, v, d, Less(e, t), X)
<1>1. /\ HeapOK(w.heap, e, X) /\ View(w, d) /\ w.heap \in Heaps /\ IsWorld(w) /\ d \in Objects
      /\ e \in [Objects -> Nat] /\ w.heap[d].kind = "device" /\ Taken(X) /\ Formed(w.heap[t])
  BY HandsAre
<1>2. e[t] = 1
  BY <1>1, Counting
<1> DEFINE g == Less(e, t)
           f == Plus(g, d)
           n == HostRelease(Lower(w, t), t)
           y == Free(n, t)
<1>3. /\ Path(w, n, d) /\ ~n.heap[t].named /\ n.heap[t].dev = d /\ t # d
      /\ \A k \in Objects \ {t} : n.heap[k] = w.heap[k]
  BY TextureUnnamed
<1>4. v = DropDevice(y, d)
  BY <1>3 DEF DropTexture, FreeObject
<1> HIDE DEF n
<1>5. Path(w, y, d) /\ Frees(n.heap, y.heap, t)
  <2>1. View(n, d) /\ n.heap \in Heaps
    BY <1>3 DEF Path
  <2>2. Path(n, y, d) /\ Frees(n.heap, y.heap, t)
    BY <1>3, <2>1, FreedPath
  <2> QED
    BY <1>3, <2>2, PathTwice
<1> HIDE DEF y
<1>6. Frees(w.heap, y.heap, t)
  BY <1>3, <1>5 DEF Frees
<1>7. /\ g \in [Objects -> Nat] /\ f \in [Objects -> Nat] /\ f[t] = 0 /\ g[t] = 0
      /\ \A k \in Objects \ {t} : f[k] = e[k] + Is(k, d)
  BY <1>1, <1>2, <1>3, FreedRefs
<1>8. Holding(w.heap, g, X)
  BY DEF Held
<1> HIDE DEF g
<1>9. Leaves(w.heap, X, t, X)
  <2>1. \A s \in Slots : <<t, s>> \notin X
    BY <1>1, <1>2, <1>7, <1>8, NotHeld
  <2> QED
    BY <1>1, <2>1, LeavesPlain
<1>10. HeapOK(y.heap, f, X)
  <2> HIDE DEF f
  <2>1. Freed(w.heap, t, e, f)
    <3>1. Link(w.heap[t], "dev") = d
      BY DEF Link
    <3> QED
      BY <1>2, <1>7, <3>1 DEF Freed
  <2> QED
    BY <1>1, <1>6, <1>9, <2>1, FreedHeap
<1>11. Frame(w.heap, y.heap)
  <2>1. \A o \in Objects : w.heap[o].ref \in Nat
    BY <1>1, FieldTypes
  <2> QED
    BY <1>6, <2>1, GoneIs DEF Frees, Frame, Alike, Built
<1>12. Drops(w, y, d, f, X) /\ y.heap[d].kind = "device"
  BY <1>5, <1>10, <1>11 DEF Drops, View, Path
<1>14. Holding(y.heap, g, X)
  <2>1. \A k \in Objects : g[k] > 0 => f[k] > 0
    BY <1>7, PlusIs
  <2> HIDE DEF f
  <2> QED
    BY <1>8, <1>10, <1>11, <2>1, HoldingFrame
<1>13. Drops(w, v, d, g, X)
  BY <1>1, <1>4, <1>7, <1>14, <1>12, LetDevice
<1> QED
  BY <1>13 DEF g

(* The level surface that goes with its texture. *)
LEMMA CachedLevel ==
  ASSUME NEW H, NEW e, NEW X, HeapOK(H, e, X), NEW t \in Objects, H[t].kind = "texture", H[t].ref = 1,
         e[t] = 1, H[t].peer # None
  PROVE  LET s == H[t].peer
         IN  s \in Objects /\ H[s].kind = "level" /\ H[s].dev = H[t].dev /\ H[s].named /\ H[s].ref = 0
               /\ e[s] = 0 /\ s # t /\ H[s].peer = t
<1> DEFINE s == H[t].peer
<1>1. H \in Heaps /\ Taken(X) /\ e \in [Objects -> Nat]
  BY DEF HeapOK, Taken
<1>2. s \in Objects
  BY <1>1, FieldTypes, ObjectOrNone
<1>3. H[s].kind = "level" /\ H[s].dev = H[t].dev /\ H[s].named /\ H[s].peer = t
  BY DEF HeapOK, Peers
<1>4. Link(H[s], "peer") # t
  BY <1>2, NoLinksTo
<1>5. ~(H[s].ref > 0)
  BY <1>3, <1>4 DEF Link
<1>6. H[s].ref = 0 /\ e[s] = 0
  BY <1>2, <1>5, Counting
<1> QED
  BY <1>2, <1>3, <1>6

LEMMA TwiceFreedRefs ==
  ASSUME NEW e \in [Objects -> Nat], NEW t \in Objects, NEW s \in Objects, NEW d \in Objects,
         t # d, s # d, s # t, e[t] = 1, e[s] = 0
  PROVE  LET i == Plus(e, d)
             j == Plus(Less(i, t), d)
             f == Plus(Less(e, t), d)
         IN  /\ i \in [Objects -> Nat] /\ i[s] = 0 /\ i[t] = 1
             /\ \A k \in Objects \ {s} : i[k] = e[k] + Is(k, d)
             /\ j \in [Objects -> Nat] /\ j[t] = 0 /\ j[s] = 0
             /\ \A k \in Objects \ {t} : j[k] = i[k] + Is(k, d)
             /\ f \in [Objects -> Nat] /\ j[d] = f[d] + 1 /\ \A k \in Objects \ {d} : f[k] = j[k]
             /\ j[d] > 1
<1> DEFINE i == Plus(e, d)
           j == Plus(Less(i, t), d)
           f == Plus(Less(e, t), d)
<1>1. i \in [Objects -> Nat] /\ \A k \in Objects : i[k] = (IF k = d THEN e[k] + 1 ELSE e[k])
  BY PlusIs
<1>2. f \in [Objects -> Nat] /\ f[t] = 0 /\ \A k \in Objects \ {t} : f[k] = e[k] + Is(k, d)
  BY FreedRefs
<1> HIDE DEF i, f
<1>3. \A k \in Objects : e[k] \in Nat
  OBVIOUS
<1>4. i[t] = 1 /\ i[s] = 0 /\ i[d] = e[d] + 1 /\ \A k \in Objects : i[k] = e[k] + Is(k, d)
  BY <1>1, <1>3 DEF Is
<1>5. j \in [Objects -> Nat] /\ j[t] = 0 /\ \A k \in Objects \ {t} : j[k] = i[k] + Is(k, d)
  BY <1>1, <1>4, FreedRefs
<1> HIDE DEF j
<1>6. j[s] = 0 /\ j[d] = e[d] + 2 /\ f[d] = e[d] + 1
  BY <1>2, <1>3, <1>4, <1>5 DEF Is
<1>7. j[d] = f[d] + 1 /\ j[d] > 1
  BY <1>3, <1>6
<1>8. \A k \in Objects \ {d} : f[k] = j[k]
  BY <1>2, <1>3, <1>4, <1>5 DEF Is
<1> QED
  BY <1>1, <1>2, <1>4, <1>5, <1>6, <1>7, <1>8 DEF i, j, f

LEMMA DropTextureLevelDrops ==
  ASSUME NEW w, NEW d, NEW e, NEW X, Hands(w, d, e, X), NEW t \in Objects, e[t] > 0,
         w.heap[t].kind = "texture", w.heap[t].dev = d, Held(w.heap, e, X, t), w.heap[t].ref = 1,
         w.heap[t].peer # None, NEW v, v = DropTexture(w, t)
  PROVE  Drops(w, v, d, Less(e, t), X)
<1>1. /\ HeapOK(w.heap, e, X) /\ View(w, d) /\ w.heap \in Heaps /\ IsWorld(w) /\ d \in Objects
      /\ e \in [Objects -> Nat] /\ w.heap[d].kind = "device" /\ Taken(X) /\ Formed(w.heap[t])
  BY HandsAre
<1>2. e[t] = 1
  BY <1>1, Counting
<1> DEFINE H == w.heap
           s == H[t].peer
           g == Less(e, t)
           f == Plus(g, d)
           i == Plus(e, d)
           j == Plus(Less(i, t), d)
           n == HostRelease(Lower(w, t), t)
           a == HostRelease(n, s)
           b == Free(a, s)
           c == Lower(b, d)
           y == Free(c, t)
           F == [H EXCEPT ![s] = Gone]
           G == [F EXCEPT ![t] = Gone]
<1>3. /\ Path(w, n, d) /\ ~n.heap[t].named /\ n.heap[t].dev = d /\ t # d
      /\ \A k \in Objects \ {t} : n.heap[k] = H[k]
  BY TextureUnnamed
<1>4. /\ s \in Objects /\ H[s].kind = "level" /\ H[s].dev = d /\ H[s].named /\ H[s].ref = 0
      /\ e[s] = 0 /\ s # t /\ s # d /\ H[s].peer = t
  BY <1>1, <1>2, CachedLevel
<1>5. v = FreeObject(Destroy(n, s), t)
  BY <1>4 DEF DropTexture
<1>6. Destroy(n, s) = DropDevice(b, a.heap[s].dev)
  BY DEF Destroy, FreeObject
<1> HIDE DEF n
<1>7. /\ Path(n, a, d) /\ ~a.heap[s].named /\ a.heap[s].dev = d
      /\ \A k \in Objects \ {s} : a.heap[k] = n.heap[k]
  <2>1. View(n, d) /\ n.heap \in Heaps /\ n.heap[s].dev = d
    BY <1>3, <1>4 DEF Path
  <2> QED
    BY <1>4, <2>1, UnnamedPath
<1> HIDE DEF a
<1>8. Path(a, b, d) /\ Frees(a.heap, b.heap, s)
  <2>1. View(a, d) /\ a.heap \in Heaps
    BY <1>7 DEF Path
  <2> QED
    BY <1>4, <1>7, <2>1, FreedPath
<1> HIDE DEF b
<1>9. Frees(H, F, s) /\ Frees(F, G, t)
  <2>1. Frees(H, F, s)
    BY <1>1, <1>4, Freeing
  <2> HIDE DEF F
  <2>2. F \in Heaps
    BY <2>1 DEF Frees
  <2> QED
    BY <2>1, <2>2, Freeing
<1>10. /\ i \in [Objects -> Nat] /\ i[s] = 0 /\ i[t] = 1
       /\ \A k \in Objects \ {s} : i[k] = e[k] + Is(k, d)
       /\ j \in [Objects -> Nat] /\ j[t] = 0 /\ j[s] = 0
       /\ \A k \in Objects \ {t} : j[k] = i[k] + Is(k, d)
       /\ f \in [Objects -> Nat] /\ j[d] = f[d] + 1 /\ \A k \in Objects \ {d} : f[k] = j[k]
       /\ j[d] > 1
  <2> HIDE DEF H, s
  <2> QED
    BY <1>1, <1>2, <1>3, <1>4, TwiceFreedRefs
<1>11. g \in [Objects -> Nat] /\ g[t] = 0 /\ \A k \in Objects : k # t => g[k] = e[k]
  BY <1>1, <1>2, LessIs
<1>12. Holding(w.heap, g, X)
  BY DEF Held
<1> HIDE DEF g, f, i, j, F, G
<1>13. \A z \in Slots : <<t, z>> \notin X /\ <<s, z>> \notin X
  <2>1. \A z \in Slots : <<t, z>> \notin X
    BY <1>1, <1>2, <1>11, <1>12, NotHeld
  <2>2. s \in Objects /\ H[s].ref = e[s] /\ g[s] = 0
    BY <1>4, <1>11
  <2>3. HeapOK(H, e, X) /\ Holding(H, g, X)
    BY <1>1, <1>12
  <2> HIDE DEF s, H
  <2>4. \A z \in Slots : <<s, z>> \notin X
    BY <2>2, <2>3, NotHeld
  <2> QED
    BY <2>1, <2>4
<1>14. Freed(H, s, e, i) /\ Freed(F, t, i, j)
  <2>1. F[t] = H[t]
    BY <1>4, <1>9 DEF Frees
  <2>2. Link(H[s], "dev") = d /\ Link(H[t], "dev") = d
    BY <1>4 DEF Link
  <2> HIDE DEF H, s
  <2>3. H[t].ref = 1
    BY DEF H
  <2> QED
    BY <1>4, <1>10, <2>1, <2>2, <2>3 DEF Freed
<1>15. HeapOK(G, j, X)
  <2> HIDE DEF s
  <2>1. H[t].peer = s /\ H[s].ref = e[s]
    BY <1>4 DEF s
  <2> QED
    BY <1>1, <1>4, <1>9, <1>13, <1>14, <2>1, FreedTexture
<1>16. /\ \A k \in Objects \ {t, s} : G[k] = H[k] /\ b.heap[k] = H[k]
       /\ G[t] = Gone /\ G[s] = Gone /\ b.heap[s] = Gone /\ b.heap[t] = n.heap[t]
  BY <1>3, <1>4, <1>7, <1>8, <1>9 DEF Frees
<1>17. G[d].ref > 1 /\ G[d] = H[d] /\ b.heap[d] = H[d] /\ H[d].ref \in Nat
  <2>1. G[d].ref >= j[d] /\ G[d].ref \in Nat /\ j[d] \in Nat
    BY <1>1, <1>15, Counting
  <2>2. G[d] = H[d] /\ b.heap[d] = H[d]
    BY <1>1, <1>3, <1>4, <1>16
  <2>3. G[d].ref > 1
    BY <1>10, <2>1
  <2> QED
    BY <2>1, <2>2, <2>3
<1>18. Path(b, c, d) /\ Counts(b.heap, c.heap, d, b.heap[d].ref - 1)
  <2>1. View(b, d) /\ b.heap \in Heaps /\ b.heap[d].ref > 0
    BY <1>8, <1>17, SMTT(30) DEF Path
  <2> QED
    BY <1>1, <2>1, LoweredPath
<1>19. v = DropDevice(y, c.heap[t].dev)
  BY <1>5, <1>6, <1>7, <1>17 DEF DropDevice, FreeObject
<1> HIDE DEF c
<1>20. c.heap[t] = n.heap[t] /\ \A k \in Objects \ {d} : c.heap[k] = b.heap[k]
  BY <1>3, <1>16, <1>18 DEF Counts
<1>21. Path(c, y, d) /\ Frees(c.heap, y.heap, t)
  <2>1. View(c, d) /\ c.heap \in Heaps /\ ~c.heap[t].named /\ c.heap[t].dev = d
    BY <1>3, <1>18, <1>20 DEF Path
  <2> QED
    BY <1>3, <2>1, FreedPath
<1> HIDE DEF y
<1>22. Counts(G, y.heap, d, H[d].ref - 1)
  <2>1. y.heap \in Heaps /\ y.heap[t] = Gone /\ \A k \in Objects \ {t} : y.heap[k] = c.heap[k]
    BY <1>21 DEF Frees
  <2>2. c.heap[d].ref = H[d].ref - 1 /\ Alike(H[d], c.heap[d])
    BY <1>17, <1>18 DEF Counts
  <2>3. \A k \in Objects \ {d} : y.heap[k] = G[k]
    BY <1>4, <1>16, <1>20, <2>1
  <2>4. y.heap[d] = c.heap[d]
    BY <1>1, <1>3, <2>1
  <2> QED
    BY <1>17, <2>1, <2>2, <2>3, <2>4 DEF Counts
<1>23. HeapOK(y.heap, f, X)
  <2> DEFINE m == H[d].ref - 1
  <2>1. m \in Nat /\ m + j[d] = f[d] + G[d].ref
    <3>1. f[d] \in Nat
      BY <1>1, <1>10
    <3> QED
      BY <1>10, <1>17, <3>1
  <2>2. Counts(G, y.heap, d, m)
    BY <1>22
  <2>3. G[d].kind # "none" /\ (G[d].kind = "level" => (G[d].ref > 0 <=> m > 0))
    BY <1>1, <1>17
  <2>4. f \in [Objects -> Nat] /\ \A k \in Objects \ {d} : f[k] = j[k]
    BY <1>10
  <2> HIDE DEF m, H
  <2> QED
    <3>1. d \in Objects /\ m \in Nat /\ G[d].kind # "none" /\ HeapOK(G, j, X)
      BY <1>1, <1>15, <2>1, <2>3
    <3>2. m + j[d] = f[d] + G[d].ref
      BY <2>1
    <3>3. G[d].kind = "level" => (G[d].ref > 0 <=> m > 0)
      BY <2>3
    <3> DEFINE K == y.heap
    <3>4. Counts(G, K, d, m)
      BY <2>2
    <3> HIDE DEF K
    <3>5. HeapOK(K, f, X)
      BY <2>4, <3>1, <3>2, <3>3, <3>4, Recounted
    <3> QED
      BY <3>5 DEF K
<1>24. Path(w, y, d)
  BY <1>3, <1>7, <1>8, <1>18, <1>21, PathTwice
<1>25. Frame(H, y.heap)
  <2>1. \A o \in Objects : H[o].ref \in Nat
    BY <1>1, FieldTypes
  <2>2. /\ y.heap[d].ref = H[d].ref - 1 /\ Alike(H[d], y.heap[d])
        /\ \A k \in Objects \ {d} : y.heap[k] = G[k]
    BY <1>17, <1>22 DEF Counts
  <2>3. \A o \in Objects \ {d} : y.heap[o] = Gone \/ y.heap[o] = H[o]
    BY <1>16, <2>2
  <2>4. \A o \in Objects \ {d} : (y.heap[o] = Gone \/ Alike(H[o], y.heap[o])) /\ y.heap[o].ref =< H[o].ref
    BY <2>1, <2>3, GoneIs DEF Alike, Built
  <2>5. y.heap[d].ref =< H[d].ref
    BY <1>1, <2>1, <2>2
  <2> QED
    BY <2>2, <2>4, <2>5 DEF Frame
<1>26. Drops(w, y, d, f, X) /\ y.heap[d].kind = "device"
  BY <1>23, <1>24, <1>25 DEF Drops, View, Path
<1>27. v = DropDevice(y, d)
  BY <1>3, <1>19, <1>20
<1>29. Holding(y.heap, g, X)
  <2>1. \A k \in Objects : g[k] > 0 => f[k] > 0
    BY <1>11, PlusIs DEF f
  <2> QED
    BY <1>12, <1>23, <1>25, <2>1, HoldingFrame
<1>28. Drops(w, v, d, g, X)
  <2>1. Drops(w, y, d, Plus(g, d), X)
    BY <1>26 DEF f
  <2> QED
    BY <1>1, <1>11, <1>29, <1>26, <1>27, <2>1, LetDevice
<1> QED
  BY <1>28 DEF g

LEMMA DropTextureDrops ==
  ASSUME NEW w, NEW d, NEW e, NEW X, Hands(w, d, e, X), NEW t \in Objects, e[t] > 0,
         w.heap[t].kind = "texture", w.heap[t].dev = d, Held(w.heap, e, X, t), NEW v, v = DropTexture(w, t)
  PROVE  Drops(w, v, d, Less(e, t), X)
<1>1. /\ HeapOK(w.heap, e, X) /\ e \in [Objects -> Nat]
  BY HandsAre
<1>2. CASE w.heap[t].ref > 1
  BY <1>2, LowerDrops DEF DropTexture
<1>3. CASE ~(w.heap[t].ref > 1)
  <2>1. w.heap[t].ref = 1
    BY <1>1, <1>3, Counting
  <2> QED
    BY <2>1, DropTextureAloneDrops, DropTextureLevelDrops
<1> QED
  BY <1>2, <1>3

(* A level surface out of use, its texture is given back in its place. *)
LEMMA DropLevelDrops ==
  ASSUME NEW w, NEW d, NEW e, NEW X, Hands(w, d, e, X), NEW s \in Objects, e[s] > 0,
         w.heap[s].kind = "level", w.heap[s].dev = d, Held(w.heap, e, X, s), NEW v, v = DropSurface(w, s)
  PROVE  Drops(w, v, d, Less(e, s), X)
<1>1. /\ HeapOK(w.heap, e, X) /\ View(w, d) /\ w.heap \in Heaps /\ IsWorld(w) /\ d \in Objects
      /\ e \in [Objects -> Nat] /\ w.heap[d].kind = "device" /\ Taken(X) /\ Formed(w.heap[s])
  BY HandsAre
<1>2. CASE w.heap[s].ref > 1
  BY <1>2, LowerDrops DEF DropSurface
<1>3. CASE ~(w.heap[s].ref > 1)
  <2> DEFINE t == w.heap[s].peer
             g == Less(e, s)
             f == Plus(g, t)
             y == Lower(w, s)
  <2>1. w.heap[s].ref = 1 /\ e[s] = 1
    BY <1>1, <1>3, Counting
  <2>2. w.heap[s].named
    BY <1>1, <2>1 DEF Formed
  <2>3. t \in Objects /\ w.heap[t].kind = "texture" /\ w.heap[t].dev = d /\ t # s
    BY <1>1, <2>2 DEF HeapOK, Peers
  <2>4. v = DropTexture(y, t)
    BY <1>3 DEF DropSurface
  <2>5. Path(w, y, d) /\ Counts(w.heap, y.heap, s, w.heap[s].ref - 1)
    BY <1>1, <2>1, LoweredPath
  <2> HIDE DEF y
  <2>6. g \in [Objects -> Nat] /\ g[s] = 0 /\ \A k \in Objects : k # s => g[k] = e[k]
    BY <1>1, <2>1, LessIs
  <2>7. Holding(w.heap, g, X)
    BY DEF Held
  <2> HIDE DEF g, t
  <2>8. f \in [Objects -> Nat] /\ f[t] > 0 /\ Less(f, t) = g
    BY <2>3, <2>6, PlusLess
  <2>9. Moves(e, f, s, t)
    <3>1. Moves(e, g, s, None)
      BY <1>1, <2>1, MovesLess DEF g
    <3>2. Moves(g, f, None, t)
      BY <2>6, MovesPlus
    <3> HIDE DEF f
    <3>3. \A k \in Objects : e[k] \in Nat /\ f[k] \in Nat /\ g[k] \in Nat
      BY <1>1, <2>6, <2>8
    <3>4. \A k \in Objects : f[k] + Is(k, s) = e[k] + Is(k, t)
      <4> TAKE k \in Objects
      <4>1. g[k] + Is(k, s) = e[k] + 0 /\ f[k] + 0 = g[k] + Is(k, t)
        BY <3>1, <3>2 DEF Moves, Is, Objects, None
      <4>2. Is(k, s) \in Nat /\ Is(k, t) \in Nat
        BY DEF Is
      <4> QED
        BY <3>3, <4>1, <4>2
    <3> QED
      BY <2>8, <3>4 DEF Moves
  <2> HIDE DEF f
  <2>10. HeapOK(y.heap, f, X)
    <3> DEFINE n == 0
    <3>1. Counts(w.heap, y.heap, s, n) /\ n = 0
      BY <2>1, <2>5
    <3> HIDE DEF n
    <3>2. w.heap[s].ref = 1 /\ n = 0 /\ Moves(e, f, s, w.heap[s].peer)
      BY <2>1, <2>9, <3>1 DEF t
    <3> QED
      BY <1>1, <2>2, <3>1, <3>2, LevelTurned
  <2>11. y.heap[t] = w.heap[t] /\ Frame(w.heap, y.heap)
    <3>1. \A o \in Objects : w.heap[o].ref \in Nat
      BY <1>1, FieldTypes
    <3>2. /\ y.heap[s].ref = 0 /\ Alike(w.heap[s], y.heap[s])
          /\ \A k \in Objects \ {s} : y.heap[k] = w.heap[k]
      BY <2>1, <2>5 DEF Counts
    <3>3. \A o \in Objects : Alike(w.heap[o], y.heap[o]) /\ y.heap[o].ref =< w.heap[o].ref
      BY <3>1, <3>2 DEF Alike, Built
    <3> QED
      BY <2>3, <3>2, <3>3 DEF Frame
  <2>12. Drops(w, y, d, f, X) /\ y.heap[d].kind = "device"
    BY <2>5, <2>10, <2>11 DEF Drops, Path, View
  <2>13. Drops(y, v, d, Less(f, t), X)
    <3>3. Holding(y.heap, g, X)
      <4>1. \A k \in Objects : g[k] > 0 => f[k] > 0
        BY <2>6, PlusIs DEF f
      <4> QED
        BY <2>7, <2>10, <2>11, <4>1, HoldingFrame
    <3>1. Hands(y, d, f, X) /\ Held(y.heap, f, X, t)
      BY <2>8, <2>12, <3>3, DropsDevice DEF Held
    <3>2. y.heap[t].kind = "texture" /\ y.heap[t].dev = d
      BY <2>3, <2>11
    <3> QED
      BY <2>3, <2>4, <2>8, <3>1, <3>2, DropTextureDrops
  <2>14. Drops(w, v, d, g, X)
    BY <1>1, <2>8, <2>12, <2>13, DropsTwice
  <2> QED
    BY <2>14 DEF g
<1> QED
  BY <1>2, <1>3

LEMMA DropSurfaceDrops ==
  ASSUME NEW w, NEW d, NEW e, NEW X, Hands(w, d, e, X), NEW s \in Objects, e[s] > 0,
         w.heap[s].kind \in {"surface", "memory", "backbuffer", "level"}, w.heap[s].dev = d,
         Held(w.heap, e, X, s), NEW v, v = DropSurface(w, s)
  PROVE  Drops(w, v, d, Less(e, s), X)
<1>1. CASE w.heap[s].kind \in {"surface", "memory"}
  <2>1. v = DropPlain(w, s)
    BY <1>1 DEF DropSurface
  <2>2. w.heap[s].kind \in Simple
    BY <1>1 DEF Simple
  <2> QED
    BY <2>1, <2>2, DropPlainDrops
<1>2. CASE w.heap[s].kind = "backbuffer"
  <2>1. v = DropBack(w, s)
    BY <1>2 DEF DropSurface
  <2> QED
    BY <1>2, <2>1, DropBackDrops
<1>3. CASE w.heap[s].kind = "level"
  BY <1>3, DropLevelDrops
<1> QED
  BY <1>1, <1>2, <1>3

LEMMA DropContentDrops ==
  ASSUME NEW w, NEW d, NEW e, NEW X, Hands(w, d, e, X), NEW h \in Objects, e[h] > 0,
         w.heap[h].kind \in Plain \cup {"texture"}, w.heap[h].dev = d,
         Held(w.heap, e, X, h), NEW v, v = DropContent(w, h)
  PROVE  Drops(w, v, d, Less(e, h), X)
<1>0. h # None
  BY DEF Objects, None
<1>1. CASE w.heap[h].kind = "texture"
  BY <1>0, <1>1, DropTextureDrops DEF DropContent
<1>2. CASE w.heap[h].kind \in Plain /\ w.heap[h].kind # "texture"
  BY <1>0, <1>2, DropPlainDrops DEF DropContent, Simple
<1> QED
  BY <1>1, <1>2

(* A block gives back what it has, one slot after the other. *)
Grown(e, g) == e \in [Objects -> Nat] /\ g \in [Objects -> Nat] /\ \A k \in Objects : e[k] =< g[k]

LEMMA GrownPlus ==
  ASSUME NEW e, NEW g, Grown(e, g), NEW c
  PROVE  Grown(e, Plus(g, c))
<1>1. Plus(g, c) \in [Objects -> Nat] /\ \A k \in Objects : Plus(g, c)[k] = (IF k = c THEN g[k] + 1 ELSE g[k])
  BY PlusIs DEF Grown
<1>2. \A k \in Objects : e[k] \in Nat /\ g[k] \in Nat /\ e[k] =< g[k]
  BY DEF Grown
<1>3. \A k \in Objects : e[k] =< Plus(g, c)[k]
  <2> TAKE k \in Objects
  <2>1. Plus(g, c)[k] = g[k] + 1 \/ Plus(g, c)[k] = g[k]
    BY <1>1
  <2> QED
    BY <1>2, <2>1
<1> QED
  BY <1>1, <1>3 DEF Grown

LEMMA GrownHolding ==
  ASSUME NEW H, NEW e, NEW g, Grown(e, g), NEW X, Taken(X), Holding(H, e, X)
  PROVE  Holding(H, g, X)
<1>1. \A k \in Objects : e[k] > 0 => g[k] > 0
  BY DEF Grown
<1>2. \A l \in X : l[1] \in Objects
  BY DEF Taken
<1>3. \A k \in Objects : Pinned(H, e, k) => Pinned(H, g, k)
  BY <1>1 DEF Pinned
<1> QED
  BY <1>1, <1>2, <1>3 DEF Holding

HasContent(w, d, b, e, Y) ==
  /\ w.heap \in Heaps /\ b \in Objects /\ d \in Objects /\ w.heap[b].kind = "block"
  /\ w.heap[b].dev = d /\ e[b] > 0 /\ Taken(Y) /\ Holding(w.heap, e, Y)

Includes(w, d, c) ==
  c \in Handles /\ (c # None => w.heap[c].kind \in Plain \cup {"texture"} /\ w.heap[c].dev = d)

LEMMA BlockStays ==
  ASSUME NEW w, NEW d, NEW b, NEW e, NEW Y, HasContent(w, d, b, e, Y), NEW g, Grown(e, g), NEW v,
         Drops(w, v, d, g, Y)
  PROVE  v.heap[d].kind = "device" /\ Alike(w.heap[b], v.heap[b]) /\ v.heap[b].ref =< w.heap[b].ref
<1>1. HeapOK(v.heap, g, Y) /\ Frame(w.heap, v.heap) /\ b \in Objects
  BY DEF Drops, HasContent
<1>2. g[b] > 0
  <2>1. e[b] \in Nat /\ g[b] \in Nat /\ e[b] =< g[b] /\ e[b] > 0
    BY <1>1 DEF HasContent, Grown
  <2> QED
    BY <2>1
<1>3. v.heap[b].kind # "none"
  BY <1>1, <1>2, Counting
<1>4. Alike(w.heap[b], v.heap[b]) /\ v.heap[b].ref =< w.heap[b].ref
  BY <1>1, <1>3, GoneIs DEF Frame
<1>5. v.heap[b].kind = "block" /\ v.heap[b].dev = d
  BY <1>4 DEF Alike, Built, HasContent
<1>6. v.heap[d].kind = "device"
  BY <1>1, <1>5 DEF HeapOK, HasDevice
<1> QED
  BY <1>4, <1>6

LEMMA SlotDrop ==
  ASSUME NEW w, NEW d, NEW b, NEW e, NEW Y, HasContent(w, d, b, e, Y), NEW g, Grown(e, g),
         NEW c, Includes(w, d, c), NEW u, Drops(w, u, d, Plus(g, c), Y), NEW v, v = DropContent(u, c)
  PROVE  Drops(w, v, d, g, Y)
<1>0. g \in [Objects -> Nat] /\ w.heap \in Heaps /\ Taken(Y) /\ Holding(w.heap, g, Y)
  BY GrownHolding DEF Grown, HasContent
<1>1. CASE c = None
  <2>1. Plus(g, c) = g
    BY <1>0, <1>1, PlusIs
  <2>2. v = u
    BY <1>1 DEF DropContent
  <2> QED
    BY <2>1, <2>2
<1>2. CASE c # None
  <2> DEFINE f == Plus(g, c)
  <2>1. c \in Objects /\ w.heap[c].kind \in Plain \cup {"texture"} /\ w.heap[c].dev = d
    BY <1>2, ObjectOrNone DEF Includes
  <2>2. Grown(e, f)
    BY GrownPlus
  <2>3. f[c] > 0 /\ Less(f, c) = g
    BY <1>0, <2>1, PlusLess
  <2>4. u.heap[d].kind = "device"
    BY <2>2, BlockStays
  <2>5. HeapOK(u.heap, f, Y) /\ Frame(w.heap, u.heap) /\ Hands(u, d, f, Y)
    BY <2>4, DropsDevice DEF Drops
  <2>6. Drops(w, u, d, f, Y)
    OBVIOUS
  <2> HIDE DEF f
  <2>7. u.heap[c].kind # "none"
    BY <2>1, <2>3, <2>5, Counting
  <2>8. u.heap[c].kind = w.heap[c].kind /\ u.heap[c].dev = d
    BY <2>1, <2>5, <2>7, GoneIs DEF Frame, Alike, Built
  <2>12. Holding(u.heap, g, Y)
    <3>1. \A k \in Objects : g[k] > 0 => f[k] > 0
      BY <1>0, PlusIs DEF f
    <3> QED
      BY <1>0, <2>5, <3>1, HoldingFrame
  <2>9. Held(u.heap, f, Y, c)
    BY <2>3, <2>12 DEF Held
  <2>10. Drops(u, v, d, Less(f, c), Y)
    <3>1. u.heap[c].kind \in Plain \cup {"texture"}
      BY <2>1, <2>8
    <3> QED
      BY <2>1, <2>3, <2>5, <2>8, <2>9, <3>1, DropContentDrops
  <2>11. Drops(u, v, d, g, Y)
    BY <2>3, <2>10
  <2> QED
    BY <1>0, <2>4, <2>6, <2>11, DropsTwice
<1> QED
  BY <1>1, <1>2

LEMMA TakeOut ==
  ASSUME NEW H, NEW e, NEW X, HeapOK(H, e, X), NEW o \in Objects, NEW s \in Slots, <<o, s>> \notin X
  PROVE  HeapOK(H, Plus(e, H[o].bound[s]), X \cup {<<o, s>>})
<1> DEFINE c == H[o].bound[s]
           f == Plus(e, c)
<1>1. Moves(e, f, None, c)
  BY MovesPlus DEF HeapOK
<1> HIDE DEF f
<1>2. HeapOK(H, f, X \cup {<<o, s>>})
  BY <1>1, TakenOut
<1> QED
  BY <1>2 DEF f

(* All that a block has, from outside the heap. *)
Refs1(e, v) == Plus(e, v["pixel"])
Refs2(e, v) == Plus(Refs1(e, v), v["declaration"])
Refs3(e, v) == Plus(Refs2(e, v), v["shader"])
Refs4(e, v) == Plus(Refs3(e, v), v["stream"])
Refs5(e, v) == Plus(Refs4(e, v), v["stage"])
Contents(b) == {<<b, s>> : s \in Content}

LEMMA ContentOut ==
  ASSUME NEW H, NEW e, NEW X, HeapOK(H, e, X), NEW b \in Objects, \A s \in Slots : <<b, s>> \notin X
  PROVE  HeapOK(H, Refs5(e, H[b].bound), X \cup Contents(b)) /\ Grown(e, Refs1(e, H[b].bound))
         /\ Grown(e, Refs2(e, H[b].bound)) /\ Grown(e, Refs3(e, H[b].bound))
         /\ Grown(e, Refs4(e, H[b].bound)) /\ Grown(e, e) /\ Grown(e, Refs5(e, H[b].bound))
<1> DEFINE v == H[b].bound
           X1 == X \cup {<<b, "pixel">>}
           X2 == X1 \cup {<<b, "declaration">>}
           X3 == X2 \cup {<<b, "shader">>}
           X4 == X3 \cup {<<b, "stream">>}
           X5 == X4 \cup {<<b, "stage">>}
<1>1. {"pixel", "declaration", "shader", "stream", "stage"} = Content /\ Content \subseteq Slots
  BY SlotFields DEF Content
<1>2. /\ <<b, "pixel">> \notin X /\ <<b, "declaration">> \notin X1 /\ <<b, "shader">> \notin X2
      /\ <<b, "stream">> \notin X3 /\ <<b, "stage">> \notin X4
  BY <1>1
<1>3. HeapOK(H, Refs1(e, v), X1)
  BY <1>1, <1>2, TakeOut, Zenon DEF Refs1
<1> HIDE DEF X1
<1>4. HeapOK(H, Refs2(e, v), X2)
  BY <1>1, <1>2, <1>3, TakeOut, Zenon DEF Refs2
<1> HIDE DEF X2
<1>5. HeapOK(H, Refs3(e, v), X3)
  BY <1>1, <1>2, <1>4, TakeOut, Zenon DEF Refs3
<1> HIDE DEF X3
<1>6. HeapOK(H, Refs4(e, v), X4)
  BY <1>1, <1>2, <1>5, TakeOut, Zenon DEF Refs4
<1> HIDE DEF X4
<1>7. HeapOK(H, Refs5(e, v), X5)
  BY <1>1, <1>2, <1>6, TakeOut, Zenon DEF Refs5
<1>8. X5 = X \cup Contents(b)
  BY <1>1 DEF X1, X2, X3, X4, Contents
<1> HIDE DEF X5
<1>9. Grown(e, e)
  BY DEF Grown, HeapOK
<1>10. Grown(e, Refs1(e, v)) /\ Grown(e, Refs2(e, v)) /\ Grown(e, Refs3(e, v)) /\ Grown(e, Refs4(e, v))
       /\ Grown(e, Refs5(e, v))
  <2> HIDE DEF v
  <2>1. Grown(e, Refs1(e, v))
    BY <1>9, GrownPlus DEF Refs1
  <2>2. Grown(e, Refs2(e, v))
    BY <2>1, GrownPlus DEF Refs2
  <2>3. Grown(e, Refs3(e, v))
    BY <2>2, GrownPlus DEF Refs3
  <2>4. Grown(e, Refs4(e, v))
    BY <2>3, GrownPlus DEF Refs4
  <2>5. Grown(e, Refs5(e, v))
    BY <2>4, GrownPlus DEF Refs5
  <2> QED
    BY <2>1, <2>2, <2>3, <2>4, <2>5
<1> QED
  BY <1>7, <1>8, <1>9, <1>10

LEMMA BlockContains ==
  ASSUME NEW w, NEW d, NEW e, NEW X, Hands(w, d, e, X), NEW b \in Objects, w.heap[b].kind = "block",
         w.heap[b].dev = d, \A s \in Slots : <<b, s>> \notin X
  PROVE  \A s \in Content : Includes(w, d, w.heap[b].bound[s])
<1> TAKE s \in Content
<1>1. /\ HeapOK(w.heap, e, X) /\ w.heap \in Heaps
  BY HandsAre
<1>2. s \in Slots /\ s # "target" /\ s \in {"stage", "stream", "shader", "declaration", "pixel"}
  BY SlotFields DEF Content
<1> DEFINE c == w.heap[b].bound[s]
<1>3. c \in Handles
  BY <1>1, <1>2, FieldTypes
<1>4. ASSUME c # None
      PROVE  w.heap[c].kind \in Plain \cup {"texture"} /\ w.heap[c].dev = d
  <2>1. <<b, s>> \notin X /\ Owner(w.heap, b) = d
    BY <1>2 DEF Owner
  <2>2. Fits(s, w.heap[c].kind) /\ w.heap[c].dev = d
    BY <1>1, <1>2, <1>4, <2>1 DEF HeapOK, BoundFit
  <2> HIDE DEF c
  <2>3. w.heap[c].kind \in Plain \cup {"texture"}
    BY <1>2, <2>2 DEF Fits, Plain
  <2> QED
    BY <2>2, <2>3
<1> QED
  BY <1>3, <1>4 DEF Includes

LEMMA ContentsAre ==
  ASSUME NEW b \in Objects
  PROVE  Contents(b) \subseteq Objects \X Slots /\ \A l \in Contents(b) : l[1] = b
<1> SUFFICES ASSUME NEW l \in Contents(b)
             PROVE  l \in Objects \X Slots /\ l[1] = b
  OBVIOUS
<1>1. PICK s \in Content : l = <<b, s>>
  BY DEF Contents
<1>2. s \in Slots
  BY SlotFields
<1> QED
  BY <1>1, <1>2

LEMMA DropContentsDrops ==
  ASSUME NEW w, NEW d, NEW e, NEW X, Hands(w, d, e, X), NEW b \in Objects, e[b] > 0,
         w.heap[b].kind = "block", w.heap[b].dev = d, Held(w.heap, e, X, b), \A s \in Slots : <<b, s>> \notin X,
         NEW u, u = DropContents(w, b)
  PROVE  HasContent(w, d, b, e, X \cup Contents(b)) /\ Drops(w, u, d, e, X \cup Contents(b))
<1>1. /\ HeapOK(w.heap, e, X) /\ View(w, d) /\ w.heap \in Heaps /\ IsWorld(w) /\ d \in Objects
      /\ e \in [Objects -> Nat] /\ w.heap[d].kind = "device" /\ Taken(X) /\ Sound(w)
  BY HandsAre
<1> DEFINE c == w.heap[b].bound
           Y == X \cup Contents(b)
           u1 == DropContent(w, c["stage"])
           u2 == DropContent(u1, c["stream"])
           u3 == DropContent(u2, c["shader"])
           u4 == DropContent(u3, c["declaration"])
           u5 == DropContent(u4, c["pixel"])
<1>2. u = u5
  BY DEF DropContents, EachSlot
<1>3. {"pixel", "declaration", "shader", "stream", "stage"} = Content /\ Content \subseteq Slots
  BY SlotFields DEF Content
<1>4. /\ Includes(w, d, c["stage"]) /\ Includes(w, d, c["stream"]) /\ Includes(w, d, c["shader"])
      /\ Includes(w, d, c["declaration"]) /\ Includes(w, d, c["pixel"])
  BY <1>3, BlockContains
<1>5. HasContent(w, d, b, e, Y)
  <2>1. Taken(Y)
    BY <1>1, ContentsAre DEF Taken
  <2>2. Holding(w.heap, e, X)
    <3>1. Less(e, b) \in [Objects -> Nat] /\ Less(e, b)[b] = e[b] - 1 /\ \A k \in Objects : k # b => Less(e, b)[k] = e[k]
      BY <1>1, LessIs
    <3>2. Grown(Less(e, b), e)
      BY <1>1, <3>1 DEF Grown
    <3> QED
      BY <1>1, <3>2, GrownHolding DEF Held
  <2>3. \A l \in Contents(b) : l[1] = b
    BY ContentsAre
  <2>4. Holding(w.heap, e, Y)
    BY <2>2, <2>3 DEF Holding
  <2> QED
    BY <1>1, <2>1, <2>4 DEF HasContent
<1>6. /\ HeapOK(w.heap, Refs5(e, c), Y) /\ Grown(e, Refs1(e, c)) /\ Grown(e, Refs2(e, c))
      /\ Grown(e, Refs3(e, c)) /\ Grown(e, Refs4(e, c)) /\ Grown(e, e)
  BY <1>1, ContentOut, Zenon
<1>7. Drops(w, w, d, Refs5(e, c), Y)
  BY <1>1, <1>6, StepsNone, FrameNone DEF Drops, Keeps
<1> HIDE DEF Y, c
<1>8. Drops(w, u1, d, Refs4(e, c), Y)
  <2> HIDE DEF u1
  <2>1. Drops(w, w, d, Plus(Refs4(e, c), c["stage"]), Y) /\ u1 = DropContent(w, c["stage"])
    BY <1>7 DEF Refs5, u1
  <2> QED
    BY <1>4, <1>5, <1>6, <2>1, SlotDrop
<1> HIDE DEF u1
<1>9. Drops(w, u2, d, Refs3(e, c), Y)
  <2> HIDE DEF u2
  <2>1. Drops(w, u1, d, Plus(Refs3(e, c), c["stream"]), Y) /\ u2 = DropContent(u1, c["stream"])
    BY <1>8 DEF Refs4, u2
  <2> QED
    BY <1>4, <1>5, <1>6, <2>1, SlotDrop
<1> HIDE DEF u2
<1>10. Drops(w, u3, d, Refs2(e, c), Y)
  <2> HIDE DEF u3
  <2>1. Drops(w, u2, d, Plus(Refs2(e, c), c["shader"]), Y) /\ u3 = DropContent(u2, c["shader"])
    BY <1>9 DEF Refs3, u3
  <2> QED
    BY <1>4, <1>5, <1>6, <2>1, SlotDrop
<1> HIDE DEF u3
<1>11. Drops(w, u4, d, Refs1(e, c), Y)
  <2> HIDE DEF u4
  <2>1. Drops(w, u3, d, Plus(Refs1(e, c), c["declaration"]), Y) /\ u4 = DropContent(u3, c["declaration"])
    BY <1>10 DEF Refs2, u4
  <2> QED
    BY <1>4, <1>5, <1>6, <2>1, SlotDrop
<1> HIDE DEF u4
<1>12. Drops(w, u5, d, e, Y)
  <2> HIDE DEF u5
  <2>1. Drops(w, u4, d, Plus(e, c["pixel"]), Y) /\ u5 = DropContent(u4, c["pixel"])
    BY <1>11 DEF Refs1, u5
  <2> QED
    BY <1>4, <1>5, <1>6, <2>1, SlotDrop
<1> QED
  BY <1>2, <1>5, <1>12 DEF Y

LEMMA DropBlockDrops ==
  ASSUME NEW w, NEW d, NEW e, NEW X, Hands(w, d, e, X), NEW b \in Objects, e[b] > 0,
         w.heap[b].kind = "block", w.heap[b].dev = d, Held(w.heap, e, X, b), NEW v, v = DropBlock(w, b)
  PROVE  Drops(w, v, d, Less(e, b), X)
<1>1. /\ HeapOK(w.heap, e, X) /\ View(w, d) /\ w.heap \in Heaps /\ IsWorld(w) /\ d \in Objects
      /\ e \in [Objects -> Nat] /\ w.heap[d].kind = "device" /\ Taken(X) /\ Formed(w.heap[b])
  BY HandsAre
<1>2. CASE w.heap[b].ref > 1
  BY <1>2, LowerDrops DEF DropBlock
<1>3. CASE ~(w.heap[b].ref > 1)
  <2> DEFINE u == DropContents(w, b)
             y == Free(u, b)
             Y == X \cup Contents(b)
             g == Less(e, b)
             f == Plus(g, d)
  <2>1. w.heap[b].ref = 1 /\ e[b] = 1 /\ b # d
    BY <1>1, <1>3, Counting
  <2>2. g \in [Objects -> Nat] /\ g[b] = 0 /\ \A k \in Objects : k # b => g[k] = e[k]
    BY <1>1, <2>1, LessIs
  <2>3. Holding(w.heap, g, X)
    BY DEF Held
  <2>4. \A s \in Slots : <<b, s>> \notin X
    <3>1. w.heap[b].ref = e[b] /\ g[b] = 0
      BY <1>1, <1>3, <2>1, <2>2, Counting
    <3> HIDE DEF g
    <3> QED
      BY <1>1, <2>3, <3>1, NotHeld
  <2>5. v = FreeObject(u, b)
    BY <1>3 DEF DropBlock
  <2>6. HasContent(w, d, b, e, Y) /\ Drops(w, u, d, e, Y)
    BY <2>4, DropContentsDrops
  <2> HIDE DEF u, Y
  <2>7. u.heap[d].kind = "device" /\ Alike(w.heap[b], u.heap[b]) /\ u.heap[b].ref =< w.heap[b].ref
    <3>1. Grown(e, e)
      BY <1>1 DEF Grown
    <3> QED
      BY <2>6, <3>1, BlockStays
  <2>8. HeapOK(u.heap, e, Y) /\ View(u, d) /\ Frame(w.heap, u.heap) /\ u.heap \in Heaps
    BY <2>6, <2>7 DEF Drops, HeapOK
  <2>9. u.heap[b].ref = 1 /\ u.heap[b].kind = "block" /\ u.heap[b].dev = d /\ Formed(u.heap[b])
        /\ ~u.heap[b].named
    <3>1. u.heap[b].ref \in Nat /\ u.heap[b].ref >= e[b]
      BY <2>8, Counting
    <3>2. u.heap[b].ref = 1
      BY <2>1, <2>7, <3>1
    <3>3. u.heap[b].kind = "block" /\ u.heap[b].dev = d
      BY <2>7 DEF Alike, Built
    <3>4. Formed(u.heap[b])
      BY <2>8 DEF HeapOK
    <3> QED
      BY <3>2, <3>3, <3>4 DEF Formed
  <2>10. v = DropDevice(y, d)
    BY <2>5, <2>9 DEF FreeObject
  <2>11. Path(u, y, d) /\ Frees(u.heap, y.heap, b)
    BY <2>1, <2>8, <2>9, FreedPath
  <2> HIDE DEF y
  <2>12. /\ f \in [Objects -> Nat] /\ f[b] = 0
         /\ \A k \in Objects \ {b} : f[k] = e[k] + Is(k, d)
    BY <1>1, <2>1, FreedRefs
  <2>13. Freed(u.heap, b, e, f)
    <3> HIDE DEF f
    <3>1. Link(u.heap[b], "dev") = d
      BY <2>9 DEF Link
    <3> QED
      BY <2>1, <2>9, <2>12, <3>1 DEF Freed
  <2>14. Leaves(u.heap, Y, b, X)
    <3>1. \A m \in Links : m[1] # b => (m \in Y <=> m \in X)
      BY DEF Y, Contents
    <3>2. Taken(Y)
      BY <2>6 DEF HasContent
    <3>3. \A z \in Fields : z # "dev" => LX(u.heap, Y)[<<b, z>>] = None
      <4> TAKE z \in Fields
      <4>1. CASE z \in Slots /\ z = "target"
        <5>1. u.heap[b].bound["target"] = None
          BY <2>9 DEF Formed
        <5>2. /\ <<b, z>> \in Links
              /\ LX(u.heap, Y)[<<b, z>>] = None \/ LX(u.heap, Y)[<<b, z>>] = u.heap[b].bound[z]
          BY <4>1, LinkPairs, SlotFields DEF LX
        <5> QED
          BY <4>1, <5>1, <5>2
      <4>2. CASE z \in Slots /\ z # "target"
        <5>1. <<b, z>> \in Y
          BY <4>2 DEF Y, Contents, Slots
        <5>2. <<b, z>> \in Links
          BY LinkPairs
        <5> QED
          BY <5>1, <5>2 DEF LX
      <4>3. CASE z \in {"recording", "peer"}
        <5>1. Link(u.heap[b], z) = None /\ z \in Others
          BY <2>9, <4>3 DEF Link, Others, Formed
        <5> QED
          BY <3>2, <5>1, FieldLink
      <4> QED
        BY <4>1, <4>2, <4>3, SlotFields
    <3>4. \A m \in Links : m[1] = b /\ m[2] # "dev" => LX(u.heap, Y)[m] = None
      BY <3>3, LinkPairs
    <3> QED
      BY <1>1, <3>1, <3>4 DEF Leaves
  <2>15. HeapOK(y.heap, f, X)
    <3> HIDE DEF f
    <3>1. u.heap[b].kind \notin {"none", "level"} /\ u.heap[b].kind # "texture"
      BY <2>9
    <3> QED
      BY <2>8, <2>11, <2>13, <2>14, <3>1, FreedHeap
  <2>16. Frame(w.heap, y.heap)
    <3>1. Frame(u.heap, y.heap)
      <4>1. \A o \in Objects : u.heap[o].ref \in Nat
        BY <2>8, FieldTypes
      <4> QED
        BY <2>11, <4>1, GoneIs DEF Frees, Frame, Alike, Built
    <3>2. y.heap \in Heaps /\ \A o \in Objects : Formed(y.heap[o])
      BY <2>15 DEF HeapOK
    <3> QED
      BY <1>1, <2>8, <3>1, <3>2, FrameTwice
  <2>17. Steps(w, y) /\ View(y, d) /\ Keeps(w, y)
    <3>1. Steps(w, u) /\ Keeps(w, u)
      BY <2>6, <2>7 DEF Drops
    <3> QED
      BY <2>11, <3>1, StepsTwice, KeepsTwice DEF Path
  <2>18. Drops(w, y, d, f, X) /\ y.heap[d].kind = "device"
    BY <2>15, <2>16, <2>17 DEF Drops, View
  <2>20. Holding(y.heap, g, X)
    <3>1. \A k \in Objects : g[k] > 0 => f[k] > 0
      BY <2>2, PlusIs
    <3> HIDE DEF f, g
    <3> QED
      BY <2>3, <2>15, <2>16, <3>1, HoldingFrame
  <2> HIDE DEF g
  <2>19. Drops(w, v, d, g, X)
    BY <1>1, <2>2, <2>20, <2>10, <2>18, LetDevice
  <2> QED
    BY <2>19 DEF g
<1> QED
  BY <1>2, <1>3

(* Any object. *)
LEMMA DropDrops ==
  ASSUME NEW w, NEW d, NEW e, NEW X, Hands(w, d, e, X), NEW h \in Objects, e[h] > 0,
         Owner(w.heap, h) = d, Held(w.heap, e, X, h), NEW v, v = Drop(w, h)
  PROVE  Drops(w, v, d, Less(e, h), X)
<1>0. h # None
  BY DEF Objects, None
<1>1. /\ w.heap[h].kind \in ({"none", "device", "level", "backbuffer"} \cup Kinds) \ {"none"}
      /\ w.heap[h].kind = "device" => h = d
      /\ w.heap[h].kind # "device" => w.heap[h].dev = d
  <2>1. HeapOK(w.heap, e, X) /\ w.heap \in Heaps
    BY HandsAre
  <2>2. w.heap[h].kind # "none"
    BY <2>1, Counting
  <2> QED
    BY <2>1, <2>2, FieldTypes DEF Owner
<1>2. v = DropObject(w, h)
  BY <1>0 DEF Drop
<1>3. CASE w.heap[h].kind = "device"
  <2>1. v = DropDevice(w, h)
    BY <1>2, <1>3 DEF DropObject, Plain
  <2> QED
    BY <1>1, <1>3, <2>1, DropDeviceDrops
<1>4. CASE w.heap[h].kind = "texture"
  <2>1. v = DropTexture(w, h)
    BY <1>2, <1>4 DEF DropObject, Plain
  <2> QED
    BY <1>1, <1>4, <2>1, DropTextureDrops
<1>5. CASE w.heap[h].kind \in Plain
  <2>1. v = DropPlain(w, h) /\ w.heap[h].kind # "device"
    BY <1>2, <1>5 DEF DropObject, Plain
  <2>2. w.heap[h].kind \in Simple
    BY <1>5 DEF Simple
  <2> QED
    BY <1>1, <2>1, <2>2, DropPlainDrops
<1>6. CASE w.heap[h].kind = "block"
  <2>1. v = DropBlock(w, h)
    BY <1>2, <1>6 DEF DropObject, Plain
  <2> QED
    BY <1>1, <1>6, <2>1, DropBlockDrops
<1>7. CASE w.heap[h].kind \in {"surface", "memory", "backbuffer", "level"}
  <2>1. v = DropSurface(w, h)
    BY <1>2, <1>7 DEF DropObject, Plain
  <2> QED
    BY <1>1, <1>7, <2>1, DropSurfaceDrops
<1> QED
  BY <1>1, <1>3, <1>4, <1>5, <1>6, <1>7 DEF Kinds, Plain
===============================================================================
