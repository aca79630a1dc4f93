-------------------------- MODULE PassthroughProofs --------------------------
(***************************************************************************)
(* Proofs about Passthrough: what the DLL believes of the host is true     *)
(* once the window is run, for every number of handles, length of a batch  *)
(* and set of programs: the handles, the shadow state and the counts of    *)
(* references, which the handles depend on.                                *)
(*                                                                         *)
(* Inv is WorldOK (no batch will be refused; the heap is balanced with     *)
(* what the program holds; every device that something is held of is       *)
(* viewed and shadowed by the host), and that nothing is under way before  *)
(* a program runs.  Each call is shown to lead from one such world to      *)
(* another through the worlds between its steps, which Done, Adds, Makes   *)
(* and Gives describe: who has the references meanwhile, and what the host *)
(* will know.                                                              *)
(***************************************************************************)
EXTENDS PassthroughHeapProofs

-----------------------------------------------------------------------------
(* What the records do *)

SameHost(g, h) ==
  /\ g.dev = h.dev /\ g.objs = h.objs /\ g.bound = h.bound /\ g.value = h.value /\ g.lost = h.lost
  /\ g.apart = h.apart

LEMMA SoundReady ==
  ASSUME NEW w, Sound(w)
  PROVE  Ready(Tells(w))
BY SoundExec, Zenon DEF Ready

LEMMA Saying ==
  ASSUME NEW w, Sound(w), NEW r, r # Doorbell, NEW y, y = RunRecord(Tells(w), r), Ready(y),
         NEW v, v = Cmd(w, r)
  PROVE  Sound(v) /\ Tells(v) = y /\ v.heap = w.heap /\ Steps(w, v)
BY Says, Zenon DEF Ready

(* A result is waited for: the window is empty then, and the batch was run to its end. *)
Synced(w, v, y) == Sound(v) /\ Tells(v) = y /\ v.heap = w.heap /\ v.status = TRUE

LEMMA Syncing ==
  ASSUME NEW w, Sound(w), NEW r, r # Doorbell, Ready(RunRecord(Tells(w), r))
  PROVE  Synced(w, Sync(w, r), RunRecord(Tells(w), r))
<1> DEFINE y == RunRecord(Tells(w), r)
           v == Sync(w, r)
           a == Cmd(w, r)
           b == Cmd(a, Doorbell)
<1>1. Sound(a) /\ Tells(a) = y /\ a.heap = w.heap /\ Steps(w, a)
  BY Saying
<1>2. a.calls = Append(w.calls, r)
  BY DEF Cmd, Sound, IsWorld, WorldFields
<1> HIDE DEF a, y
<1>3. Sound(b) /\ Tells(b) = y /\ b.heap = w.heap /\ Steps(w, b)
  BY <1>1, Rings, StepsTwice
<1>4. b.calls = Append(a.calls, Doorbell)
  BY <1>1 DEF Cmd, Sound, IsWorld, WorldFields
<1>5. v = Window(b)
  BY DEF Sync, CmdAndFlush, a
<1> HIDE DEF b
<1> HIDE DEF v
<1>6. /\ Sound(v) /\ Tells(v) = y /\ v.heap = w.heap
      /\ v.status = SendAll(Encoder(b), b.calls).status
  BY <1>3, <1>5, WindowTakes
<1>7. Encoder(b) = Encoder(w) /\ Encoder(a) = Encoder(w)
  BY <1>1, <1>3, StepsEncoder DEF Sound
<1>8. v.status = TRUE
  <2> DEFINE x == SendAll(Encoder(w), w.calls)
             z == SendAll(Encoder(w), a.calls)
  <2>1. Listed(w.calls) /\ Listed(a.calls)
    BY <1>1 DEF Sound, Telling
  <2>2. z = Record(x, r)
    BY <1>2, <2>1, SendAllMore
  <2>3. SendAll(Encoder(b), b.calls) = Record(z, Doorbell)
    BY <1>4, <1>7, <2>1, SendAllMore
  <2>4. IsEncoder(x) /\ Seen(x).status = TRUE /\ IsEncoder(z) /\ Seen(z).status = TRUE
    <3>1. Telling(Encoder(w), w.calls) /\ Telling(Encoder(w), a.calls)
      BY <1>1, <1>7 DEF Sound
    <3> QED
      BY <3>1 DEF Telling, Told
  <2> HIDE DEF x, z
  <2>5. z.pending # <<>>
    BY <2>2, <2>4, RecordSeen, Zenon
  <2>6. Flush(z).status = TRUE
    BY <2>4, <2>5, FlushSeen, Zenon
  <2>7. Record(z, Doorbell) = Flush(z)
    BY DEF Record
  <2> QED
    BY <1>6, <2>3, <2>6, <2>7
<1> QED
  BY <1>6, <1>8 DEF Synced, y, v

(* The state of the host, and what a shadow has of it: all but what the DLL lost sight of. *)
Agree(g, b, v) ==
  /\ \A s \in Slots \ {"declaration"} : s \notin g.apart => g.bound[s] = b[s]
  /\ \A p \in States \ {"format"} : p \notin g.apart => g.value[p] = v[p]
  /\ "declaration" \notin g.apart =>
       /\ g.value["format"] = v["format"]
       /\ v["format"] = 0 => g.bound["declaration"] = b["declaration"]

(* What is agreed on is the state alone. *)
LEMMA AgreeSame ==
  ASSUME NEW g, NEW h, NEW b, NEW v, Agree(g, b, v),
         h.bound = g.bound, h.value = g.value, h.apart = g.apart
  PROVE  Agree(h, b, v)
BY DEF Agree

(* Values of which some are set back. *)
LEMMA ClearedIs ==
  ASSUME NEW v \in [States -> Values], NEW P
  PROVE  /\ Cleared(v, P) \in [States -> Values]
         /\ \A p \in States : Cleared(v, P)[p] = IF p \in P THEN 0 ELSE v[p]
BY DEF Cleared, Values

(* The names of slots and states. *)
LEMMA PartNames ==
  /\ "declaration" \in Slots /\ "target" \in Slots /\ "format" \in States /\ "view" \in States
  /\ "constant" \in States /\ "state" \in States /\ None \in Handles /\ 0 \in Values
BY DEF Slots, Content, States, Handles, Values

(* No name is that of a slot and of a state. *)
LEMMA PartsApart ==
  ASSUME NEW s \in Slots, NEW p \in States
  PROVE  s # p
BY DEF Slots, Content, States

HostBinds(g, h, s, b) ==
  /\ h.dev = g.dev /\ h.objs = g.objs /\ h.lost = g.lost
  /\ h.bound = [g.bound EXCEPT ![s] = b] /\ h.value = Cleared(g.value, Beside(s))
  /\ h.apart = IF s # "declaration" \/ b # None THEN g.apart \ {s}
               ELSE IF g.value["format"] # 0 THEN g.apart \cup {s} ELSE g.apart

HostSets(g, h, p, n) ==
  /\ h.dev = g.dev /\ h.objs = g.objs /\ h.lost = g.lost
  /\ p # "format" => /\ h.value = [g.value EXCEPT ![p] = n]
                     /\ h.bound = g.bound /\ h.apart = g.apart \ {p}
  /\ p = "format" /\ n # 0 =>
       /\ h.value = [g.value EXCEPT !["format"] = n] /\ h.apart = g.apart \ {"declaration"}
       /\ h.bound = [g.bound EXCEPT !["declaration"] = None]
  /\ p = "format" /\ n = 0 =>
       /\ h.value = g.value /\ h.bound = g.bound
       /\ h.apart = IF g.value["format"] # 0 THEN g.apart \cup {"declaration"} ELSE g.apart

(* What the host does with SET_OBJECT, part by part. *)
LEMMA HostBindIs ==
  ASSUME NEW g \in HostType, NEW s \in Slots, NEW b \in Handles, NEW h, h = HostBind(g, s, b)
  PROVE  h \in HostType /\ HostBinds(g, h, s, b)
<1> DEFINE c == [g.bound EXCEPT ![s] = b]
           v == Cleared(g.value, Beside(s))
           a == IF s # "declaration" \/ b # None THEN g.apart \ {s}
                ELSE IF g.value["format"] # 0 THEN g.apart \cup {s} ELSE g.apart
           k == [g EXCEPT !.bound = c, !.value = v, !.apart = a]
<1>1. c \in [Slots -> Handles] /\ v \in [States -> Values] /\ a \in SUBSET (Slots \cup States)
  <2>1. g.bound \in [Slots -> Handles] /\ g.value \in [States -> Values]
        /\ g.apart \in SUBSET (Slots \cup States)
    BY DEF HostType
  <2>2. c \in [Slots -> Handles]
    BY <2>1
  <2>3. v \in [States -> Values]
    BY <2>1, ClearedIs
  <2>4. a \in SUBSET (Slots \cup States)
    BY <2>1
  <2> QED
    BY <2>2, <2>3, <2>4
<1>2. h = k
  <2>1. CASE s # "declaration" \/ b # None
    BY <2>1 DEF HostBind, HostType
  <2>2. CASE ~(s # "declaration" \/ b # None) /\ g.value["format"] # 0
    BY <2>2 DEF HostBind, HostType
  <2>3. CASE ~(s # "declaration" \/ b # None) /\ g.value["format"] = 0
    BY <2>3 DEF HostBind, HostType
  <2> QED
    BY <2>1, <2>2, <2>3
<1> HIDE DEF c, v, a
<1>3. /\ k \in HostType /\ k.dev = g.dev /\ k.objs = g.objs /\ k.lost = g.lost
      /\ k.bound = c /\ k.value = v /\ k.apart = a
  BY <1>1 DEF HostType
<1> HIDE DEF k
<1> QED
  BY <1>2, <1>3 DEF c, v, a, HostBinds

(* And with SET_STATE, but for the vertex format, *)
LEMMA HostPartIs ==
  ASSUME NEW g \in HostType, NEW p \in States, p # "format", NEW n \in Values,
         NEW h, h = HostSet(g, p, n)
  PROVE  h \in HostType /\ HostSets(g, h, p, n)
<1> DEFINE v == [g.value EXCEPT ![p] = n]
           a == g.apart \ {p}
           k == [g EXCEPT !.value = v, !.apart = a]
<1>1. g.value \in [States -> Values] /\ g.apart \in SUBSET (Slots \cup States)
  BY DEF HostType
<1>2. v \in [States -> Values] /\ a \in SUBSET (Slots \cup States)
  BY <1>1
<1>3. h = k
  BY DEF HostSet, HostType
<1> HIDE DEF v, a
<1>4. /\ k \in HostType /\ k.dev = g.dev /\ k.objs = g.objs /\ k.lost = g.lost
      /\ k.bound = g.bound /\ k.value = v /\ k.apart = a
  BY <1>2 DEF HostType
<1> HIDE DEF k
<1> QED
  BY <1>3, <1>4 DEF v, a, HostSets

(* and with the vertex format. *)
LEMMA HostFormatIs ==
  ASSUME NEW g \in HostType, NEW n \in Values, NEW h, h = HostSet(g, "format", n)
  PROVE  h \in HostType /\ HostSets(g, h, "format", n)
<1>0. /\ g.value \in [States -> Values] /\ g.apart \in SUBSET (Slots \cup States)
      /\ g.bound \in [Slots -> Handles]
  BY DEF HostType
<1>1. CASE n # 0
  <2> DEFINE v == [g.value EXCEPT !["format"] = n]
             c == [g.bound EXCEPT !["declaration"] = None]
             a == g.apart \ {"declaration"}
             k == [g EXCEPT !.value = v, !.bound = c, !.apart = a]
  <2>1. v \in [States -> Values] /\ a \in SUBSET (Slots \cup States) /\ c \in [Slots -> Handles]
    BY <1>0, PartNames
  <2>2. h = k
    BY <1>1 DEF HostSet, HostFormat, HostType
  <2> HIDE DEF v, c, a
  <2>3. /\ k \in HostType /\ k.dev = g.dev /\ k.objs = g.objs /\ k.lost = g.lost
        /\ k.bound = c /\ k.value = v /\ k.apart = a
    BY <2>1 DEF HostType
  <2> HIDE DEF k
  <2> QED
    BY <1>1, <2>2, <2>3 DEF v, c, a, HostSets
<1>2. CASE n = 0 /\ g.value["format"] # 0
  <2> DEFINE a == g.apart \cup {"declaration"}
             k == [g EXCEPT !.apart = a]
  <2>1. a \in SUBSET (Slots \cup States)
    BY <1>0, PartNames
  <2>2. h = k
    BY <1>2 DEF HostSet, HostFormat
  <2> HIDE DEF a
  <2>3. /\ k \in HostType /\ k.dev = g.dev /\ k.objs = g.objs /\ k.lost = g.lost
        /\ k.bound = g.bound /\ k.value = g.value /\ k.apart = a
    BY <2>1 DEF HostType
  <2> HIDE DEF k
  <2> QED
    BY <1>2, <2>2, <2>3 DEF a, HostSets
<1>3. CASE n = 0 /\ g.value["format"] = 0
  <2>1. h = g
    BY <1>3 DEF HostSet, HostFormat
  <2> QED
    BY <1>3, <2>1 DEF HostSets
<1> QED
  BY <1>1, <1>2, <1>3

(* A slot is set on the host and in the DLL: they agree as before, *)
LEMMA BindAgrees ==
  ASSUME NEW g \in HostType, NEW b \in [Slots -> Handles], NEW v \in [States -> Values],
         Agree(g, b, v), NEW s \in Slots, NEW c \in Handles, c = None => s # "target",
         NEW h, HostBinds(g, h, s, c)
  PROVE  Agree(h, [b EXCEPT ![s] = c], Brought(v, s, c))
<1> DEFINE B == [b EXCEPT ![s] = c]
           V == Brought(v, s, c)
<1>1. /\ h.bound = [g.bound EXCEPT ![s] = c] /\ h.value = Cleared(g.value, Beside(s))
      /\ h.apart = IF s # "declaration" \/ c # None THEN g.apart \ {s}
                   ELSE IF g.value["format"] # 0 THEN g.apart \cup {s} ELSE g.apart
  BY DEF HostBinds
<1>2. g.bound \in [Slots -> Handles] /\ g.value \in [States -> Values]
  BY DEF HostType
<1>3. \A p \in States :
        /\ h.value[p] = IF p \in Beside(s) THEN 0 ELSE g.value[p]
        /\ V[p] = IF c # None /\ p \in Beside(s) THEN 0 ELSE v[p]
  BY <1>1, <1>2, ClearedIs DEF Brought
<1>4. \A k \in Slots :
        /\ h.bound[k] = IF k = s THEN c ELSE g.bound[k]
        /\ B[k] = IF k = s THEN c ELSE b[k]
  BY <1>1, <1>2
<1>5. /\ s = "declaration" => Beside(s) = {"format"}
      /\ s = "target" => Beside(s) = {"view"}
      /\ s \notin {"declaration", "target"} => Beside(s) = {}
  BY DEF Beside
<1> HIDE DEF B, V
<1>6. \A k \in Slots \ {"declaration"} : k \notin h.apart => h.bound[k] = B[k]
  BY <1>1, <1>4 DEF Agree
<1>7. ASSUME NEW p \in States \ {"format"}, p \notin h.apart PROVE h.value[p] = V[p]
  <2>1. p # s
    BY PartsApart
  <2>2. p \notin g.apart /\ g.value[p] = v[p]
    BY <1>1, <1>7, <2>1 DEF Agree
  <2>3. c = None => p \notin Beside(s)
    BY <1>5
  <2> QED
    BY <1>3, <2>2, <2>3
<1>8. ASSUME "declaration" \notin h.apart
      PROVE  /\ h.value["format"] = V["format"]
             /\ V["format"] = 0 => h.bound["declaration"] = B["declaration"]
  <2>1. CASE s = "declaration" /\ c # None
    BY <1>3, <1>4, <1>5, <2>1, PartNames
  <2>2. CASE s = "declaration" /\ c = None
    <3>1. g.value["format"] = 0 /\ "declaration" \notin g.apart
      BY <1>1, <1>8, <2>2
    <3>2. v["format"] = 0
      BY <3>1 DEF Agree
    <3> QED
      BY <1>3, <1>4, <2>2, <3>1, <3>2, PartNames
  <2>3. CASE s # "declaration"
    <3>1. "declaration" \notin g.apart /\ "format" \notin Beside(s)
      BY <1>1, <1>5, <1>8, <2>3
    <3> QED
      BY <1>3, <1>4, <2>3, <3>1, PartNames DEF Agree
  <2> QED
    BY <2>1, <2>2, <2>3
<1> QED
  BY <1>6, <1>7, <1>8 DEF Agree, B, V

(* and when a state is. *)
LEMMA SetAgrees ==
  ASSUME NEW g \in HostType, NEW b \in [Slots -> Handles], NEW v \in [States -> Values],
         Agree(g, b, v), NEW p \in States, NEW n \in Values, NEW h, HostSets(g, h, p, n)
  PROVE  Agree(h, b, [v EXCEPT ![p] = n])
<1> DEFINE V == [v EXCEPT ![p] = n]
<1>1. \A q \in States : V[q] = IF q = p THEN n ELSE v[q]
  OBVIOUS
<1>2. g.bound \in [Slots -> Handles] /\ g.value \in [States -> Values]
  BY DEF HostType
<1> HIDE DEF V
<1>3. CASE p # "format"
  <2>1. /\ h.bound = g.bound /\ h.value = [g.value EXCEPT ![p] = n] /\ h.apart = g.apart \ {p}
    BY <1>3 DEF HostSets
  <2>2. \A q \in States : h.value[q] = IF q = p THEN n ELSE g.value[q]
    BY <1>2, <2>1
  <2>3. \A s \in Slots : s \notin h.apart <=> s \notin g.apart
    BY <2>1, PartsApart
  <2>4. \A s \in Slots \ {"declaration"} : s \notin h.apart => h.bound[s] = b[s]
    BY <2>1, <2>3 DEF Agree
  <2>5. \A q \in States \ {"format"} : q \notin h.apart => h.value[q] = V[q]
    BY <1>1, <2>1, <2>2 DEF Agree
  <2>6. ASSUME "declaration" \notin h.apart
        PROVE  /\ h.value["format"] = V["format"]
               /\ V["format"] = 0 => h.bound["declaration"] = b["declaration"]
    BY <1>1, <1>3, <2>1, <2>2, <2>3, <2>6, PartNames DEF Agree
  <2> QED
    BY <2>4, <2>5, <2>6 DEF Agree, V
<1>4. CASE p = "format" /\ n # 0
  <2>1. /\ h.value = [g.value EXCEPT !["format"] = n] /\ h.apart = g.apart \ {"declaration"}
        /\ h.bound = [g.bound EXCEPT !["declaration"] = None]
    BY <1>4 DEF HostSets
  <2>2. \A q \in States : h.value[q] = IF q = p THEN n ELSE g.value[q]
    BY <1>2, <1>4, <2>1
  <2>3. \A s \in Slots \ {"declaration"} : s \notin h.apart => h.bound[s] = b[s]
    BY <1>2, <2>1 DEF Agree
  <2>4. \A q \in States \ {"format"} : q \notin h.apart => h.value[q] = V[q]
    <3> SUFFICES ASSUME NEW q \in States \ {"format"}, q \notin h.apart PROVE h.value[q] = V[q]
      OBVIOUS
    <3>1. q # "declaration"
      BY PartNames, PartsApart
    <3> QED
      BY <1>1, <1>4, <2>1, <2>2, <3>1 DEF Agree
  <2>5. h.value["format"] = V["format"] /\ V["format"] # 0
    BY <1>1, <1>4, <2>2, PartNames
  <2> QED
    BY <2>3, <2>4, <2>5 DEF Agree, V
<1>5. CASE p = "format" /\ n = 0
  <2>1. /\ h.value = g.value /\ h.bound = g.bound
        /\ h.apart = IF g.value["format"] # 0 THEN g.apart \cup {"declaration"} ELSE g.apart
    BY <1>5 DEF HostSets
  <2>2. \A s \in Slots \ {"declaration"} : s \notin h.apart => h.bound[s] = b[s]
    BY <2>1 DEF Agree
  <2>3. \A q \in States \ {"format"} : q \notin h.apart => h.value[q] = V[q]
    BY <1>1, <1>5, <2>1 DEF Agree
  <2>4. ASSUME "declaration" \notin h.apart
        PROVE  /\ h.value["format"] = V["format"]
               /\ V["format"] = 0 => h.bound["declaration"] = b["declaration"]
    BY <1>1, <1>5, <2>1, <2>4, PartNames DEF Agree
  <2> QED
    BY <2>2, <2>3, <2>4 DEF Agree, V
<1> QED
  BY <1>3, <1>4, <1>5

(* SET_OBJECT, SET_STATE *)
LEMMA BindRun ==
  ASSUME NEW x, Ready(x), NEW r, r.op = "SET_OBJECT", r.slot \in Slots, r.h \in Handles,
         r.h # None => r.h \in x.host.objs, x.host.dev # None, NEW y, y = RunRecord(x, r)
  PROVE  Ready(y) /\ HostBinds(x.host, y.host, r.slot, r.h)
<1> DEFINE g == x.host
           h == HostBind(g, r.slot, r.h)
<1>1. y = RunBind(x, r) /\ IsExec(y)
  BY RunKeepsExec, Zenon DEF RunRecord, Ready
<1>4. g \in HostType
  BY DEF Ready
<1>5. h \in HostType /\ HostBinds(g, h, r.slot, r.h)
  BY <1>4, HostBindIs
<1> HIDE DEF h
<1>2. RunBind(x, r) = [x EXCEPT !.host = h]
  BY DEF RunBind, Known, h
<1>3. y.host = h /\ y.status = TRUE /\ y.refused = FALSE
  BY <1>1, <1>2 DEF Ready, IsExec
<1> HIDE DEF g
<1> QED
  BY <1>1, <1>3, <1>5 DEF Ready, g

LEMMA ValueRun ==
  ASSUME NEW x, Ready(x), NEW r, r.op = "SET_STATE", r.part \in States, r.v \in Values,
         x.host.dev # None, NEW y, y = RunRecord(x, r)
  PROVE  Ready(y) /\ HostSets(x.host, y.host, r.part, r.v)
<1> DEFINE g == x.host
           h == HostSet(g, r.part, r.v)
<1>1. y = RunValue(x, r) /\ IsExec(y)
  BY RunKeepsExec, Zenon DEF RunRecord, Ready
<1>4. g \in HostType
  BY DEF Ready
<1>5. h \in HostType /\ HostSets(g, h, r.part, r.v)
  <2>1. CASE r.part = "format"
    <3>1. h = HostSet(g, "format", r.v)
      BY <2>1
    <3> HIDE DEF h, g
    <3>2. h \in HostType /\ HostSets(g, h, "format", r.v)
      BY <1>4, <3>1, HostFormatIs, Zenon
    <3> QED
      BY <2>1, <3>2
  <2>2. CASE r.part # "format"
    BY <1>4, <2>2, HostPartIs
  <2> QED
    BY <2>1, <2>2
<1> HIDE DEF h
<1>2. RunValue(x, r) = [x EXCEPT !.host = h]
  BY DEF RunValue, h
<1>3. y.host = h /\ y.status = TRUE /\ y.refused = FALSE
  BY <1>1, <1>2 DEF Ready, IsExec
<1> HIDE DEF g
<1> QED
  BY <1>1, <1>3, <1>5 DEF Ready, g

(* What changes nothing on the host. *)
LEMMA AboutRun ==
  ASSUME NEW x, Ready(x), NEW r, r.op \in {"DRAW", "UPDATE", "QUERY", "SURFACE"},
         r.op # "DRAW" => r.h \in x.host.objs, x.host.dev # None
  PROVE  RunRecord(x, r) = x
BY DEF RunRecord, Ready, RunDraw, RunUpdate, RunQuery, RunSurface, Known

(* CREATE, GET_SURFACE *)
HostAdds(g, h, o) ==
  /\ h.objs = g.objs \cup {o} /\ h.dev = g.dev /\ h.bound = g.bound /\ h.value = g.value
  /\ h.lost = g.lost /\ h.apart = g.apart

LEMMA CreateRun ==
  ASSUME NEW x, Ready(x), NEW r, r.op \in {"CREATE", "GET_SURFACE"}, x.host.dev # None,
         r.op = "GET_SURFACE" => r.of = None \/ r.of \in x.host.objs,
         r.h \in Objects, r.h \notin x.host.objs, r.ok \in BOOLEAN, NEW y, y = RunRecord(x, r)
  PROVE  /\ Ready(y)
         /\ r.ok => HostAdds(x.host, y.host, r.h)
         /\ ~r.ok => y = x
<1>1. y = (IF r.ok THEN Put(x, r.h) ELSE x) /\ IsExec(y)
  <2>1. CASE r.op = "CREATE"
    BY <2>1, RunKeepsExec, Zenon DEF RunRecord, Ready, RunCreate
  <2>2. CASE r.op = "GET_SURFACE"
    BY <2>2, RunKeepsExec, Zenon DEF RunRecord, Ready, RunGetSurface, Known
  <2> QED
    BY <2>1, <2>2
<1>2. CASE ~r.ok
  BY <1>1, <1>2
<1>3. CASE r.ok
  <2> DEFINE g == x.host
             h == [g EXCEPT !.objs = @ \cup {r.h}]
  <2>1. y = [x EXCEPT !.host.objs = @ \cup {r.h}]
    BY <1>1, <1>3 DEF Put
  <2>2. y.host = h /\ y.status = TRUE /\ y.refused = FALSE
    BY <2>1 DEF Ready, IsExec
  <2>3. g \in HostType
    BY DEF Ready
  <2> HIDE DEF g
  <2>4. h \in HostType /\ HostAdds(g, h, r.h)
    BY <2>3 DEF HostType, HostAdds
  <2> HIDE DEF h
  <2> QED
    BY <1>1, <1>3, <2>2, <2>4 DEF Ready, g
<1> QED
  BY <1>2, <1>3

(* RESET_DEVICE: refused, done, or failed *)
LEMMA ResetRun ==
  ASSUME NEW x, Ready(x), NEW r, r.op = "RESET_DEVICE", x.host.dev # None, r.h = x.host.dev,
         r.how \in Outcomes, NEW y, y = RunRecord(x, r)
  PROVE  /\ Ready(y) /\ y.host.dev = x.host.dev /\ y.host.objs = x.host.objs
         /\ r.how = "ok" => /\ y.host.bound = Unbound /\ y.host.value = Unset /\ ~y.host.lost
                            /\ y.host.apart = Kept(x.host)
         /\ r.how = "refused" => /\ y.host.bound = x.host.bound /\ y.host.value = x.host.value
                                 /\ y.host.lost = x.host.lost /\ y.host.apart = Left(x.host)
         /\ r.how = "failed" => y.host.lost
<1> DEFINE g == x.host
           k == Kept(g)
           l == Left(g)
           h == CASE r.how = "ok"      -> [g EXCEPT !.bound = Unbound, !.value = Unset,
                                                    !.lost = FALSE, !.apart = k]
                  [] r.how = "refused" -> [g EXCEPT !.apart = l]
                  [] r.how = "failed"  -> [g EXCEPT !.lost = TRUE]
<1>1. y = RunReset(x, r) /\ IsExec(y)
  BY RunKeepsExec, Zenon DEF RunRecord, Ready
<1>2. RunReset(x, r) = [x EXCEPT !.host = h]
  BY DEF RunReset, Outcomes
<1>3. y.host = h /\ y.status = TRUE /\ y.refused = FALSE
  BY <1>1, <1>2, Zenon DEF Ready, IsExec
<1>4. g \in HostType
  BY DEF Ready
<1>5. /\ Unbound \in [Slots -> Handles] /\ Unset \in [States -> Values]
      /\ k \in SUBSET (Slots \cup States) /\ l \in SUBSET (Slots \cup States)
  <2>1. g.apart \in SUBSET (Slots \cup States)
    BY <1>4 DEF HostType
  <2> QED
    BY <2>1, PartNames DEF Unbound, Unset, Handles, Values, Kept, Left
<1> HIDE DEF g, k, l
<1>6. /\ h \in HostType /\ h.dev = g.dev /\ h.objs = g.objs
      /\ r.how = "ok" => h.bound = Unbound /\ h.value = Unset /\ ~h.lost /\ h.apart = k
      /\ r.how = "refused" => /\ h.bound = g.bound /\ h.value = g.value /\ h.lost = g.lost
                              /\ h.apart = l
      /\ r.how = "failed" => h.lost
  <2>1. CASE r.how = "ok"
    BY <1>4, <1>5, <2>1 DEF HostType
  <2>2. CASE r.how = "refused"
    BY <1>4, <1>5, <2>2 DEF HostType
  <2>3. CASE r.how = "failed"
    BY <1>4, <1>5, <2>3 DEF HostType
  <2> QED
    BY <2>1, <2>2, <2>3 DEF Outcomes
<1> HIDE DEF h
<1> QED
  BY <1>1, <1>3, <1>6 DEF Ready, g, k, l

LEMMA CreateDeviceRun ==
  ASSUME NEW x, Ready(x), NEW r, r.op = "CREATE_DEVICE", r.h \in Objects,
         r.how \in Outcomes, NEW y, y = RunRecord(x, r)
  PROVE  /\ Ready(y)
         /\ r.how = "ok" => /\ y.host.dev = r.h /\ y.host.objs = {r.h} /\ y.host.bound = Unbound
                            /\ y.host.value = Unset /\ ~y.host.lost /\ y.host.apart = {}
<1> DEFINE g == x.host
           n == [HostGone EXCEPT !.dev = r.h, !.objs = {r.h}]
           h == IF r.how = "refused" THEN g
                ELSE IF r.how = "ok" THEN n ELSE IF g.dev # None THEN HostGone ELSE g
<1>1. y = RunCreateDevice(x, r) /\ IsExec(y)
  BY RunKeepsExec DEF RunRecord, Ready
<1>2. RunCreateDevice(x, r) = [x EXCEPT !.host = h]
  BY DEF RunCreateDevice, Ready, IsExec
<1>3. y.host = h /\ y.status = TRUE /\ y.refused = FALSE
  BY <1>1, <1>2 DEF Ready, IsExec
<1>4. g \in HostType
  BY DEF Ready
<1> HIDE DEF g
<1>5. /\ n \in HostType /\ n.dev = r.h /\ n.objs = {r.h} /\ n.bound = Unbound /\ n.value = Unset
      /\ ~n.lost /\ n.apart = {}
  BY Zenon DEF HostGone, HostType, Unbound, Unset, Handles, Values
<1> HIDE DEF n
<1>6. h \in HostType /\ (r.how = "ok" => h = n)
  BY <1>4, <1>5, HostGoneType
<1> HIDE DEF h
<1> QED
  BY <1>1, <1>3, <1>5, <1>6 DEF Ready

LEMMA SaysBind ==
  ASSUME NEW w, NEW d, View(w, d), NEW s \in Slots, NEW h \in Handles, h # None => h \in Named(w.heap, d),
         NEW v, v = Cmd(w, [op |-> "SET_OBJECT", slot |-> s, h |-> h])
  PROVE  /\ View(v, d) /\ Steps(w, v) /\ v.heap = w.heap
         /\ HostBinds(Tells(w).host, Tells(v).host, s, h)
<1> DEFINE r == [op |-> "SET_OBJECT", slot |-> s, h |-> h]
           x == Tells(w)
           y == RunRecord(x, r)
<1>1. r # Doorbell /\ r.op = "SET_OBJECT" /\ r.slot = s /\ r.h = h
  BY DoorbellIs
<1>2. Sound(w) /\ Ready(x) /\ x.host.dev = d /\ x.host.objs = Named(w.heap, d) /\ d # None
  BY SoundReady DEF View, Objects, None
<1> HIDE DEF r, x
<1>3. Ready(y) /\ HostBinds(x.host, y.host, s, h)
  BY <1>1, <1>2, BindRun
<1>4. v = Cmd(w, r)
  BY DEF r
<1> HIDE DEF y
<1>5. Sound(v) /\ Tells(v) = y /\ v.heap = w.heap /\ Steps(w, v)
  BY <1>1, <1>2, <1>3, <1>4, Saying DEF x, y
<1> QED
  BY <1>2, <1>3, <1>5 DEF x, View, HostBinds

LEMMA SaysValue ==
  ASSUME NEW w, NEW d, View(w, d), NEW p \in States, NEW n \in Values,
         NEW v, v = Cmd(w, [op |-> "SET_STATE", part |-> p, v |-> n])
  PROVE  /\ View(v, d) /\ Steps(w, v) /\ v.heap = w.heap
         /\ HostSets(Tells(w).host, Tells(v).host, p, n)
<1> DEFINE r == [op |-> "SET_STATE", part |-> p, v |-> n]
           x == Tells(w)
           y == RunRecord(x, r)
<1>1. r # Doorbell /\ r.op = "SET_STATE" /\ r.part = p /\ r.v = n
  BY DoorbellIs
<1>2. Sound(w) /\ Ready(x) /\ x.host.dev = d /\ x.host.objs = Named(w.heap, d) /\ d # None
  BY SoundReady DEF View, Objects, None
<1> HIDE DEF r, x
<1>3. Ready(y) /\ HostSets(x.host, y.host, p, n)
  BY <1>1, <1>2, ValueRun
<1>4. v = Cmd(w, r)
  BY DEF r
<1> HIDE DEF y
<1>5. Sound(v) /\ Tells(v) = y /\ v.heap = w.heap /\ Steps(w, v)
  BY <1>1, <1>2, <1>3, <1>4, Saying DEF x, y
<1> QED
  BY <1>2, <1>3, <1>5 DEF x, View, HostSets

Tellings == {"DRAW", "UPDATE", "QUERY", "SURFACE"}

LEMMA SaysAbout ==
  ASSUME NEW w, NEW d, View(w, d), NEW op \in Tellings, NEW h, op # "DRAW" => h \in Named(w.heap, d),
         NEW v, v = Cmd(w, [op |-> op, h |-> h])
  PROVE  View(v, d) /\ Tells(v) = Tells(w) /\ v.heap = w.heap /\ Steps(w, v)
<1> DEFINE r == [op |-> op, h |-> h]
           x == Tells(w)
<1>1. r # Doorbell /\ r.op = op /\ r.h = h
  <2>1. r.op # "DOORBELL"
    BY DEF Tellings
  <2> QED
    BY <2>1, DoorbellIs
<1>2. Sound(w) /\ Ready(x) /\ x.host.dev = d /\ x.host.objs = Named(w.heap, d) /\ d # None
  BY SoundReady DEF View, Objects, None
<1> HIDE DEF r, x
<1>3. RunRecord(x, r) = x
  BY <1>1, <1>2, AboutRun DEF Tellings
<1>4. v = Cmd(w, r)
  BY DEF r
<1>5. Sound(v) /\ Tells(v) = x /\ v.heap = w.heap /\ Steps(w, v)
  BY <1>1, <1>2, <1>3, <1>4, Saying DEF x
<1> QED
  BY <1>2, <1>5 DEF x, View

LEMMA SyncsAbout ==
  ASSUME NEW w, NEW d, View(w, d), NEW op \in Tellings, NEW h, op # "DRAW" => h \in Named(w.heap, d),
         NEW v, v = Sync(w, [op |-> op, h |-> h])
  PROVE  View(v, d) /\ Tells(v) = Tells(w) /\ v.heap = w.heap
<1> DEFINE r == [op |-> op, h |-> h]
           x == Tells(w)
<1>1. r # Doorbell /\ r.op = op /\ r.h = h
  <2>1. r.op # "DOORBELL"
    BY DEF Tellings
  <2> QED
    BY <2>1, DoorbellIs
<1>2. Sound(w) /\ Ready(x) /\ x.host.dev = d /\ x.host.objs = Named(w.heap, d) /\ d # None
  BY SoundReady DEF View, Objects, None
<1> HIDE DEF r, x
<1> DEFINE y == RunRecord(x, r)
<1>3. y = x
  BY <1>1, <1>2, AboutRun DEF Tellings
<1>4. v = Sync(w, r)
  BY DEF r
<1>5. Sound(v) /\ Tells(v) = x /\ v.heap = w.heap
  <2>1. y = RunRecord(Tells(w), r) /\ Ready(y)
    BY <1>2, <1>3 DEF x
  <2>2. Synced(w, v, y)
    BY <1>1, <1>2, <1>4, <2>1, Syncing
  <2> QED
    BY <1>3, <2>2 DEF Synced
<1> QED
  BY <1>2, <1>5 DEF x, View

-----------------------------------------------------------------------------
(* References are added *)

Adds(w, v, d, f, X) ==
  Path(w, v, d) /\ HeapOK(v.heap, f, X) /\ \A o \in Objects : Alike(w.heap[o], v.heap[o])

LEMMA CountedAdds ==
  ASSUME NEW w, NEW d, NEW X, NEW f, NEW h \in Objects, NEW n, NEW v, View(w, d), Path(w, v, d),
         Counts(w.heap, v.heap, h, n), HeapOK(v.heap, f, X)
  PROVE  Adds(w, v, d, f, X)
BY DEF Adds, Counts, Alike, Built

LEMMA RaiseAdds ==
  ASSUME NEW w, NEW d, NEW e, NEW X, Hands(w, d, e, X), NEW h \in Objects, w.heap[h].kind # "none",
         w.heap[h].kind = "level" => w.heap[h].ref > 0, NEW v, v = Raise(w, h)
  PROVE  Adds(w, v, d, Plus(e, h), X)
<1> DEFINE n == w.heap[h].ref + 1
           f == Plus(e, h)
<1>1. /\ HeapOK(w.heap, e, X) /\ View(w, d) /\ w.heap \in Heaps /\ e \in [Objects -> Nat]
  BY HandsAre
<1>2. w.heap[h].ref \in Nat
  BY <1>1, FieldTypes
<1>3. Path(w, v, d) /\ Counts(w.heap, v.heap, h, n)
  BY <1>1, RaisedPath
<1>4. /\ f \in [Objects -> Nat] /\ \A k \in Objects : f[k] = (IF k = h THEN e[k] + 1 ELSE e[k])
  BY <1>1, PlusIs
<1> HIDE DEF f
<1>5. n \in Nat /\ n + e[h] = f[h] + w.heap[h].ref /\ n > 0
  BY <1>1, <1>2, <1>4
<1>6. \A k \in Objects \ {h} : f[k] = e[k]
  BY <1>4
<1> DEFINE H == w.heap
           K == v.heap
<1>7. /\ HeapOK(H, e, X) /\ H[h].kind # "none" /\ (H[h].kind = "level" => (H[h].ref > 0 <=> n > 0))
      /\ n + e[h] = f[h] + H[h].ref /\ Counts(H, K, h, n)
  BY <1>1, <1>3, <1>5
<1>8. n \in Nat
  BY <1>5
<1> HIDE DEF n, H, K
<1>9. HeapOK(K, f, X)
  BY <1>4, <1>6, <1>7, <1>8, Recounted
<1>10. Adds(w, v, d, f, X)
  BY <1>1, <1>3, <1>9, CountedAdds, Zenon DEF K
<1> QED
  BY <1>10 DEF f

LEMMA LevelAdds ==
  ASSUME NEW w, NEW d, NEW e, NEW X, Hands(w, d, e, X), NEW h \in Objects, w.heap[h].kind = "level",
         w.heap[h].ref = 0, w.heap[h].named, NEW v, v = Raise(Raise(w, h), w.heap[h].peer)
  PROVE  Adds(w, v, d, Plus(e, h), X)
<1> DEFINE t == w.heap[h].peer
           f == Plus(e, h)
           y == Raise(w, h)
           n == w.heap[t].ref + 1
           G == [w.heap EXCEPT ![t].ref = n]
           i == Plus(e, t)
<1>1. /\ HeapOK(w.heap, e, X) /\ View(w, d) /\ w.heap \in Heaps /\ e \in [Objects -> Nat]
  BY HandsAre
<1>2. t \in Objects /\ w.heap[t].kind = "texture" /\ t # h /\ n \in Nat
  <2>1. t \in Objects /\ w.heap[t].kind = "texture"
    BY <1>1 DEF HeapOK, Peers
  <2> QED
    BY <1>1, <2>1, FieldTypes
<1>3. Path(w, y, d) /\ Counts(w.heap, y.heap, h, 1)
  BY <1>1, RaisedPath
<1> HIDE DEF y, t
<1>4. Path(y, v, d) /\ Counts(y.heap, v.heap, t, y.heap[t].ref + 1)
  <2>1. View(y, d) /\ y.heap \in Heaps
    BY <1>3 DEF Path
  <2>2. v = Raise(y, t)
    BY DEF y, t
  <2> QED
    BY <1>2, <2>1, <2>2, RaisedPath
<1>5. Path(w, v, d)
  BY <1>3, <1>4, PathTwice
<1>6. y.heap[t] = w.heap[t]
  BY <1>2, <1>3 DEF Counts
<1>7. Counts(w.heap, G, t, n)
  <2> HIDE DEF n
  <2> QED
    BY <1>1, <1>2, Counting1
<1>8. HeapOK(G, i, X) /\ i \in [Objects -> Nat]
  <2>1. i \in [Objects -> Nat] /\ \A k \in Objects : i[k] = (IF k = t THEN e[k] + 1 ELSE e[k])
    BY <1>1, PlusIs
  <2> DEFINE H == w.heap
  <2>2. HeapOK(H, e, X) /\ H[t].kind # "none" /\ (H[t].kind = "level" => (H[t].ref > 0 <=> n > 0))
    BY <1>1, <1>2
  <2>3. n + e[t] = i[t] + H[t].ref
    <3>1. H[t].ref \in Nat /\ e[t] \in Nat
      BY <1>1, <1>2, FieldTypes
    <3> QED
      BY <1>2, <2>1, <3>1
  <2>4. Counts(H, G, t, n)
    BY <1>7
  <2>5. \A k \in Objects \ {t} : i[k] = e[k]
    BY <2>1
  <2> HIDE DEF n, H, G, i
  <2>6. HeapOK(G, i, X)
    BY <1>2, <2>1, <2>2, <2>3, <2>4, <2>5, Recounted
  <2> QED
    BY <2>1, <2>6
<1>9. /\ G[h] = w.heap[h] /\ G[t].ref = n /\ Alike(w.heap[t], G[t]) /\ G \in Heaps
      /\ \A k \in Objects \ {t} : G[k] = w.heap[k]
  BY <1>2, <1>7, SMTT(30) DEF Counts
<1> HIDE DEF G
<1>10. Counts(G, v.heap, h, 1)
  <2>1. /\ v.heap \in Heaps /\ v.heap[t].ref = n /\ Alike(w.heap[t], v.heap[t])
        /\ \A k \in Objects \ {t} : v.heap[k] = y.heap[k]
    BY <1>4, <1>6 DEF Counts
  <2>2. y.heap[h].ref = 1 /\ Alike(w.heap[h], y.heap[h]) /\ \A k \in Objects \ {h} : y.heap[k] = w.heap[k]
    BY <1>3, SMTT(30) DEF Counts
  <2>3. v.heap[t] = G[t]
    <3>1. v.heap[t] \in ObjectType /\ G[t] \in ObjectType
      BY <1>2, <1>9, <2>1, FieldTypes, SMTT(30)
    <3>2. v.heap[t].ref = G[t].ref /\ Alike(G[t], v.heap[t])
      BY <1>9, <2>1, Zenon DEF Alike, Built
    <3> HIDE DEF G
    <3> QED
      BY <3>1, <3>2 DEF ObjectType, Alike, Built
  <2>4. \A k \in Objects \ {h} : v.heap[k] = G[k]
    BY <1>9, <2>1, <2>2, <2>3
  <2>5. v.heap[h].ref = 1 /\ Alike(G[h], v.heap[h])
    BY <1>2, <1>9, <2>1, <2>2
  <2> QED
    BY <2>1, <2>4, <2>5 DEF Counts
<1>11. f \in [Objects -> Nat] /\ Moves(i, f, t, h)
  <2>1. Moves(e, i, None, t) /\ Moves(e, f, None, h)
    BY <1>1, MovesPlus
  <2> HIDE DEF i, f
  <2>2. f \in [Objects -> Nat] /\ i \in [Objects -> Nat]
    BY <2>1 DEF Moves
  <2>3. \A k \in Objects : f[k] + Is(k, t) = i[k] + Is(k, h)
    <3> TAKE k \in Objects
    <3>1. i[k] + 0 = e[k] + Is(k, t) /\ f[k] + 0 = e[k] + Is(k, h)
      BY <2>1 DEF Moves, Is, Objects, None
    <3>2. Is(k, h) \in Nat /\ Is(k, t) \in Nat /\ e[k] \in Nat /\ i[k] \in Nat /\ f[k] \in Nat
      BY <1>1, <2>2 DEF Is
    <3> QED
      BY <3>1, <3>2
  <2> QED
    BY <2>2, <2>3 DEF Moves
<1> HIDE DEF i, f
<1>12. HeapOK(v.heap, f, X)
  <2> DEFINE m == 1
             K == v.heap
  <2>1. Counts(G, K, h, m) /\ m = 1
    BY <1>10
  <2> HIDE DEF m, K
  <2>2. G[h].kind = "level" /\ G[h].named /\ G[h].ref = 0 /\ m = 1 /\ Moves(i, f, G[h].peer, h)
    BY <1>9, <1>11, <2>1 DEF t
  <2>3. HeapOK(K, f, X)
    BY <1>8, <2>1, <2>2, LevelTurned
  <2> QED
    BY <2>3 DEF K
<1>13. \A o \in Objects : Alike(w.heap[o], v.heap[o])
  <2>1. /\ Alike(G[h], v.heap[h]) /\ \A k \in Objects \ {h} : v.heap[k] = G[k]
    BY <1>10 DEF Counts
  <2>2. Alike(w.heap[h], v.heap[h]) /\ Alike(w.heap[t], v.heap[t])
    BY <1>2, <1>9, <2>1
  <2>3. \A o \in Objects \ {h, t} : v.heap[o] = w.heap[o]
    BY <1>9, <2>1
  <2>4. \A o \in Objects \ {h, t} : Alike(w.heap[o], v.heap[o])
    BY <2>3 DEF Alike, Built
  <2> QED
    BY <2>2, <2>4
<1>14. Adds(w, v, d, f, X)
  BY <1>5, <1>12, <1>13 DEF Adds
<1> QED
  BY <1>14 DEF f

(* What may be added: what there is, and no level surface that the host never gave. *)
Addable(H, h) == H[h].kind # "none" /\ (H[h].kind = "level" => H[h].named)

LEMMA AddAdds ==
  ASSUME NEW w, NEW d, NEW e, NEW X, Hands(w, d, e, X), NEW h \in Handles, h # None => Addable(w.heap, h),
         NEW v, v = Add(w, h)
  PROVE  Adds(w, v, d, Plus(e, h), X)
<1>1. /\ HeapOK(w.heap, e, X) /\ View(w, d) /\ w.heap \in Heaps /\ e \in [Objects -> Nat] /\ IsWorld(w)
  BY HandsAre
<1>2. CASE h = None
  <2>1. v = w /\ Plus(e, h) = e
    BY <1>1, <1>2, PlusIs DEF Add
  <2> QED
    BY <1>1, <2>1, StepsNone DEF Adds, Path, Keeps, Alike, Built
<1>3. CASE h # None
  <2>1. h \in Objects /\ w.heap[h].kind # "none" /\ w.heap[h].ref \in Nat
    BY <1>1, <1>3, ObjectOrNone, FieldTypes DEF Addable
  <2>2. CASE w.heap[h].kind = "level" /\ w.heap[h].ref = 0
    <3>1. w.heap[h].named /\ v = Raise(Raise(w, h), w.heap[h].peer)
      BY <1>3, <2>2 DEF Add, Addable
    <3> QED
      BY <2>1, <2>2, <3>1, LevelAdds
  <2>3. CASE ~(w.heap[h].kind = "level" /\ w.heap[h].ref = 0)
    <3>1. v = Raise(w, h) /\ (w.heap[h].kind = "level" => w.heap[h].ref > 0)
      BY <1>3, <2>1, <2>3 DEF Add
    <3> QED
      BY <2>1, <3>1, RaiseAdds
  <2> QED
    BY <2>2, <2>3
<1> QED
  BY <1>2, <1>3

(* A slot of a device or of a block: the new is added, then the old is dropped. *)
Rebinds(H, G, o, s, h) ==
  /\ \A k \in Objects \ {o} : G[k] = Gone \/ Alike(H[k], G[k])
  /\ G[o].kind = H[o].kind /\ G[o].named = H[o].named /\ G[o].dev = H[o].dev /\ G[o].peer = H[o].peer
  /\ G[o].recording = H[o].recording /\ G[o].value = H[o].value /\ G[o].marks = H[o].marks
  /\ G[o].bound = [H[o].bound EXCEPT ![s] = h]

HasSlots(H, e, d, o) ==
  o \in Objects /\ (e[o] > 0 \/ Pinned(H, e, o)) /\ (o = d \/ (H[o].kind = "block" /\ H[o].dev = d))

MayBind(H, d, o, s, h) ==
  /\ s \in Slots /\ (H[o].kind = "block" => s # "target") /\ h \in Handles
  /\ h # None => Addable(H, h) /\ Fits(s, H[h].kind) /\ H[h].dev = d

LEMMA AliveAlike ==
  ASSUME NEW H, NEW G, NEW f, NEW X, Frame(H, G), HeapOK(G, f, X), NEW k \in Objects, f[k] > 0
  PROVE  Alike(H[k], G[k])
<1>1. G[k].kind # "none"
  BY Counting
<1> QED
  BY <1>1, GoneIs DEF Frame

LEMMA HeldAlike ==
  ASSUME NEW H, NEW G, NEW f, NEW X, Frame(H, G), HeapOK(G, f, X), NEW k \in Objects,
         f[k] > 0 \/ Pinned(H, f, k)
  PROVE  Alike(H[k], G[k])
<1>1. CASE f[k] > 0
  BY <1>1, AliveAlike
<1>2. CASE Pinned(H, f, k)
  <2>1. PICK p \in Objects :
          f[p] > 0 /\ H[p].kind \notin {"none", "device", "backbuffer"} /\ H[p].dev = k
    BY <1>2 DEF Pinned
  <2>2. Alike(H[p], G[p])
    BY <2>1, AliveAlike
  <2>3. G[p].kind \notin {"none", "device", "backbuffer"} /\ G[p].dev = k
    BY <2>1, <2>2 DEF Alike, Built
  <2>4. G[k].kind = "device"
    BY <2>3 DEF HeapOK, HasDevice
  <2> QED
    BY <2>4, GoneIs DEF Frame
<1> QED
  BY <1>1, <1>2

LEMMA BindBinds ==
  ASSUME NEW w, NEW d, NEW e, Hands(w, d, e, {}), NEW o, HasSlots(w.heap, e, d, o),
         NEW s, NEW h, MayBind(w.heap, d, o, s, h), NEW v, v = Bind(w, o, s, h)
  PROVE  Path(w, v, d) /\ HeapOK(v.heap, e, {}) /\ Rebinds(w.heap, v.heap, o, s, h)
<1> DEFINE y == Add(w, h)
           f == Plus(e, h)
           l == <<o, s>>
           X == {l}
<1>1. /\ HeapOK(w.heap, e, {}) /\ View(w, d) /\ w.heap \in Heaps /\ e \in [Objects -> Nat] /\ IsWorld(w)
      /\ d \in Objects /\ w.heap[d].kind = "device"
  BY HandsAre
<1>2. o \in Objects /\ (e[o] > 0 \/ Pinned(w.heap, e, o)) /\ s \in Slots /\ h \in Handles
  BY DEF HasSlots, MayBind
<1>3. Adds(w, y, d, f, {})
  BY <1>2, AddAdds DEF MayBind
<1>4. f \in [Objects -> Nat] /\ Moves(e, f, None, h) /\ \A k \in Objects : f[k] >= e[k]
  <2>1. f \in [Objects -> Nat] /\ \A k \in Objects : f[k] = (IF k = h THEN e[k] + 1 ELSE e[k])
    BY <1>1, PlusIs
  <2>2. Moves(e, f, None, h)
    BY <1>1, MovesPlus
  <2> HIDE DEF f
  <2>3. \A k \in Objects : f[k] >= e[k]
    <3> TAKE k \in Objects
    <3>1. e[k] \in Nat /\ (f[k] = e[k] + 1 \/ f[k] = e[k])
      BY <1>1, <2>1
    <3> QED
      BY <3>1
  <2> QED
    BY <2>1, <2>2, <2>3
<1>5. h # None => f[h] > 0
  BY <1>1, <1>2, ObjectOrNone, PlusLess, SMTT(30)
<1> DEFINE old == w.heap[o].bound[s]
           u == Drop(y, old)
           G == [u.heap EXCEPT ![o].bound[s] = h]
<1>6. v = [u EXCEPT !.heap = G]
  BY DEF Bind
<1> HIDE DEF y, f
<1>7. /\ View(y, d) /\ y.heap \in Heaps /\ HeapOK(y.heap, f, {}) /\ \A k \in Objects : Alike(w.heap[k], y.heap[k])
  BY <1>3 DEF Adds, Path
<1>8. old \in Handles /\ y.heap[o].bound[s] = old
  BY <1>1, <1>2, <1>7, FieldTypes DEF Alike, Built
<1>9. y.heap[o].kind = w.heap[o].kind /\ y.heap[o].dev = w.heap[o].dev /\ y.heap[d].kind = "device"
  BY <1>1, <1>2, <1>7 DEF Alike, Built
<1> HIDE DEF old, u
<1>10. HeapOK(y.heap, Plus(f, old), X)
  <2>1. HeapOK(y.heap, Plus(f, y.heap[o].bound[s]), {} \cup {<<o, s>>})
    BY <1>2, <1>7, TakeOut, Zenon
  <2> QED
    BY <1>8, <2>1
<1>11. Holding(y.heap, f, X) /\ (f[o] > 0 \/ Pinned(y.heap, f, o))
  <2>1. \A k \in Objects : e[k] > 0 => f[k] > 0
    BY <1>1, <1>4
  <2>2. Pinned(w.heap, e, o) => Pinned(y.heap, f, o)
    BY <1>7, <2>1 DEF Pinned, Alike, Built
  <2>3. f[o] > 0 \/ Pinned(y.heap, f, o)
    BY <1>2, <2>1, <2>2
  <2> QED
    BY <2>3 DEF Holding
<1> HIDE DEF X
<1>12. Drops(y, u, d, f, X)
  <2>1. CASE old = None
    <3>1. u = y /\ Plus(f, old) = f
      BY <1>4, <2>1, PlusIs DEF Drop, u
    <3>2. Sound(y) /\ IsWorld(y)
      BY <1>7 DEF View, Sound
    <3> QED
      BY <1>7, <1>10, <3>1, <3>2, StepsNone, FrameNone DEF Drops, Keeps
  <2>2. CASE old # None
    <3>1. old \in Objects
      BY <1>8, <2>2, ObjectOrNone
    <3> DEFINE g == Plus(f, old)
    <3>2. Less(g, old) = f /\ g[old] > 0
      BY <1>4, <3>1, PlusLess
    <3> HIDE DEF g
    <3>3. Hands(y, d, g, X) /\ Held(y.heap, g, X, old)
      BY <1>7, <1>10, <1>11, <3>2 DEF Hands, Held, g
    <3>4. Owner(y.heap, old) = d
      <4>1. Owner(y.heap, o) = d /\ y.heap[old].dev = Owner(y.heap, o) /\ Fits(s, y.heap[old].kind)
        <5>1. <<o, s>> \notin {} /\ y.heap[o].bound[s] # None
          BY <1>8, <2>2
        <5>2. Owner(y.heap, o) = d
          BY <1>9 DEF Owner, HasSlots
        <5>3. BoundFit(y.heap, {})
          BY <1>7 DEF HeapOK
        <5> QED
          BY <1>2, <1>8, <5>1, <5>2, <5>3 DEF BoundFit
      <4>2. y.heap[old].kind # "device"
        BY <1>2, <4>1 DEF Fits, Slots, Content
      <4> QED
        BY <4>1, <4>2 DEF Owner
    <3>5. u = Drop(y, old)
      BY DEF u
    <3>6. Drops(y, u, d, Less(g, old), X)
      BY <3>1, <3>2, <3>3, <3>4, <3>5, DropDrops
    <3> QED
      BY <3>2, <3>6
  <2> QED
    BY <2>1, <2>2
<1>13. HeapOK(u.heap, f, X) /\ Frame(y.heap, u.heap) /\ u.heap \in Heaps
  BY <1>12 DEF Drops, HeapOK
<1>14. Alike(w.heap[o], u.heap[o])
  <2>2. Alike(y.heap[o], u.heap[o])
    BY <1>2, <1>11, <1>13, HeldAlike
  <2> QED
    BY <1>2, <1>7, <2>2 DEF Alike, Built
<1>15. u.heap[d].kind = "device" /\ View(u, d) /\ Keeps(y, u)
  <2>1. u.heap[d].kind = "device"
    <3>1. CASE o = d
      BY <1>1, <1>14, <3>1 DEF Alike, Built
    <3>2. CASE o # d
      <4>1. u.heap[o].kind = "block" /\ u.heap[o].dev = d
        BY <1>14, <3>2 DEF Alike, Built, HasSlots
      <4> QED
        BY <1>2, <1>13, <4>1 DEF HeapOK, HasDevice
    <3> QED
      BY <3>1, <3>2
  <2> QED
    BY <1>12, <2>1 DEF Drops
<1>16. Binds(u.heap, G, o, s, h)
  BY <1>2, <1>13, Binding
<1>17. IsWorld(u) /\ Steps(y, u)
  BY <1>12 DEF Drops, Sound
<1> HIDE DEF G
<1>18. Writes(u, v) /\ v.heap = G
  <2>1. Writes(u, [u EXCEPT !.heap = G]) /\ [u EXCEPT !.heap = G].heap = G
    BY <1>17, Writing
  <2> QED
    BY <1>6, <2>1
<1>19. HeapOK(G, e, {})
  <2> DEFINE K == u.heap
             Y == X \ {l}
  <2>1. h # None => Fits(s, K[h].kind) /\ K[h].dev = Owner(K, o)
    <3> SUFFICES ASSUME h # None
                 PROVE  Fits(s, K[h].kind) /\ K[h].dev = Owner(K, o)
      OBVIOUS
    <3>1. h \in Objects /\ f[h] > 0
      BY <1>2, <1>5, ObjectOrNone
    <3>2. Alike(w.heap[h], u.heap[h])
      BY <1>7, <1>13, <3>1, AliveAlike DEF Alike, Built
    <3>3. Fits(s, w.heap[h].kind) /\ w.heap[h].dev = d
      BY DEF MayBind
    <3>4. Owner(K, o) = d
      BY <1>1, <1>14 DEF Owner, HasSlots, Alike, Built
    <3> QED
      BY <3>2, <3>3, <3>4 DEF Alike, Built
  <2>2. Moves(f, e, h, None)
    <3>1. \A k \in Objects : e[k] \in Nat /\ f[k] \in Nat /\ f[k] + Is(k, None) = e[k] + Is(k, h)
      BY <1>1, <1>4 DEF Moves
    <3>2. \A k \in Objects : e[k] + Is(k, h) = f[k] + Is(k, None)
      BY <3>1
    <3> QED
      BY <1>1, <3>2 DEF Moves
  <2>3. l \in X /\ Y = {}
    BY DEF X
  <2>4. K[o].kind \in {"device", "block"} /\ (K[o].kind = "block" => s # "target")
    BY <1>1, <1>14 DEF Alike, Built, HasSlots, MayBind
  <2>5. HeapOK(K, f, X) /\ Binds(K, G, o, s, h)
    BY <1>13, <1>16
  <2> HIDE DEF K, Y
  <2>6. HeapOK(G, e, X \ {<<o, s>>})
    BY <1>2, <2>1, <2>2, <2>3, <2>4, <2>5, PutIn
  <2> QED
    BY <2>3, <2>6 DEF Y
<1>20. /\ \A k \in Objects \ {o} : v.heap[k] = u.heap[k]
       /\ \A k \in Objects : /\ v.heap[k].kind = u.heap[k].kind /\ v.heap[k].dev = u.heap[k].dev
                             /\ v.heap[k].named = u.heap[k].named /\ v.heap[k].peer = u.heap[k].peer
                             /\ v.heap[k].recording = u.heap[k].recording
                             /\ v.heap[k].value = u.heap[k].value /\ v.heap[k].marks = u.heap[k].marks
       /\ v.heap[o].bound = [u.heap[o].bound EXCEPT ![s] = h]
  BY <1>16, <1>18 DEF Binds
<1>21. Path(w, v, d)
  <2>1. Named(v.heap, d) = Named(u.heap, d)
    BY <1>20 DEF Named
  <2>2. View(v, d) /\ Steps(u, v) /\ Keeps(u, v)
    BY <1>1, <1>15, <1>18, <1>20, <2>1, ViewWrites DEF View
  <2>3. v.heap \in Heaps
    BY <1>18, <1>19 DEF HeapOK
  <2>4. Path(y, v, d)
    BY <1>15, <1>17, <2>2, <2>3, StepsTwice, KeepsTwice DEF Path
  <2> QED
    BY <1>3, <2>4, PathTwice DEF Adds
<1>22. Rebinds(w.heap, v.heap, o, s, h)
  <2>1. \A k \in Objects \ {o} : v.heap[k] = Gone \/ Alike(w.heap[k], v.heap[k])
    <3>1. \A k \in Objects : u.heap[k] = Gone \/ Alike(y.heap[k], u.heap[k])
      BY <1>13 DEF Frame
    <3>2. \A k \in Objects : u.heap[k] = Gone \/ Alike(w.heap[k], u.heap[k])
      BY <1>7, <3>1 DEF Alike, Built
    <3> QED
      BY <1>20, <3>2
  <2>2. /\ v.heap[o].kind = w.heap[o].kind /\ v.heap[o].named = w.heap[o].named
        /\ v.heap[o].dev = w.heap[o].dev /\ v.heap[o].peer = w.heap[o].peer
        /\ v.heap[o].recording = w.heap[o].recording /\ v.heap[o].value = w.heap[o].value
        /\ v.heap[o].marks = w.heap[o].marks /\ u.heap[o].bound = w.heap[o].bound
    BY <1>2, <1>14, <1>20 DEF Alike, Built
  <2> QED
    BY <1>20, <2>1, <2>2 DEF Rebinds
<1> QED
  BY <1>18, <1>19, <1>21, <1>22

-----------------------------------------------------------------------------
(* What a call does *)

(* Objects keep their kind and their device; n is the handle it has taken. *)
Grows(H, G, d, n) ==
  \A k \in Objects : G[k].kind # "none" =>
    \/ G[k].kind = H[k].kind /\ G[k].dev = H[k].dev
    \/ k = n /\ G[k].dev = d /\ G[k].kind # "device"

(* The DLL's state of a device is the one the host will have. *)
Shadows(w, d) ==
  ~Tells(w).host.lost => Agree(Tells(w).host, w.heap[d].bound, w.heap[d].value)

Moved(w, v, d, e, n) == Hands(v, d, e, {}) /\ Grows(w.heap, v.heap, d, n)
Done(w, v, d, e, n)  == Moved(w, v, d, e, n) /\ Shadows(v, d)

LEMMA GrowsNone ==
  ASSUME NEW H, NEW d, NEW n
  PROVE  Grows(H, H, d, n)
BY DEF Grows

LEMMA GrowsTwice ==
  ASSUME NEW H, NEW G, NEW K, NEW d, NEW n, Grows(H, G, d, n), Grows(G, K, d, n)
  PROVE  Grows(H, K, d, n)
BY DEF Grows

LEMMA GrowsMore ==
  ASSUME NEW H, NEW G, NEW d, NEW n, Grows(H, G, d, None)
  PROVE  Grows(H, G, d, n)
<1>1. \A k \in Objects : k # None
  BY DEF Objects, None
<1> QED
  BY <1>1 DEF Grows

LEMMA SameGrows ==
  ASSUME NEW H, NEW G, NEW d, NEW n,
         \A k \in Objects : G[k] = Gone \/ (G[k].kind = H[k].kind /\ G[k].dev = H[k].dev)
  PROVE  Grows(H, G, d, n)
BY GoneIs DEF Grows

LEMMA FrameGrows ==
  ASSUME NEW H, NEW G, NEW d, NEW n, Frame(H, G)
  PROVE  Grows(H, G, d, n)
BY SameGrows DEF Frame, Alike, Built

LEMMA BuiltGrows ==
  ASSUME NEW H, NEW G, NEW d, NEW n, \A k \in Objects : Built(H[k], G[k])
  PROVE  Grows(H, G, d, n)
BY SameGrows DEF Built

LEMMA RebindsGrows ==
  ASSUME NEW H, NEW G, NEW d, NEW n, NEW o, NEW s, NEW h, Rebinds(H, G, o, s, h)
  PROVE  Grows(H, G, d, n)
<1>1. \A k \in Objects : G[k] = Gone \/ (G[k].kind = H[k].kind /\ G[k].dev = H[k].dev)
  BY DEF Rebinds, Alike, Built
<1> QED
  BY <1>1, SameGrows

LEMMA MovedTwice ==
  ASSUME NEW u, NEW v, NEW w, NEW d, NEW e, NEW f, NEW n, Moved(u, v, d, e, n), Moved(v, w, d, f, n)
  PROVE  Moved(u, w, d, f, n)
BY GrowsTwice DEF Moved

LEMMA ShadowsKept ==
  ASSUME NEW w, NEW v, NEW d, Keeps(w, v), v.heap[d].bound = w.heap[d].bound,
         v.heap[d].value = w.heap[d].value, Shadows(w, d)
  PROVE  Shadows(v, d)
<1> DEFINE g == Tells(w).host
           h == Tells(v).host
<1>1. h.bound = g.bound /\ h.value = g.value /\ h.apart = g.apart /\ h.lost = g.lost
  BY DEF Keeps
<1>2. ~g.lost => Agree(g, v.heap[d].bound, v.heap[d].value)
  BY DEF Shadows
<1>3. (~g.lost => Agree(g, v.heap[d].bound, v.heap[d].value)) =>
        (~h.lost => Agree(h, v.heap[d].bound, v.heap[d].value))
  <2> HIDE DEF g, h
  <2> QED
    BY <1>1, AgreeSame
<1> QED
  BY <1>2, <1>3 DEF Shadows

(* Only values and marks change. *)
LEMMA Annotated ==
  ASSUME NEW w, NEW d, NEW e, Hands(w, d, e, {}), NEW v, Writes(w, v), v.heap \in Heaps,
         \A o \in Objects : Built(w.heap[o], v.heap[o]) /\ v.heap[o].ref = w.heap[o].ref,
         \A o \in Objects : w.heap[o].kind = "none" => v.heap[o] = w.heap[o]
  PROVE  Hands(v, d, e, {}) /\ Path(w, v, d)
<1>1. /\ HeapOK(w.heap, e, {}) /\ View(w, d) /\ \A o \in Objects : Formed(w.heap[o])
  BY HandsAre
<1>2. \A o \in Objects : Formed(v.heap[o])
  <2> TAKE o \in Objects
  <2>1. Formed(w.heap[o]) /\ Built(w.heap[o], v.heap[o]) /\ v.heap[o].ref = w.heap[o].ref
    BY <1>1
  <2>2. CASE w.heap[o].kind = "none"
    BY <2>1, <2>2
  <2>3. CASE w.heap[o].kind # "none"
    BY <2>1, <2>3 DEF Formed, Built
  <2> QED
    BY <2>2, <2>3
<1>3. HeapOK(v.heap, e, {})
  BY <1>1, <1>2, Restated
<1>4. \A o \in Objects : v.heap[o].named = w.heap[o].named /\ v.heap[o].dev = w.heap[o].dev
                         /\ v.heap[o].kind = w.heap[o].kind
  BY DEF Built
<1>5. Named(v.heap, d) = Named(w.heap, d)
  BY <1>4, NamedSame
<1>6. View(v, d) /\ Steps(w, v) /\ Keeps(w, v)
  <2>1. d \in Objects /\ w.heap[d].kind = "device" /\ w.heap[d].named
    BY HandsAre
  <2>2. v.heap[d].kind = "device" /\ v.heap[d].named
    BY <1>4, <2>1
  <2> QED
    BY <1>1, <1>5, <2>2, ViewWrites
<1> QED
  BY <1>3, <1>6 DEF Hands, Path

(* The values of an object are set. *)
Valued(H, G, o, k) ==
  /\ G \in Heaps /\ \A i \in Objects \ {o} : G[i] = H[i]
  /\ Built(H[o], G[o]) /\ G[o].ref = H[o].ref /\ G[o].value = k

LEMMA Valuing ==
  ASSUME NEW H \in Heaps, NEW o \in Objects, NEW k \in [States -> Values]
  PROVE  Valued(H, [H EXCEPT ![o].value = k], o, k)
BY DEF Heaps, ObjectType, Built, Valued

LEMMA Revalued ==
  ASSUME NEW w, NEW d, NEW e, Hands(w, d, e, {}), NEW o \in Objects, w.heap[o].kind # "none",
         NEW k \in [States -> Values], NEW v, v = [w EXCEPT !.heap[o].value = k]
  PROVE  Hands(v, d, e, {}) /\ Path(w, v, d) /\ Valued(w.heap, v.heap, o, k)
<1>1. w.heap \in Heaps /\ IsWorld(w)
  BY HandsAre
<1> DEFINE H == w.heap
           G == [H EXCEPT ![o].value = k]
<1>2. v = [w EXCEPT !.heap = G]
  OBVIOUS
<1>3. Valued(H, G, o, k)
  BY <1>1, Valuing
<1>4. H[o].kind # "none"
  OBVIOUS
<1> HIDE DEF G
<1>5. Writes(w, v) /\ v.heap = G
  <2>1. Writes(w, [w EXCEPT !.heap = G]) /\ [w EXCEPT !.heap = G].heap = G
    BY <1>1, Writing
  <2> QED
    BY <1>2, <2>1
<1> HIDE DEF H
<1>6. /\ G \in Heaps
      /\ \A i \in Objects : Built(H[i], G[i]) /\ G[i].ref = H[i].ref
      /\ \A i \in Objects : H[i].kind = "none" => G[i] = H[i]
  BY <1>3, <1>4 DEF Valued, Built
<1>7. /\ v.heap \in Heaps
      /\ \A i \in Objects : Built(w.heap[i], v.heap[i]) /\ v.heap[i].ref = w.heap[i].ref
      /\ \A i \in Objects : w.heap[i].kind = "none" => v.heap[i] = w.heap[i]
  BY <1>5, <1>6 DEF H
<1> QED
  BY <1>3, <1>5, <1>7, Annotated DEF H

LEMMA ValuedGrows ==
  ASSUME NEW H, NEW G, NEW d, NEW n, NEW o \in Objects, NEW k, Valued(H, G, o, k)
  PROVE  Grows(H, G, d, n)
<1>1. \A i \in Objects : G[i].kind = H[i].kind /\ G[i].dev = H[i].dev
  BY DEF Valued, Built
<1> QED
  BY <1>1, SameGrows

(* A slot of an object is set, its values may go with it, and it may be noted. *)
Sets(H, G, o, s, h) ==
  /\ \A k \in Objects \ {o} : G[k] = Gone \/ (Built(H[k], G[k]) /\ G[k].value = H[k].value)
  /\ G[o].kind = H[o].kind /\ G[o].named = H[o].named /\ G[o].dev = H[o].dev /\ G[o].peer = H[o].peer
  /\ G[o].recording = H[o].recording
  /\ G[o].bound = [H[o].bound EXCEPT ![s] = h]

LEMMA SetsValued ==
  ASSUME NEW H, NEW K, NEW G, NEW o \in Objects, NEW s, NEW h, NEW k, Rebinds(H, K, o, s, h),
         Valued(K, G, o, k)
  PROVE  Sets(H, G, o, s, h)
<1>1. ASSUME NEW i \in Objects \ {o}
      PROVE  G[i] = Gone \/ (Built(H[i], G[i]) /\ G[i].value = H[i].value)
  BY DEF Valued, Rebinds, Alike
<1> QED
  BY <1>1 DEF Sets, Rebinds, Valued, Built

(* What a slot brings is a state. *)
LEMMA BroughtIs ==
  ASSUME NEW v \in [States -> Values], NEW s, NEW h
  PROVE  Brought(v, s, h) \in [States -> Values]
BY ClearedIs DEF Brought

(* A slot of the device is set, on the host and in the DLL. *)
LEMMA PutBinds ==
  ASSUME NEW w, NEW d, NEW e, Hands(w, d, e, {}), HasSlots(w.heap, e, d, d),
         NEW s, NEW h, MayBind(w.heap, d, d, s, h), h # None => w.heap[h].named,
         h = None => s # "target", NEW v, v = PutObject(w, d, s, h)
  PROVE  /\ Hands(v, d, e, {}) /\ Sets(w.heap, v.heap, d, s, h)
         /\ Shadows(w, d) => Shadows(v, d)
<1>1. /\ HeapOK(w.heap, e, {}) /\ View(w, d) /\ d \in Objects /\ w.heap \in Heaps
      /\ w.heap[d].kind = "device"
  BY HandsAre
<1>2. s \in Slots /\ h \in Handles /\ (h # None => h \in Named(w.heap, d))
  <2>1. h # None => h \in Objects
    BY ObjectOrNone DEF MayBind
  <2> QED
    BY <2>1 DEF MayBind, Named
<1> DEFINE y == Cmd(w, [op |-> "SET_OBJECT", slot |-> s, h |-> h])
           n == Bind(y, d, s, h)
           k == Brought(n.heap[d].value, s, h)
<1>3. v = [n EXCEPT !.heap[d].value = k]
  BY DEF PutObject
<1>4. /\ View(y, d) /\ Steps(w, y) /\ y.heap = w.heap
      /\ HostBinds(Tells(w).host, Tells(y).host, s, h)
  BY <1>1, <1>2, SaysBind
<1> HIDE DEF y
<1>5. Path(y, n, d) /\ HeapOK(n.heap, e, {}) /\ Rebinds(w.heap, n.heap, d, s, h)
  <2>1. Hands(y, d, e, {}) /\ HasSlots(y.heap, e, d, d) /\ MayBind(y.heap, d, d, s, h)
    BY <1>1, <1>4 DEF Hands
  <2> HIDE DEF n
  <2>2. n = Bind(y, d, s, h)
    BY DEF n
  <2>3. Path(y, n, d) /\ HeapOK(n.heap, e, {}) /\ Rebinds(y.heap, n.heap, d, s, h)
    BY <2>1, <2>2, BindBinds
  <2> QED
    BY <1>4, <2>3
<1> HIDE DEF n
<1>6. /\ Hands(n, d, e, {}) /\ n.heap[d].value = w.heap[d].value
      /\ n.heap[d].bound = [w.heap[d].bound EXCEPT ![s] = h]
  BY <1>5 DEF Hands, Path, Rebinds
<1>7. /\ k = Brought(w.heap[d].value, s, h) /\ k \in [States -> Values]
      /\ w.heap[d].value \in [States -> Values] /\ w.heap[d].bound \in [Slots -> Handles]
  <2>1. w.heap[d].value \in [States -> Values] /\ w.heap[d].bound \in [Slots -> Handles]
    BY <1>1, FieldTypes
  <2> QED
    BY <1>6, <2>1, BroughtIs
<1> HIDE DEF k
<1>8. Hands(v, d, e, {}) /\ Path(n, v, d) /\ Valued(n.heap, v.heap, d, k)
  <2>1. n.heap[d].kind # "none"
    BY <1>6, HandsAre
  <2>2. Hands(n, d, e, {}) /\ d \in Objects /\ k \in [States -> Values]
    BY <1>1, <1>6, <1>7
  <2> QED
    BY <1>3, <2>1, <2>2, Revalued
<1>9. Sets(w.heap, v.heap, d, s, h)
  BY <1>1, <1>5, <1>8, SetsValued
<1>10. ASSUME Shadows(w, d)
       PROVE  Shadows(v, d)
  <2> DEFINE a == Tells(w).host
             b == Tells(y).host
             c == Tells(v).host
             B == w.heap[d].bound
             V == w.heap[d].value
  <2>1. a \in HostType
    <3>1. Sound(w)
      BY HandsAre
    <3> QED
      BY <3>1, SoundReady DEF Ready
  <2>2. HostBinds(a, b, s, h) /\ b.lost = a.lost
    BY <1>4 DEF HostBinds
  <2>3. c.bound = b.bound /\ c.value = b.value /\ c.apart = b.apart /\ c.lost = b.lost
    BY <1>5, <1>8 DEF Path, Keeps
  <2>4. ~a.lost => Agree(a, B, V)
    BY <1>10 DEF Shadows
  <2>5. v.heap[d].bound = [B EXCEPT ![s] = h] /\ v.heap[d].value = Brought(V, s, h)
    BY <1>6, <1>7, <1>8 DEF Valued, Built
  <2>6. B \in [Slots -> Handles] /\ V \in [States -> Values]
    BY <1>7
  <2>7. ~c.lost => Agree(c, [B EXCEPT ![s] = h], Brought(V, s, h))
    <3> HIDE DEF a, b, c, B, V
    <3> SUFFICES ASSUME ~c.lost PROVE Agree(c, [B EXCEPT ![s] = h], Brought(V, s, h))
      OBVIOUS
    <3>1. Agree(a, B, V)
      BY <2>2, <2>3, <2>4
    <3>2. Agree(b, [B EXCEPT ![s] = h], Brought(V, s, h))
      BY <1>2, <2>1, <2>2, <2>6, <3>1, BindAgrees
    <3> QED
      BY <2>3, <3>2, AgreeSame
  <2> QED
    BY <2>5, <2>7 DEF Shadows
<1> QED
  BY <1>8, <1>9, <1>10

(* A block that is recorded notes it. *)
Notes(H, G) ==
  \A k \in Objects : Built(H[k], G[k]) /\ G[k].value = H[k].value /\ G[k].ref = H[k].ref

LEMMA MarkNotes ==
  ASSUME NEW w, NEW d, NEW e, Hands(w, d, e, {}), NEW part \in Parts, NEW v, v = Mark(w, d, part)
  PROVE  Hands(v, d, e, {}) /\ Path(w, v, d) /\ Notes(w.heap, v.heap)
<1>1. /\ HeapOK(w.heap, e, {}) /\ View(w, d) /\ w.heap \in Heaps /\ IsWorld(w) /\ d \in Objects
      /\ w.heap[d].kind = "device"
  BY HandsAre
<1> DEFINE b == w.heap[d].recording
<1>2. CASE b = None
  <2>1. v = w
    BY <1>2 DEF Mark
  <2> QED
    BY <1>1, <2>1, StepsNone DEF Notes, Built, Path, Keeps
<1>3. CASE b # None
  <2>1. b \in Objects /\ w.heap[b].kind = "block"
    <3>1. b \in Handles
      BY <1>1, FieldTypes
    <3>2. Records(w.heap)
      BY <1>1 DEF HeapOK
    <3> QED
      BY <1>1, <1>3, <3>1, <3>2, ObjectOrNone DEF Records
  <2> DEFINE H == w.heap
             G == [H EXCEPT ![b].marks = @ \cup {part}]
  <2>2. v = [w EXCEPT !.heap = G]
    BY <1>3 DEF Mark
  <2> HIDE DEF b
  <2>3. Writes(w, v) /\ v.heap = G
    <3>1. Writes(w, [w EXCEPT !.heap = G]) /\ [w EXCEPT !.heap = G].heap = G
      BY <1>1, Writing
    <3> QED
      BY <2>2, <3>1
  <2>4. H \in Heaps /\ H[b].kind = "block"
    BY <1>1, <2>1
  <2> HIDE DEF H
  <2>5. /\ G \in Heaps /\ \A k \in Objects \ {b} : G[k] = H[k]
        /\ Built(H[b], G[b]) /\ G[b].value = H[b].value /\ G[b].ref = H[b].ref
    BY <2>1, <2>4 DEF Heaps, ObjectType, Built
  <2> HIDE DEF G
  <2>6. Notes(H, G) /\ \A o \in Objects : H[o].kind = "none" => G[o] = H[o]
    BY <2>4, <2>5 DEF Notes, Built
  <2>7. Notes(w.heap, v.heap) /\ v.heap \in Heaps /\ \A o \in Objects : w.heap[o].kind = "none" => v.heap[o] = w.heap[o]
    BY <2>3, <2>5, <2>6 DEF H
  <2> QED
    BY <2>3, <2>7, Annotated DEF Notes
<1> QED
  BY <1>2, <1>3

LEMMA SetsNoted ==
  ASSUME NEW H, NEW K, NEW G, NEW o \in Objects, NEW s, NEW h, Sets(H, K, o, s, h), Notes(K, G),
         \A k \in Objects : Formed(G[k])
  PROVE  Sets(H, G, o, s, h)
<1>1. ASSUME NEW k \in Objects \ {o}
      PROVE  G[k] = Gone \/ (Built(H[k], G[k]) /\ G[k].value = H[k].value)
  <2>1. Built(K[k], G[k]) /\ G[k].value = K[k].value /\ Formed(G[k])
    BY DEF Notes
  <2>2. CASE K[k] = Gone
    BY <2>1, <2>2, GoneIs DEF Formed, Built
  <2>3. CASE Built(H[k], K[k]) /\ K[k].value = H[k].value
    BY <2>1, <2>3 DEF Built
  <2> QED
    BY <2>2, <2>3 DEF Sets
<1>2. Built(K[o], G[o])
  BY DEF Notes
<1> QED
  BY <1>1, <1>2 DEF Sets, Built

LEMMA SetsGrows ==
  ASSUME NEW H, NEW G, NEW d, NEW n, NEW o, NEW s, NEW h, Sets(H, G, o, s, h)
  PROVE  Grows(H, G, d, n)
<1>1. \A k \in Objects : G[k] = Gone \/ (G[k].kind = H[k].kind /\ G[k].dev = H[k].dev)
  BY DEF Sets, Built
<1> QED
  BY <1>1, SameGrows

LEMMA PutMarkedSets ==
  ASSUME NEW w, NEW d, NEW e, Hands(w, d, e, {}), HasSlots(w.heap, e, d, d),
         NEW s \in Content, NEW h, MayBind(w.heap, d, d, s, h), h # None => w.heap[h].named,
         NEW v, v = PutMarked(w, d, s, h)
  PROVE  /\ Hands(v, d, e, {}) /\ Sets(w.heap, v.heap, d, s, h)
         /\ Shadows(w, d) => Shadows(v, d)
<1> DEFINE y == PutObject(w, d, s, h)
<1>0. s # "target"
  BY DEF Content
<1>1. /\ Hands(y, d, e, {}) /\ Sets(w.heap, y.heap, d, s, h)
      /\ Shadows(w, d) => Shadows(y, d)
  BY <1>0, PutBinds
<1>2. v = Mark(y, d, s)
  BY DEF PutMarked
<1> HIDE DEF y
<1>3. s \in Parts /\ d \in Objects
  BY HandsAre DEF Parts
<1>4. Hands(v, d, e, {}) /\ Path(y, v, d) /\ Notes(y.heap, v.heap)
  BY <1>1, <1>2, <1>3, MarkNotes
<1>5. Sets(w.heap, v.heap, d, s, h)
  <2>1. \A k \in Objects : Formed(v.heap[k])
    BY <1>4 DEF Hands, HeapOK
  <2> QED
    BY <1>1, <1>3, <1>4, <2>1, SetsNoted
<1>6. Shadows(w, d) => Shadows(v, d)
  <2>1. Keeps(y, v) /\ v.heap[d].bound = y.heap[d].bound /\ v.heap[d].value = y.heap[d].value
    BY <1>3, <1>4 DEF Path, Notes, Built
  <2> QED
    BY <1>1, <2>1, ShadowsKept
<1> QED
  BY <1>4, <1>5, <1>6

(* A state of the device is set. *)
LEMMA PutValueSets ==
  ASSUME NEW w, NEW d, NEW e, Hands(w, d, e, {}), NEW p \in States, NEW n \in Values,
         NEW v, v = PutValue(w, d, p, n)
  PROVE  /\ Hands(v, d, e, {}) /\ \A k \in Objects : Built(w.heap[k], v.heap[k])
         /\ \A k \in Objects \ {d} : v.heap[k].value = w.heap[k].value
         /\ Shadows(w, d) => Shadows(v, d)
<1>1. /\ HeapOK(w.heap, e, {}) /\ View(w, d) /\ w.heap \in Heaps /\ IsWorld(w) /\ d \in Objects
      /\ w.heap[d].kind = "device"
  BY HandsAre
<1> DEFINE k == [w.heap[d].value EXCEPT ![p] = n]
           x == [w EXCEPT !.heap[d].value = k]
           y == Cmd(x, [op |-> "SET_STATE", part |-> p, v |-> n])
<1>2. v = Mark(y, d, p)
  BY DEF PutValue
<1>3. w.heap[d].value \in [States -> Values] /\ w.heap[d].bound \in [Slots -> Handles]
  BY <1>1, FieldTypes
<1>4. k \in [States -> Values]
  BY <1>3
<1> HIDE DEF k
<1>5. Hands(x, d, e, {}) /\ Path(w, x, d) /\ Valued(w.heap, x.heap, d, k)
  <2>1. w.heap[d].kind # "none"
    BY <1>1
  <2> QED
    BY <1>1, <1>4, <2>1, Revalued
<1> HIDE DEF x
<1>6. /\ View(y, d) /\ Steps(x, y) /\ y.heap = x.heap
      /\ HostSets(Tells(x).host, Tells(y).host, p, n)
  BY <1>5, SaysValue DEF Path
<1> HIDE DEF y
<1>7. Hands(y, d, e, {})
  BY <1>5, <1>6 DEF Hands
<1>8. Hands(v, d, e, {}) /\ Path(y, v, d) /\ Notes(y.heap, v.heap)
  BY <1>2, <1>7, MarkNotes DEF Parts
<1>9. /\ \A i \in Objects : Built(w.heap[i], v.heap[i])
      /\ \A i \in Objects \ {d} : v.heap[i].value = w.heap[i].value
  <2>1. /\ \A i \in Objects : Built(w.heap[i], y.heap[i])
        /\ \A i \in Objects \ {d} : y.heap[i].value = w.heap[i].value
    BY <1>5, <1>6 DEF Valued, Built
  <2> QED
    BY <1>8, <2>1 DEF Notes, Built
<1>10. ASSUME Shadows(w, d)
       PROVE  Shadows(v, d)
  <2> DEFINE a == Tells(x).host
             b == Tells(y).host
             c == Tells(v).host
             B == w.heap[d].bound
             V == w.heap[d].value
  <2>1. a \in HostType
    <3>1. Sound(x)
      BY <1>5, HandsAre
    <3> QED
      BY <3>1, SoundReady DEF Ready
  <2>2. HostSets(a, b, p, n) /\ b.lost = a.lost
    BY <1>6 DEF HostSets
  <2>3. c.bound = b.bound /\ c.value = b.value /\ c.apart = b.apart /\ c.lost = b.lost
    BY <1>8 DEF Path, Keeps
  <2>4. ~a.lost => Agree(a, B, V)
    <3> DEFINE z == Tells(w).host
    <3>1. a.bound = z.bound /\ a.value = z.value /\ a.apart = z.apart /\ a.lost = z.lost
      BY <1>5 DEF Path, Keeps
    <3>2. ~z.lost => Agree(z, B, V)
      BY <1>10 DEF Shadows
    <3> HIDE DEF a, z, B, V
    <3> QED
      BY <3>1, <3>2, AgreeSame
  <2>5. v.heap[d].bound = B /\ v.heap[d].value = [V EXCEPT ![p] = n]
    BY <1>1, <1>5, <1>6, <1>8 DEF Valued, Built, Notes, k
  <2>6. B \in [Slots -> Handles] /\ V \in [States -> Values]
    BY <1>3
  <2>7. ~c.lost => Agree(c, B, [V EXCEPT ![p] = n])
    <3> HIDE DEF a, b, c, B, V
    <3> SUFFICES ASSUME ~c.lost PROVE Agree(c, B, [V EXCEPT ![p] = n])
      OBVIOUS
    <3>1. Agree(a, B, V)
      BY <2>2, <2>3, <2>4
    <3>2. Agree(b, B, [V EXCEPT ![p] = n])
      BY <2>1, <2>2, <2>6, <3>1, SetAgrees
    <3> QED
      BY <2>3, <3>2, AgreeSame
  <2> QED
    BY <2>5, <2>7 DEF Shadows
<1> QED
  BY <1>8, <1>9, <1>10

(* What a slot that a state block knows is bound to, is known to the host. *)
LEMMA FitNamed ==
  ASSUME NEW H, NEW e, HeapOK(H, e, {}), NEW o \in Objects, NEW s \in Content, NEW c,
         c = H[o].bound[s], c # None
  PROVE  c \in Objects /\ Fits(s, H[c].kind) /\ H[c].dev = Owner(H, o) /\ Addable(H, c) /\ H[c].named
<1>1. s \in Slots /\ s # "target" /\ s \in {"stage", "stream", "shader", "declaration", "pixel"}
  BY SlotFields DEF Content
<1>2. H \in Heaps /\ BoundFit(H, {}) /\ \A k \in Objects : Formed(H[k])
  BY DEF HeapOK
<1>3. c \in Objects
  BY <1>1, <1>2, FieldTypes, ObjectOrNone
<1>4. Fits(s, H[c].kind) /\ H[c].dev = Owner(H, o)
  <2>1. <<o, s>> \notin {}
    OBVIOUS
  <2> QED
    BY <1>1, <1>2, <2>1 DEF BoundFit
<1>5. H[c].kind \in {"texture", "buffer", "shader", "declaration", "pixel"}
  BY <1>1, <1>4 DEF Fits
<1>6. H[c].named
  BY <1>2, <1>3, <1>5 DEF Formed, Hosted, Plain
<1> QED
  BY <1>3, <1>4, <1>5, <1>6 DEF Addable

(* Objects that are held, by the program or by an object it holds, stay. *)
LEMMA SetsHeld ==
  ASSUME NEW H, NEW G, NEW e, HeapOK(G, e, {}), NEW o, NEW s, NEW h, Sets(H, G, o, s, h),
         NEW k \in Objects \ {o}, e[k] > 0
  PROVE  Built(H[k], G[k]) /\ G[k].value = H[k].value
<1>1. G[k].kind # "none"
  BY Counting
<1> QED
  BY <1>1, GoneIs DEF Sets

-----------------------------------------------------------------------------
(* sb_apply *)

Applying(w, n, d, b, e) ==
  /\ Hands(n, d, e, {}) /\ Grows(w.heap, n.heap, d, None) /\ (Shadows(w, d) => Shadows(n, d))
  /\ b \in Objects /\ e[b] > 0 /\ n.heap[b].kind = "block" /\ n.heap[b].dev = d
  /\ n.heap[b].bound = w.heap[b].bound /\ n.heap[b].value = w.heap[b].value

LEMMA ApplyStep ==
  ASSUME NEW w, NEW n, NEW d, NEW b, NEW e, Applying(w, n, d, b, e), NEW s \in Content,
         NEW m, NEW v, v = IF s \in m THEN PutMarked(n, d, s, w.heap[b].bound[s]) ELSE n
  PROVE  Applying(w, v, d, b, e)
<1>1. CASE s \notin m
  BY <1>1, SMTT(30)
<1>2. CASE s \in m
  <2> DEFINE c == n.heap[b].bound[s]
  <2>1. /\ HeapOK(n.heap, e, {}) /\ n.heap \in Heaps /\ d \in Objects /\ n.heap[d].kind = "device"
        /\ b \in Objects /\ e[b] > 0 /\ n.heap[b].kind = "block" /\ n.heap[b].dev = d /\ b # d
    BY HandsAre DEF Applying
  <2>2. v = PutMarked(n, d, s, c)
    BY <1>2 DEF Applying
  <2>3. HasSlots(n.heap, e, d, d)
    BY <2>1 DEF HasSlots, Pinned
  <2>4. s \in Slots /\ c \in Handles
    BY <2>1, SlotFields, FieldTypes
  <2>5. c # None => /\ Fits(s, n.heap[c].kind) /\ n.heap[c].dev = d /\ Addable(n.heap, c)
                    /\ n.heap[c].named
    <3>1. Owner(n.heap, b) = d
      BY <2>1 DEF Owner
    <3> QED
      BY <2>1, <3>1, FitNamed
  <2> HIDE DEF c
  <2>6. MayBind(n.heap, d, d, s, c)
    BY <2>1, <2>4, <2>5 DEF MayBind
  <2>7. /\ Hands(v, d, e, {}) /\ Sets(n.heap, v.heap, d, s, c)
        /\ Shadows(n, d) => Shadows(v, d)
    BY <2>2, <2>3, <2>5, <2>6, PutMarkedSets DEF Applying
  <2>8. Built(n.heap[b], v.heap[b]) /\ v.heap[b].value = n.heap[b].value
    <3>1. HeapOK(v.heap, e, {})
      BY <2>7 DEF Hands
    <3> QED
      BY <2>1, <2>7, <3>1, SetsHeld
  <2>9. Grows(w.heap, v.heap, d, None)
    BY <2>7, SetsGrows, GrowsTwice, SMTT(30) DEF Applying
  <2> QED
    BY <2>7, <2>8, <2>9, Zenon DEF Applying, Built
<1> QED
  BY <1>1, <1>2

LEMMA ApplyValueStep ==
  ASSUME NEW w, NEW n, NEW d, NEW b, NEW e, Applying(w, n, d, b, e), NEW p \in States,
         NEW m, NEW v, v = IF p \in m THEN PutValue(n, d, p, w.heap[b].value[p]) ELSE n
  PROVE  Applying(w, v, d, b, e)
<1>1. CASE p \notin m
  BY <1>1, SMTT(30)
<1>2. CASE p \in m
  <2> DEFINE c == n.heap[b].value[p]
  <2>1. /\ HeapOK(n.heap, e, {}) /\ n.heap \in Heaps /\ d \in Objects /\ n.heap[d].kind = "device"
        /\ b \in Objects /\ e[b] > 0 /\ n.heap[b].kind = "block" /\ n.heap[b].dev = d /\ b # d
        /\ Hands(n, d, e, {})
    BY HandsAre DEF Applying
  <2>2. v = PutValue(n, d, p, c)
    BY <1>2 DEF Applying
  <2>3. c \in Values
    BY <2>1, FieldTypes
  <2> HIDE DEF c
  <2>4. /\ Hands(v, d, e, {}) /\ \A k \in Objects : Built(n.heap[k], v.heap[k])
        /\ \A k \in Objects \ {d} : v.heap[k].value = n.heap[k].value
        /\ Shadows(n, d) => Shadows(v, d)
    BY <2>1, <2>2, <2>3, PutValueSets
  <2>5. Grows(w.heap, v.heap, d, None)
    BY <2>4, BuiltGrows, GrowsTwice, SMTT(30) DEF Applying
  <2>6. Built(n.heap[b], v.heap[b]) /\ v.heap[b].value = n.heap[b].value
    BY <2>1, <2>4
  <2> QED
    BY <2>4, <2>5, <2>6, Zenon DEF Applying, Built
<1> QED
  BY <1>1, <1>2

LEMMA ApplyStateSets ==
  ASSUME NEW w, NEW d, NEW e, Hands(w, d, e, {}), NEW b \in Objects, e[b] > 0,
         w.heap[b].kind = "block", w.heap[b].dev = d, Shadows(w, d), NEW v, v = ApplyState(w, d, b)
  PROVE  Done(w, v, d, e, None)
<1> DEFINE m == w.heap[b].marks
           c == w.heap[b].bound
           k == w.heap[b].value
           a1 == IF "state" \in m THEN PutValue(w, d, "state", k["state"]) ELSE w
           a2 == IF "view" \in m THEN PutValue(a1, d, "view", k["view"]) ELSE a1
           u0 == IF "constant" \in m THEN PutValue(a2, d, "constant", k["constant"]) ELSE a2
           u1 == IF "stage" \in m THEN PutMarked(u0, d, "stage", c["stage"]) ELSE u0
           u2 == IF "stream" \in m THEN PutMarked(u1, d, "stream", c["stream"]) ELSE u1
           u3 == IF "shader" \in m THEN PutMarked(u2, d, "shader", c["shader"]) ELSE u2
           u4 == IF "declaration" \in m THEN PutMarked(u3, d, "declaration", c["declaration"]) ELSE u3
           u5 == IF "pixel" \in m THEN PutMarked(u4, d, "pixel", c["pixel"]) ELSE u4
           u6 == IF "format" \in m THEN PutValue(u5, d, "format", k["format"]) ELSE u5
<1>1. v = u6
  BY DEF ApplyState, EachSlot, EachState
<1>2. Applying(w, w, d, b, e)
  BY GrowsNone DEF Applying
<1>3. /\ {"pixel", "declaration", "shader", "stream", "stage"} \subseteq Content
      /\ {"state", "view", "constant", "format"} \subseteq States
  BY DEF Content, States
<1>4. Applying(w, a1, d, b, e)
  <2> HIDE DEF a1, m
  <2>1. a1 = IF "state" \in m THEN PutValue(w, d, "state", w.heap[b].value["state"]) ELSE w
    BY DEF a1
  <2> QED
    BY <1>2, <1>3, <2>1, ApplyValueStep
<1> HIDE DEF a1
<1>5. Applying(w, a2, d, b, e)
  <2> HIDE DEF a2, m
  <2>1. a2 = IF "view" \in m THEN PutValue(a1, d, "view", w.heap[b].value["view"]) ELSE a1
    BY DEF a2
  <2> QED
    BY <1>3, <1>4, <2>1, ApplyValueStep
<1> HIDE DEF a2
<1>6. Applying(w, u0, d, b, e)
  <2> HIDE DEF u0, m
  <2>1. u0 = IF "constant" \in m THEN PutValue(a2, d, "constant", w.heap[b].value["constant"]) ELSE a2
    BY DEF u0
  <2> QED
    BY <1>3, <1>5, <2>1, ApplyValueStep
<1> HIDE DEF u0
<1>7. Applying(w, u1, d, b, e)
  <2> HIDE DEF u1, m
  <2>1. u1 = IF "stage" \in m THEN PutMarked(u0, d, "stage", w.heap[b].bound["stage"]) ELSE u0
    BY DEF u1
  <2> QED
    BY <1>3, <1>6, <2>1, ApplyStep
<1> HIDE DEF u1
<1>8. Applying(w, u2, d, b, e)
  <2> HIDE DEF u2, m
  <2>1. u2 = IF "stream" \in m THEN PutMarked(u1, d, "stream", w.heap[b].bound["stream"]) ELSE u1
    BY DEF u2
  <2> QED
    BY <1>3, <1>7, <2>1, ApplyStep
<1> HIDE DEF u2
<1>9. Applying(w, u3, d, b, e)
  <2> HIDE DEF u3, m
  <2>1. u3 = IF "shader" \in m THEN PutMarked(u2, d, "shader", w.heap[b].bound["shader"]) ELSE u2
    BY DEF u3
  <2> QED
    BY <1>3, <1>8, <2>1, ApplyStep
<1> HIDE DEF u3
<1>10. Applying(w, u4, d, b, e)
  <2> HIDE DEF u4, m
  <2>1. u4 = IF "declaration" \in m THEN PutMarked(u3, d, "declaration", w.heap[b].bound["declaration"]) ELSE u3
    BY DEF u4
  <2> QED
    BY <1>3, <1>9, <2>1, ApplyStep
<1> HIDE DEF u4
<1>11. Applying(w, u5, d, b, e)
  <2> HIDE DEF u5, m
  <2>1. u5 = IF "pixel" \in m THEN PutMarked(u4, d, "pixel", w.heap[b].bound["pixel"]) ELSE u4
    BY DEF u5
  <2> QED
    BY <1>3, <1>10, <2>1, ApplyStep
<1> HIDE DEF u5
<1>12. Applying(w, u6, d, b, e)
  <2> HIDE DEF u6, m
  <2>1. u6 = IF "format" \in m THEN PutValue(u5, d, "format", w.heap[b].value["format"]) ELSE u5
    BY DEF u6
  <2> QED
    BY <1>3, <1>11, <2>1, ApplyValueStep
<1> QED
  BY <1>1, <1>12, SMTT(30) DEF Applying, Done, Moved

-----------------------------------------------------------------------------
(* sb_copy *)

Copying(w, n, d, b, e) ==
  /\ Hands(n, d, e, {}) /\ Grows(w.heap, n.heap, d, None) /\ Path(w, n, d)
  /\ b \in Objects /\ e[b] > 0 /\ n.heap[b].kind = "block" /\ n.heap[b].dev = d
  /\ n.heap[d].bound = w.heap[d].bound /\ n.heap[d].value = w.heap[d].value

LEMMA CopyStep ==
  ASSUME NEW w, NEW n, NEW d, NEW b, NEW e, Copying(w, n, d, b, e), NEW s \in Content,
         NEW m, NEW v, v = IF s \in m THEN Bind(n, b, s, w.heap[d].bound[s]) ELSE n
  PROVE  Copying(w, v, d, b, e)
<1>1. CASE s \notin m
  BY <1>1, SMTT(30)
<1>2. CASE s \in m
  <2> DEFINE c == n.heap[d].bound[s]
  <2>1. /\ HeapOK(n.heap, e, {}) /\ n.heap \in Heaps /\ d \in Objects /\ n.heap[d].kind = "device"
        /\ b \in Objects /\ e[b] > 0 /\ n.heap[b].kind = "block" /\ n.heap[b].dev = d /\ b # d
        /\ Hands(n, d, e, {})
    BY HandsAre DEF Copying
  <2>2. v = Bind(n, b, s, c)
    BY <1>2 DEF Copying
  <2>3. HasSlots(n.heap, e, d, b)
    BY <2>1 DEF HasSlots
  <2>4. s \in Slots /\ c \in Handles /\ s # "target"
    BY <2>1, SlotFields, FieldTypes DEF Content
  <2>5. c # None => Fits(s, n.heap[c].kind) /\ n.heap[c].dev = d /\ Addable(n.heap, c)
    <3>1. Owner(n.heap, d) = d
      BY <2>1 DEF Owner
    <3> QED
      BY <2>1, <3>1, FitNamed
  <2> HIDE DEF c
  <2>6. MayBind(n.heap, d, b, s, c)
    BY <2>4, <2>5 DEF MayBind
  <2>7. Path(n, v, d) /\ HeapOK(v.heap, e, {}) /\ Rebinds(n.heap, v.heap, b, s, c)
    BY <2>1, <2>2, <2>3, <2>6, BindBinds, SMTT(30)
  <2>8. Hands(v, d, e, {}) /\ v.heap[d].kind = "device"
    BY <2>7, Zenon DEF Hands, Path, View
  <2>9. v.heap[d].bound = n.heap[d].bound /\ v.heap[d].value = n.heap[d].value
    BY <2>1, <2>7, <2>8, GoneIs, Zenon DEF Rebinds, Alike, Built
  <2>10. Grows(w.heap, v.heap, d, None)
    BY <2>7, RebindsGrows, GrowsTwice DEF Copying
  <2>11. Path(w, v, d)
    BY <2>7, PathTwice DEF Copying
  <2>12. v.heap[b].kind = "block" /\ v.heap[b].dev = d
    BY <2>1, <2>7, Zenon DEF Rebinds
  <2> QED
    BY <2>8, <2>9, <2>10, <2>11, <2>12, Zenon DEF Copying
<1> QED
  BY <1>1, <1>2

LEMMA CopyStateSets ==
  ASSUME NEW w, NEW d, NEW e, Hands(w, d, e, {}), NEW b \in Objects, e[b] > 0,
         w.heap[b].kind = "block", w.heap[b].dev = d, Shadows(w, d), NEW v, v = CopyState(w, d, b)
  PROVE  Done(w, v, d, e, None)
<1> DEFINE m == w.heap[b].marks
           c == w.heap[d].bound
           u1 == IF "stage" \in m THEN Bind(w, b, "stage", c["stage"]) ELSE w
           u2 == IF "stream" \in m THEN Bind(u1, b, "stream", c["stream"]) ELSE u1
           u3 == IF "shader" \in m THEN Bind(u2, b, "shader", c["shader"]) ELSE u2
           u4 == IF "declaration" \in m THEN Bind(u3, b, "declaration", c["declaration"]) ELSE u3
           u5 == IF "pixel" \in m THEN Bind(u4, b, "pixel", c["pixel"]) ELSE u4
<1>1. v = CopyValues(u5, d, b)
  BY Zenon DEF CopyState, EachSlot
<1>2. Copying(w, w, d, b, e)
  <2>1. View(w, d) /\ IsWorld(w) /\ w.heap \in Heaps
    BY HandsAre
  <2> QED
    BY <2>1, GrowsNone, StepsNone DEF Copying, Path, Keeps
<1>3. {"pixel", "declaration", "shader", "stream", "stage"} \subseteq Content
  BY DEF Content
<1>4. Copying(w, u1, d, b, e)
  <2> HIDE DEF u1, m
  <2>1. u1 = IF "stage" \in m THEN Bind(w, b, "stage", w.heap[d].bound["stage"]) ELSE w
    BY DEF u1
  <2> QED
    BY <1>2, <1>3, <2>1, CopyStep
<1> HIDE DEF u1
<1>5. Copying(w, u2, d, b, e)
  <2> HIDE DEF u2, m
  <2>1. u2 = IF "stream" \in m THEN Bind(u1, b, "stream", w.heap[d].bound["stream"]) ELSE u1
    BY DEF u2
  <2> QED
    BY <1>3, <1>4, <2>1, CopyStep
<1> HIDE DEF u2
<1>6. Copying(w, u3, d, b, e)
  <2> HIDE DEF u3, m
  <2>1. u3 = IF "shader" \in m THEN Bind(u2, b, "shader", w.heap[d].bound["shader"]) ELSE u2
    BY DEF u3
  <2> QED
    BY <1>3, <1>5, <2>1, CopyStep
<1> HIDE DEF u3
<1>7. Copying(w, u4, d, b, e)
  <2> HIDE DEF u4, m
  <2>1. u4 = IF "declaration" \in m THEN Bind(u3, b, "declaration", w.heap[d].bound["declaration"]) ELSE u3
    BY DEF u4
  <2> QED
    BY <1>3, <1>6, <2>1, CopyStep
<1> HIDE DEF u4
<1>8. Copying(w, u5, d, b, e)
  <2> HIDE DEF u5, m
  <2>1. u5 = IF "pixel" \in m THEN Bind(u4, b, "pixel", w.heap[d].bound["pixel"]) ELSE u4
    BY DEF u5
  <2> QED
    BY <1>3, <1>7, <2>1, CopyStep
<1> HIDE DEF u5
<1>9. Shadows(u5, d)
  BY <1>8, ShadowsKept DEF Copying, Path
<1> DEFINE k == [p \in States |-> IF p \in u5.heap[b].marks THEN u5.heap[d].value[p]
                                   ELSE u5.heap[b].value[p]]
<1>10. v = [u5 EXCEPT !.heap[b].value = k]
  BY <1>1 DEF CopyValues
<1>11. /\ u5.heap \in Heaps /\ u5.heap[b].kind = "block" /\ u5.heap[d].kind = "device"
       /\ Hands(u5, d, e, {}) /\ d \in Objects /\ b # d
  BY <1>8, HandsAre DEF Copying
<1>12. k \in [States -> Values]
  <2>1. u5.heap[b].value \in [States -> Values] /\ u5.heap[d].value \in [States -> Values]
    BY <1>11, FieldTypes
  <2> QED
    BY <2>1
<1> HIDE DEF k
<1>13. Hands(v, d, e, {}) /\ Path(u5, v, d) /\ Valued(u5.heap, v.heap, b, k)
  <2>1. u5.heap[b].kind # "none"
    BY <1>11
  <2>2. Hands(u5, d, e, {})
    BY <1>11
  <2> QED
    BY <1>10, <1>12, <2>1, <2>2, Revalued
<1>14. Shadows(v, d)
  <2>1. v.heap[d] = u5.heap[d]
    BY <1>11, <1>13 DEF Valued
  <2> QED
    BY <1>9, <1>13, <2>1, ShadowsKept DEF Path
<1>15. Grows(u5.heap, v.heap, d, None)
  BY <1>13, ValuedGrows
<1>16. Grows(w.heap, v.heap, d, None)
  BY <1>8, <1>15, GrowsTwice DEF Copying
<1> QED
  BY <1>13, <1>14, <1>16 DEF Done, Moved

-----------------------------------------------------------------------------
(* Reset *)

Clearing(w, n, d, e, S) ==
  /\ Hands(n, d, e, {}) /\ Grows(w.heap, n.heap, d, None) /\ e[d] > 0 /\ Path(w, n, d)
  /\ n.heap[d].value = w.heap[d].value
  /\ \A s \in S : n.heap[d].bound[s] = None

LEMMA ClearStep ==
  ASSUME NEW w, NEW n, NEW d, NEW e, NEW S, S \subseteq Slots, Clearing(w, n, d, e, S), NEW s \in Slots,
         NEW v, v = Bind(n, d, s, None)
  PROVE  Clearing(w, v, d, e, S \cup {s})
<1>1. /\ Hands(n, d, e, {}) /\ n.heap \in Heaps /\ d \in Objects /\ n.heap[d].kind = "device" /\ e[d] > 0
  BY HandsAre DEF Clearing
<1>2. HasSlots(n.heap, e, d, d)
  BY <1>1 DEF HasSlots
<1>3. MayBind(n.heap, d, d, s, None)
  BY <1>1 DEF MayBind, Handles
<1>4. Path(n, v, d) /\ HeapOK(v.heap, e, {}) /\ Rebinds(n.heap, v.heap, d, s, None)
  BY <1>1, <1>2, <1>3, BindBinds
<1>5. Hands(v, d, e, {})
  BY <1>4 DEF Hands, Path
<1>6. Grows(w.heap, v.heap, d, None)
  BY <1>4, RebindsGrows, GrowsTwice DEF Clearing
<1>7. \A z \in S \cup {s} : v.heap[d].bound[z] = None
  <2>1. v.heap[d].bound = [n.heap[d].bound EXCEPT ![s] = None]
    BY <1>4 DEF Rebinds
  <2>2. n.heap[d].bound \in [Slots -> Handles]
    BY <1>1, FieldTypes
  <2>3. \A z \in S : n.heap[d].bound[z] = None
    BY DEF Clearing
  <2> QED
    BY <2>1, <2>2, <2>3
<1>8. Path(w, v, d)
  BY <1>4, PathTwice DEF Clearing
<1>9. v.heap[d].value = w.heap[d].value
  BY <1>4 DEF Clearing, Rebinds
<1> QED
  BY <1>1, <1>5, <1>6, <1>7, <1>8, <1>9 DEF Clearing

LEMMA PartlyGrows ==
  ASSUME NEW w, NEW u, NEW d, NEW e, NEW n, Hands(w, d, e, {}), Partly(w, u, d, e, {})
  PROVE  Hands(u, d, e, {}) /\ Grows(w.heap, u.heap, d, n)
<1>1. View(u, d) /\ HeapOK(u.heap, e, {})
  BY DEF Partly
<1>2. /\ d \in Objects /\ u.heap[d].kind = "device" /\ w.heap[d].kind = "device"
      /\ Formed(u.heap[d]) /\ Formed(w.heap[d])
  BY <1>1, HandsAre DEF HeapOK, View
<1>3. u.heap[d].kind = w.heap[d].kind /\ u.heap[d].dev = w.heap[d].dev
  BY <1>2 DEF Formed
<1>4. \A k \in Objects : u.heap[k] = Gone \/ (u.heap[k].kind = w.heap[k].kind /\ u.heap[k].dev = w.heap[k].dev)
  BY <1>3 DEF Partly, Alike, Built
<1> QED
  BY <1>1, <1>4, SameGrows DEF Hands

LEMMA UnbindAllClears ==
  ASSUME NEW w, NEW d, NEW e, Hands(w, d, e, {}), e[d] > 0, NEW u, u = UnbindAll(w, d)
  PROVE  /\ Hands(u, d, e, {}) /\ Grows(w.heap, u.heap, d, None) /\ u.heap[d].bound = Unbound
         /\ u.heap[d].value = w.heap[d].value /\ Keeps(w, u)
<1> DEFINE u1 == Bind(w, d, "stage", None)
           u2 == Bind(u1, d, "stream", None)
           u3 == Bind(u2, d, "shader", None)
           u4 == Bind(u3, d, "declaration", None)
           u5 == Bind(u4, d, "pixel", None)
           u6 == Bind(u5, d, "target", None)
           S1 == {} \cup {"stage"}
           S2 == S1 \cup {"stream"}
           S3 == S2 \cup {"shader"}
           S4 == S3 \cup {"declaration"}
           S5 == S4 \cup {"pixel"}
           S6 == S5 \cup {"target"}
<1>1. u = DropBackBuffer(u6, d)
  BY DEF UnbindAll, EachSlot
<1>2. Clearing(w, w, d, e, {})
  <2>1. View(w, d) /\ IsWorld(w) /\ w.heap \in Heaps
    BY HandsAre
  <2> QED
    BY <2>1, GrowsNone, StepsNone DEF Clearing, Path, Keeps
<1>3. S6 = Slots /\ {} \subseteq Slots /\ S1 \subseteq Slots /\ S2 \subseteq Slots /\ S3 \subseteq Slots
      /\ S4 \subseteq Slots /\ S5 \subseteq Slots
      /\ {"pixel", "declaration", "shader", "stream", "stage", "target"} \subseteq Slots
  BY DEF Slots, Content
<1>4. Clearing(w, u1, d, e, S1)
  BY <1>2, <1>3, ClearStep
<1> HIDE DEF u1, S1
<1>5. Clearing(w, u2, d, e, S2)
  BY <1>3, <1>4, ClearStep
<1> HIDE DEF u2, S2
<1>6. Clearing(w, u3, d, e, S3)
  BY <1>3, <1>5, ClearStep
<1> HIDE DEF u3, S3
<1>7. Clearing(w, u4, d, e, S4)
  BY <1>3, <1>6, ClearStep
<1> HIDE DEF u4, S4
<1>8. Clearing(w, u5, d, e, S5)
  BY <1>3, <1>7, ClearStep
<1> HIDE DEF u5, S5
<1>9. Clearing(w, u6, d, e, S6)
  BY <1>3, <1>8, ClearStep
<1> HIDE DEF u6, S6
<1>10. /\ Hands(u6, d, e, {}) /\ Grows(w.heap, u6.heap, d, None)
       /\ \A s \in Slots : u6.heap[d].bound[s] = None
       /\ u6.heap[d].value = w.heap[d].value /\ Keeps(w, u6)
  BY <1>3, <1>9 DEF Clearing, Path
<1>11. Partly(u6, u, d, e, {}) /\ u.heap[d].bound = u6.heap[d].bound
  <2>1. Holding(u6.heap, e, {})
    BY DEF Holding
  <2> QED
    BY <1>1, <1>10, <2>1, DropBackBufferDrops
<1>12. Hands(u, d, e, {}) /\ Grows(u6.heap, u.heap, d, None)
  BY <1>10, <1>11, PartlyGrows
<1>13. u.heap[d].bound = Unbound
  <2>1. u6.heap \in Heaps /\ d \in Objects
    BY <1>10, HandsAre
  <2>2. u6.heap[d].bound \in [Slots -> Handles]
    BY <2>1, FieldTypes
  <2> QED
    BY <1>10, <1>11, <2>2 DEF Unbound
<1>14. u.heap[d].value = w.heap[d].value /\ Keeps(w, u)
  BY <1>10, <1>11, KeepsTwice DEF Partly
<1> QED
  BY <1>10, <1>12, <1>13, <1>14, GrowsTwice

(* A Reset that is refused leaves to the host what the DLL has unbound, *)
LEMMA LeftAgrees ==
  ASSUME NEW g, NEW h, NEW b, NEW v, Agree(g, b, v), h.bound = g.bound, h.value = g.value,
         h.apart = Left(g)
  PROVE  Agree(h, Unbound, v)
<1>1. \A p \in Slots \cup States : p \notin h.apart => p \notin g.apart
  BY DEF Left
<1>2. \A s \in Slots : s \notin h.apart => h.bound[s] = None /\ Unbound[s] = None
  BY DEF Left, Unbound
<1>3. \A p \in States \ {"format"} : p \notin h.apart => h.value[p] = v[p]
  BY <1>1 DEF Agree
<1>4. "declaration" \notin h.apart => h.value["format"] = v["format"]
  BY <1>1, PartNames DEF Agree
<1> QED
  BY <1>2, <1>3, <1>4, PartNames DEF Agree

(* and one that is done takes all but the constants back. *)
LEMMA DefaultsAgree ==
  ASSUME NEW g, NEW h, NEW b, NEW v \in [States -> Values], ~g.lost => Agree(g, b, v),
         h.bound = Unbound, h.value = Unset, h.apart = Kept(g)
  PROVE  Agree(h, Unbound, Cleared(v, States \ {"constant"}))
<1> DEFINE V == Cleared(v, States \ {"constant"})
<1>1. \A p \in States : V[p] = IF p = "constant" THEN v[p] ELSE 0
  BY ClearedIs
<1> HIDE DEF V
<1>2. \A p \in States : h.value[p] = 0
  BY DEF Unset
<1>3. "constant" \notin h.apart => v["constant"] = 0
  <2> SUFFICES ASSUME "constant" \notin h.apart PROVE v["constant"] = 0
    OBVIOUS
  <2>1. ~g.lost /\ "constant" \notin g.apart /\ g.value["constant"] = 0
    BY DEF Kept
  <2>2. "constant" \in States \ {"format"}
    BY PartNames
  <2> QED
    BY <2>1, <2>2 DEF Agree
<1>4. "format" # "constant"
  OBVIOUS
<1> QED
  BY <1>1, <1>2, <1>3, <1>4, PartNames DEF Agree, V

LEMMA ResetDone ==
  ASSUME NEW w, NEW d, NEW e, Hands(w, d, e, {}), e[d] > 0, Shadows(w, d), NEW how \in Outcomes,
         NEW v, v = TryReset(w, d, how)
  PROVE  Done(w, v, d, e, None)
<1> DEFINE u == UnbindAll(w, d)
           r == [op |-> "RESET_DEVICE", h |-> d, how |-> how]
           n == Sync(u, r)
           x == Tells(u)
           y == RunRecord(x, r)
           V == w.heap[d].value
           g == Tells(w).host
<1>1. /\ Hands(u, d, e, {}) /\ Grows(w.heap, u.heap, d, None) /\ u.heap[d].bound = Unbound
      /\ u.heap[d].value = V /\ Keeps(w, u)
  BY UnbindAllClears
<1>2. v = IF how = "ok" /\ n.status THEN Defaults(n, d) ELSE n
  BY DEF TryReset, SendCreate
<1> HIDE DEF u
<1>3. /\ View(u, d) /\ HeapOK(u.heap, e, {}) /\ Sound(u) /\ d \in Objects /\ u.heap \in Heaps
      /\ u.heap[d].kind = "device" /\ u.heap[d].named /\ x.host.dev = d
      /\ x.host.objs = Named(u.heap, d) /\ Ready(x)
  BY <1>1, HandsAre, SoundReady DEF View
<1>4. /\ x.host.bound = g.bound /\ x.host.value = g.value /\ x.host.lost = g.lost
      /\ x.host.apart = g.apart
  BY <1>1 DEF Keeps
<1>5. ~g.lost => Agree(g, w.heap[d].bound, V)
  BY DEF Shadows
<1>6. V \in [States -> Values]
  BY <1>1, <1>3, FieldTypes
<1> HIDE DEF x, g, V
<1>7. ~x.host.lost => Agree(x.host, w.heap[d].bound, V)
  BY <1>4, <1>5, AgreeSame
<1>8. /\ Ready(y) /\ y.host.dev = d /\ y.host.objs = Named(u.heap, d)
      /\ how = "ok" => /\ y.host.bound = Unbound /\ y.host.value = Unset /\ ~y.host.lost
                       /\ y.host.apart = Kept(x.host)
      /\ how = "refused" => /\ y.host.bound = x.host.bound /\ y.host.value = x.host.value
                            /\ y.host.lost = x.host.lost /\ y.host.apart = Left(x.host)
      /\ how = "failed" => y.host.lost
  <2>1. r.op = "RESET_DEVICE" /\ r.h = x.host.dev /\ r.how = how /\ x.host.dev # None
    BY <1>3 DEF Objects, None
  <2> HIDE DEF r
  <2>2. y = RunRecord(x, r)
    OBVIOUS
  <2> HIDE DEF y
  <2> QED
    BY <1>3, <2>1, <2>2, ResetRun
<1>9. Synced(u, n, y)
  <2>1. r # Doorbell
    BY DoorbellIs
  <2> HIDE DEF r
  <2> QED
    BY <1>3, <1>8, <2>1, Syncing DEF x
<1>10. Sound(n) /\ Tells(n) = y /\ n.heap = u.heap /\ n.status = TRUE
  BY <1>9 DEF Synced
<1> HIDE DEF n, y
<1>11. Hands(n, d, e, {})
  BY <1>3, <1>8, <1>10 DEF View, Hands
<1>12. n.heap[d].bound = Unbound /\ n.heap[d].value = V /\ Grows(w.heap, n.heap, d, None)
  BY <1>1, <1>10
<1>13. CASE how = "failed"
  <2>1. v = n /\ Tells(v).host.lost
    BY <1>2, <1>8, <1>10, <1>13
  <2> QED
    BY <1>11, <1>12, <2>1 DEF Done, Moved, Shadows
<1>14. CASE how = "refused"
  <2>1. v = n
    BY <1>2, <1>14
  <2>2. Shadows(v, d)
    <3> DEFINE h == y.host
    <3>1. ~h.lost => Agree(h, Unbound, V)
      <4>1. /\ h.bound = x.host.bound /\ h.value = x.host.value /\ h.lost = x.host.lost
            /\ h.apart = Left(x.host)
        BY <1>8, <1>14
      <4> HIDE DEF h
      <4> QED
        BY <1>7, <4>1, LeftAgrees
    <3> QED
      BY <1>10, <1>12, <2>1, <3>1 DEF Shadows
  <2> QED
    BY <1>11, <1>12, <2>1, <2>2 DEF Done, Moved
<1>15. CASE how = "ok"
  <2> DEFINE k == Cleared(V, States \ {"constant"})
  <2>1. v = [n EXCEPT !.heap[d].value = k]
    BY <1>2, <1>10, <1>12, <1>15 DEF Defaults
  <2>2. k \in [States -> Values]
    BY <1>6, ClearedIs
  <2>3. Agree(y.host, Unbound, k)
    <3>1. /\ y.host.bound = Unbound /\ y.host.value = Unset /\ y.host.apart = Kept(x.host)
      BY <1>8, <1>15
    <3> QED
      BY <1>6, <1>7, <3>1, DefaultsAgree
  <2> HIDE DEF k
  <2>4. Hands(v, d, e, {}) /\ Path(n, v, d) /\ Valued(n.heap, v.heap, d, k)
    <3>1. n.heap[d].kind # "none" /\ d \in Objects
      BY <1>3, <1>10
    <3> QED
      BY <1>11, <2>1, <2>2, <3>1, Revalued
  <2>5. v.heap[d].bound = Unbound /\ v.heap[d].value = k
    BY <1>12, <2>4 DEF Valued, Built
  <2>6. Shadows(v, d)
    <3> DEFINE h == Tells(v).host
               a == y.host
    <3>1. h.bound = a.bound /\ h.value = a.value /\ h.apart = a.apart
      BY <1>10, <2>4 DEF Path, Keeps
    <3>2. Agree(a, Unbound, k)
      BY <2>3
    <3> HIDE DEF a, h
    <3>3. Agree(h, Unbound, k)
      BY <3>1, <3>2, AgreeSame
    <3> QED
      BY <2>5, <3>3 DEF Shadows, h
  <2>7. Grows(w.heap, v.heap, d, None)
    BY <1>3, <1>12, <2>4, ValuedGrows, GrowsTwice
  <2> QED
    BY <2>4, <2>6, <2>7 DEF Done, Moved
<1> QED
  BY <1>13, <1>14, <1>15 DEF Outcomes

-----------------------------------------------------------------------------
(* What is created *)

LEMMA Changing ==
  ASSUME NEW w, IsWorld(w), w.heap \in Heaps, NEW h \in Objects, NEW o \in ObjectType
  PROVE  /\ Writes(w, [w EXCEPT !.heap[h] = o])
         /\ Gets(w.heap, [w EXCEPT !.heap[h] = o].heap, h, o)
<1> DEFINE G == [w.heap EXCEPT ![h] = o]
           v == [w EXCEPT !.heap[h] = o]
<1>1. v = [w EXCEPT !.heap = G]
  OBVIOUS
<1>2. Gets(w.heap, G, h, o)
  BY Getting
<1> HIDE DEF G, v
<1>3. Writes(w, v) /\ v.heap = G
  <2>1. Writes(w, [w EXCEPT !.heap = G]) /\ [w EXCEPT !.heap = G].heap = G
    BY Writing
  <2> QED
    BY <1>1, <2>1
<1> QED
  BY <1>2, <1>3 DEF v

(* The object a handle is taken for. *)
Rec(kind, d) == [Gone EXCEPT !.kind = kind, !.ref = 1, !.dev = d, !.named = TRUE]

LEMMA RecIs ==
  ASSUME NEW kind \in {"level", "backbuffer"} \cup Kinds, NEW d \in Objects
  PROVE  LET o == Rec(kind, d) IN
         /\ o \in ObjectType /\ o.kind = kind /\ o.ref = 1 /\ o.dev = d /\ o.named
         /\ o.peer = None /\ o.bound = Unbound /\ o.value = Unset /\ o.marks = {} /\ o.recording = None
<1>1. Gone \in ObjectType
  BY GoneIs
<1>2. d \in Handles
  BY DEF Handles
<1>3. Rec(kind, d) \in ObjectType
  BY <1>1, <1>2, Zenon DEF Rec, ObjectType
<1> QED
  BY <1>3 DEF Rec, Gone

(* A handle taken, and one more reference on the device. *)
TakesHandle(H, G, h, o, d) ==
  /\ G \in Heaps /\ G[h] = o /\ G[d].ref = H[d].ref + 1 /\ Alike(H[d], G[d])
  /\ \A k \in Objects \ {h, d} : G[k] = H[k]

LEMMA MakeMakes ==
  ASSUME NEW w, IsWorld(w), w.heap \in Heaps, NEW h \in Objects, NEW d \in Objects, h # d,
         NEW kind \in {"level", "backbuffer"} \cup Kinds, NEW v, v = Make(w, h, kind, d)
  PROVE  Writes(w, v) /\ TakesHandle(w.heap, v.heap, h, Rec(kind, d), d)
<1> DEFINE u == [w EXCEPT !.heap[h] = Rec(kind, d)]
<1>1. v = Raise(u, d)
  BY Zenon DEF Make, Raise, Rec
<1>2. Writes(w, u) /\ Gets(w.heap, u.heap, h, Rec(kind, d))
  BY RecIs, Changing, Zenon
<1> HIDE DEF u
<1>3. IsWorld(u) /\ u.heap \in Heaps
  BY <1>2 DEF Writes, Gets
<1>4. Writes(u, v) /\ Counts(u.heap, v.heap, d, u.heap[d].ref + 1)
  BY <1>1, <1>3, Raised
<1>5. Writes(w, v)
  BY <1>2, <1>4 DEF Writes
<1>6. TakesHandle(w.heap, v.heap, h, Rec(kind, d), d)
  <2>1. u.heap[d] = w.heap[d] /\ u.heap[h] = Rec(kind, d) /\ \A k \in Objects \ {h} : u.heap[k] = w.heap[k]
    BY <1>2 DEF Gets
  <2> QED
    BY <1>4, <2>1 DEF Counts, TakesHandle
<1> QED
  BY <1>5, <1>6

LEMMA UnnameGets ==
  ASSUME NEW w, IsWorld(w), w.heap \in Heaps, NEW h \in Objects, NEW v, v = Unname(w, h)
  PROVE  Writes(w, v) /\ Gets(w.heap, v.heap, h, [w.heap[h] EXCEPT !.named = FALSE])
<1>1. v = [w EXCEPT !.heap[h] = [w.heap[h] EXCEPT !.named = FALSE]]
  BY DEF Unname
<1>2. [w.heap[h] EXCEPT !.named = FALSE] \in ObjectType
  <2>1. w.heap[h] \in ObjectType
    BY FieldTypes
  <2> QED
    BY <2>1, Zenon DEF ObjectType
<1> DEFINE o == [w.heap[h] EXCEPT !.named = FALSE]
           y == [w EXCEPT !.heap[h] = o]
<1>3. v = y /\ o \in ObjectType
  BY <1>1, <1>2
<1> HIDE DEF o
<1>4. Writes(w, y) /\ Gets(w.heap, y.heap, h, o)
  BY <1>3, Changing
<1> HIDE DEF y
<1> QED
  BY <1>3, <1>4 DEF o

(* The references there are then: the program's on what it has asked for. *)
LEMMA MadeWith ==
  ASSUME NEW H, NEW e, HeapOK(H, e, {}), NEW h \in Objects, H[h].kind = "none", NEW d \in Objects,
         H[d].kind = "device", NEW o, o.dev = d, o.kind # "backbuffer", o.kind # "device",
         NEW g \in [Objects -> Nat], g[h] = o.ref, \A k \in Objects \ {h} : g[k] = e[k],
         NEW G, TakesHandle(H, G, h, o, d), NewObject(H, o)
  PROVE  HeapOK(G, g, {})
<1> DEFINE f == Plus(e, d)
           m == H[d].ref + 1
           K == [H EXCEPT ![d].ref = m]
<1>1. /\ H \in Heaps /\ e \in [Objects -> Nat] /\ h # d /\ H[d].ref \in Nat
  BY FieldTypes DEF HeapOK
<1>2. m \in Nat /\ m = H[d].ref + 1
  BY <1>1
<1> HIDE DEF m
<1>3. Counts(H, K, d, m)
  BY <1>1, <1>2, Counting1
<1> HIDE DEF K
<1>4. f \in [Objects -> Nat] /\ \A k \in Objects : f[k] = (IF k = d THEN e[k] + 1 ELSE e[k])
  BY <1>1, PlusIs
<1> HIDE DEF f
<1>6. HeapOK(K, f, {})
  <2>1. m + e[d] = f[d] + H[d].ref /\ \A k \in Objects \ {d} : f[k] = e[k]
    <3>1. e[d] \in Nat /\ f[d] = e[d] + 1
      BY <1>1, <1>4
    <3> QED
      BY <1>1, <1>2, <1>4, <3>1
  <2> QED
    BY <1>2, <1>3, <1>4, <2>1, Recounted
<1>7. Gets(K, G, h, o)
  <2>1. \A k \in Objects \ {h, d} : G[k] = K[k]
    BY <1>3 DEF Counts, TakesHandle
  <2>2. G[d] = K[d]
    <3>1. G \in Heaps /\ K \in Heaps /\ G[d].ref = K[d].ref /\ Alike(G[d], K[d])
      BY <1>2, <1>3 DEF Counts, TakesHandle, Alike, Built
    <3>2. G[d] \in ObjectType /\ K[d] \in ObjectType
      BY <3>1, FieldTypes
    <3> QED
      BY <3>1, <3>2 DEF ObjectType, Alike, Built
  <2> QED
    BY <2>1, <2>2 DEF TakesHandle, Gets
<1>8. NewObject(K, o)
  BY <1>1, <1>3 DEF NewObject, Counts, Alike, Built
<1>9. MadeRefs(h, o, f, g)
  <2>1. Link(o, "dev") = d
    BY DEF Link
  <2>4. ASSUME NEW k \in Objects \ {h}
        PROVE  g[k] + Is(k, d) = f[k]
    <3>1. e[k] \in Nat /\ g[k] = e[k]
      BY <1>1
    <3> QED
      BY <1>4, <3>1 DEF Is
  <2> QED
    BY <2>1, <2>4 DEF MadeRefs
<1>10. K[h].kind = "none"
  BY <1>1, <1>3 DEF Counts
<1> QED
  BY <1>6, <1>7, <1>8, <1>9, <1>10, Made

LEMMA MadeHeap ==
  ASSUME NEW H, NEW e, HeapOK(H, e, {}), NEW h \in Objects, H[h].kind = "none", NEW d \in Objects,
         H[d].kind = "device", NEW o, o.dev = d, o.ref = 1, o.kind # "backbuffer", o.kind # "device",
         NEW G, TakesHandle(H, G, h, o, d), NewObject(H, o)
  PROVE  HeapOK(G, Plus(e, h), {})
<1>1. e \in [Objects -> Nat]
  BY DEF HeapOK
<1>2. e[h] = 0
  <2>1. H[h].ref \in Nat /\ e[h] \in Nat /\ (e[h] > 0 => H[h].kind # "none")
    BY Counting
  <2> QED
    BY <2>1
<1>3. /\ Plus(e, h) \in [Objects -> Nat] /\ Plus(e, h)[h] = o.ref
      /\ \A k \in Objects \ {h} : Plus(e, h)[k] = e[k]
  BY <1>1, <1>2, PlusIs
<1> QED
  BY <1>3, MadeWith

(* The host is asked for an object, and gives it or does not. *)
Asked(w, d, h, ok, n) ==
  /\ Sound(n) /\ n.status = TRUE /\ Tells(n).host.dev = d /\ Keeps(w, n)
  /\ ok => Tells(n).host.objs = Named(w.heap, d) \cup {h}
  /\ ~ok => Tells(n).host.objs = Named(w.heap, d)

LEMMA SyncsCreate ==
  ASSUME NEW w, NEW d, View(w, d), NEW x, Sound(x), Tells(x) = Tells(w), NEW h \in Objects,
         h \notin Named(w.heap, d), NEW ok \in BOOLEAN, NEW r, r.op \in {"CREATE", "GET_SURFACE"},
         r.h = h, r.ok = ok, r.op = "GET_SURFACE" => r.of = None \/ r.of \in Named(w.heap, d),
         NEW n, n = Sync(x, r)
  PROVE  Asked(w, d, h, ok, n) /\ n.heap = x.heap
<1> DEFINE y == RunRecord(Tells(x), r)
<1>1. /\ Ready(Tells(x)) /\ Tells(x).host.dev = d /\ Tells(x).host.objs = Named(w.heap, d)
      /\ d # None
  BY SoundReady DEF View, Objects, None
<1>2. /\ Ready(y)
      /\ ok => HostAdds(Tells(x).host, y.host, h)
      /\ ~ok => y = Tells(x)
  <2>1. y = RunRecord(Tells(x), r)
    OBVIOUS
  <2> HIDE DEF y
  <2>2. r.op = "GET_SURFACE" => r.of = None \/ r.of \in Tells(x).host.objs
    BY <1>1
  <2>3. r.h \in Objects /\ r.h \notin Tells(x).host.objs /\ r.ok \in BOOLEAN
    BY <1>1
  <2> QED
    BY <1>1, <2>1, <2>2, <2>3, CreateRun
<1>3. r # Doorbell
  BY DoorbellIs
<1>4. Synced(x, n, y)
  BY <1>2, <1>3, Syncing
<1>5. Sound(n) /\ Tells(n) = y /\ n.heap = x.heap /\ n.status = TRUE
  BY <1>4 DEF Synced
<1> HIDE DEF y
<1> QED
  BY <1>1, <1>2, <1>5 DEF Asked, Keeps, HostAdds

(* A call that may fail, with the handle h and the references e before it. *)
Gives(w, t, d, e, h) ==
  /\ t.done => Done(w, t.w, d, Plus(e, h), h)
  /\ ~t.done => Done(w, t.w, d, e, h)

LEMMA NoneIs ==
  ASSUME NEW H, NEW e, NEW X, HeapOK(H, e, X), NEW h \in Objects, H[h].kind = "none"
  PROVE  H[h] = Gone /\ H[h].dev = None /\ H[h].ref = 0 /\ e[h] = 0 /\ \A d : h \notin Named(H, d)
<1>1. H[h] = Gone
  BY DEF HeapOK, Formed
<1>2. e[h] = 0
  <2>1. H[h].ref \in Nat /\ e[h] \in Nat /\ (e[h] > 0 => H[h].kind # "none")
    BY Counting
  <2> QED
    BY <2>1
<1> QED
  BY <1>1, <1>2 DEF Gone, Named

(* The name the DLL has given it is the host's, too. *)
LEMMA MadeNamed ==
  ASSUME NEW w, NEW d, NEW e, Hands(w, d, e, {}), NEW h \in Objects, w.heap[h].kind = "none",
         NEW o, o.dev = d, NEW G, TakesHandle(w.heap, G, h, o, d)
  PROVE  /\ h # d /\ G[d].kind = "device" /\ G[d].named
         /\ o.named => Named(G, d) = Named(w.heap, d) \cup {h}
         /\ ~o.named => Named(G, d) = Named(w.heap, d)
         /\ o.kind # "device" => Grows(w.heap, G, d, h)
<1>1. /\ HeapOK(w.heap, e, {}) /\ d \in Objects /\ w.heap[d].kind = "device" /\ w.heap[d].named
  BY HandsAre
<1>2. h # d /\ h \notin Named(w.heap, d)
  BY <1>1, NoneIs
<1>3. \A k \in Objects \ {h} : G[k].named = w.heap[k].named /\ G[k].dev = w.heap[k].dev /\ G[k].kind = w.heap[k].kind
  BY DEF TakesHandle, Alike, Built
<1>4. G[h] = o
  BY DEF TakesHandle
<1>5. o.named => Named(G, d) = Named(w.heap, d) \cup {h}
  BY <1>2, <1>3, <1>4 DEF Named
<1>6. ~o.named => Named(G, d) = Named(w.heap, d)
  BY <1>2, <1>3, <1>4 DEF Named
<1>7. o.kind # "device" => Grows(w.heap, G, d, h)
  BY <1>3, <1>4 DEF Grows
<1> QED
  BY <1>1, <1>2, <1>3, <1>5, <1>6, <1>7

LEMMA NewBlockMade ==
  ASSUME NEW w, NEW d, NEW e, Hands(w, d, e, {}), NEW h \in Objects, w.heap[h].kind = "none",
         NEW kind \in {"memory", "block"}, NEW v, v = Unname(Make(w, h, kind, d), h)
  PROVE  /\ Moved(w, v, d, Plus(e, h), h) /\ (Shadows(w, d) => Shadows(v, d))
         /\ v.heap[h].kind = kind /\ v.heap[h].dev = d /\ h # d
         /\ v.heap[d].bound = w.heap[d].bound /\ v.heap[d].value = w.heap[d].value
         /\ v.heap[d].recording = w.heap[d].recording
<1> DEFINE x == Make(w, h, kind, d)
           r == Rec(kind, d)
           o == [r EXCEPT !.named = FALSE]
<1>1. /\ HeapOK(w.heap, e, {}) /\ View(w, d) /\ w.heap \in Heaps /\ IsWorld(w) /\ d \in Objects
      /\ w.heap[d].kind = "device"
  BY HandsAre
<1>2. h # d
  BY <1>1
<1>3. Writes(w, x) /\ TakesHandle(w.heap, x.heap, h, r, d)
  <2>1. kind \in {"level", "backbuffer"} \cup Kinds
    BY DEF Kinds
  <2> QED
    BY <1>1, <1>2, <2>1, MakeMakes
<1>4. v = Unname(x, h)
  OBVIOUS
<1> HIDE DEF x
<1>5. IsWorld(x) /\ x.heap \in Heaps /\ x.heap[h] = r
  BY <1>3 DEF Writes, TakesHandle
<1>6. /\ r \in ObjectType /\ r.kind = kind /\ r.ref = 1 /\ r.dev = d /\ r.peer = None
      /\ r.bound = Unbound /\ r.recording = None
  <2>1. kind \in {"level", "backbuffer"} \cup Kinds
    BY DEF Kinds
  <2> QED
    BY <1>1, <2>1, RecIs
<1> HIDE DEF r
<1>7. /\ o \in ObjectType /\ o.kind = kind /\ o.ref = 1 /\ o.dev = d /\ o.peer = None
      /\ o.bound = Unbound /\ o.recording = None /\ ~o.named
  BY <1>6, Zenon DEF ObjectType
<1>8. Writes(x, v) /\ Gets(x.heap, v.heap, h, o)
  BY <1>4, <1>5, UnnameGets
<1> HIDE DEF o
<1>9. TakesHandle(w.heap, v.heap, h, o, d)
  <2>1. v.heap \in Heaps /\ v.heap[h] = o /\ \A k \in Objects \ {h} : v.heap[k] = x.heap[k]
    BY <1>8 DEF Gets
  <2>2. /\ x.heap[d].ref = w.heap[d].ref + 1 /\ Alike(w.heap[d], x.heap[d])
        /\ \A k \in Objects \ {h, d} : x.heap[k] = w.heap[k]
    BY <1>3 DEF TakesHandle
  <2>3. v.heap[d] = x.heap[d]
    BY <1>1, <1>2, <2>1
  <2>4. \A k \in Objects \ {h, d} : v.heap[k] = w.heap[k]
    BY <2>1, <2>2
  <2> QED
    BY <2>1, <2>2, <2>3, <2>4 DEF TakesHandle
<1>10. Writes(w, v)
  BY <1>3, <1>8 DEF Writes
<1>11. NewObject(w.heap, o)
  <2>1. Formed(o)
    <3>1. \A s \in Slots : Unbound[s] = None
      BY DEF Unbound
    <3> QED
      BY <1>1, <1>7, <3>1, SlotFields DEF Formed, Hosted, Plain, Objects, None
  <2> QED
    BY <1>1, <1>7, <2>1 DEF NewObject
<1>12. HeapOK(v.heap, Plus(e, h), {})
  <2>1. o.kind # "backbuffer" /\ o.kind # "device"
    BY <1>7
  <2> QED
    BY <1>1, <1>7, <1>9, <1>11, <2>1, MadeHeap
<1>13. /\ v.heap[d].kind = "device" /\ v.heap[d].named /\ Named(v.heap, d) = Named(w.heap, d)
       /\ Grows(w.heap, v.heap, d, h)
  <2>1. o.kind # "device"
    BY <1>7
  <2> QED
    BY <1>7, <1>9, <2>1, MadeNamed
<1>14. View(v, d) /\ Steps(w, v) /\ Keeps(w, v)
  BY <1>1, <1>10, <1>13, ViewWrites
<1>15. /\ v.heap[d].bound = w.heap[d].bound /\ v.heap[d].value = w.heap[d].value
       /\ v.heap[d].recording = w.heap[d].recording /\ v.heap[h] = o
  BY <1>9 DEF TakesHandle, Alike, Built
<1> QED
  BY <1>2, <1>7, <1>12, <1>13, <1>14, <1>15, ShadowsKept DEF Moved, Hands

(* What a call that failed has made is freed, and with it a reference to   *)
(* the device.                                                             *)
LEMMA TakenBack ==
  ASSUME NEW w, NEW d, NEW e, Hands(w, d, e, {}), e[d] > 0, Shadows(w, d), NEW y, Sound(y),
         Tells(y).host.dev = d, Tells(y).host.objs = Named(w.heap, d), Keeps(w, y),
         Counts(w.heap, y.heap, d, w.heap[d].ref + 1), NEW v, v = DropDevice(y, d), NEW h
  PROVE  Done(w, v, d, e, h)
<1> DEFINE f == Plus(e, d)
<1>1. /\ HeapOK(w.heap, e, {}) /\ w.heap \in Heaps /\ e \in [Objects -> Nat] /\ d \in Objects
      /\ w.heap[d].kind = "device" /\ w.heap[d].named
  BY HandsAre
<1>2. Less(f, d) = e /\ f[d] > 0 /\ f \in [Objects -> Nat]
  BY <1>1, PlusLess
<1>3. \A o \in Objects : Alike(w.heap[o], y.heap[o]) /\ Built(w.heap[o], y.heap[o])
  BY <1>1, CountsAlike, Zenon
<1>4. HeapOK(y.heap, f, {})
  <2> DEFINE m == w.heap[d].ref + 1
  <2>1. m \in Nat /\ w.heap[d].ref \in Nat /\ m = w.heap[d].ref + 1
    BY <1>1, FieldTypes
  <2>2. f[d] = e[d] + 1 /\ \A k \in Objects \ {d} : f[k] = e[k]
    BY <1>1, PlusIs
  <2>3. m + e[d] = f[d] + w.heap[d].ref
    BY <1>1, <2>1, <2>2
  <2> HIDE DEF m, f
  <2>4. Counts(w.heap, y.heap, d, m)
    BY DEF m
  <2> QED
    BY <1>1, <1>2, <2>1, <2>2, <2>3, <2>4, Recounted
<1> HIDE DEF f
<1>5. Hands(y, d, f, {})
  <2>1. Named(y.heap, d) = Named(w.heap, d)
    BY <1>3, NamedSame DEF Built
  <2>2. y.heap[d].kind = "device" /\ y.heap[d].named
    BY <1>1, <1>3 DEF Built
  <2> QED
    BY <1>1, <1>4, <2>1, <2>2 DEF Hands, View
<1>6. Held(y.heap, f, {}, d)
  BY DEF Held, Holding
<1>7. Drops(y, v, d, e, {})
  BY <1>2, <1>5, <1>6, DropDeviceDrops
<1>8. HeapOK(v.heap, e, {}) /\ Frame(y.heap, v.heap)
  BY <1>7 DEF Drops
<1>9. Alike(y.heap[d], v.heap[d])
  BY <1>1, <1>8, AliveAlike
<1>10. v.heap[d].kind = "device"
  BY <1>1, <1>3, <1>9 DEF Alike, Built
<1>11. Hands(v, d, e, {}) /\ Keeps(y, v)
  BY <1>7, <1>10, DropsDevice DEF Drops
<1>12. Grows(w.heap, v.heap, d, h)
  <2>1. Grows(w.heap, y.heap, d, h)
    BY <1>3, BuiltGrows
  <2>2. Grows(y.heap, v.heap, d, h)
    BY <1>8, FrameGrows
  <2> QED
    BY <2>1, <2>2, GrowsTwice
<1>13. Shadows(v, d)
  <2>1. v.heap[d].bound = w.heap[d].bound /\ v.heap[d].value = w.heap[d].value
    BY <1>1, <1>3, <1>9 DEF Alike, Built
  <2>2. Keeps(w, v)
    BY <1>11, KeepsTwice
  <2> QED
    BY <2>1, <2>2, ShadowsKept
<1> QED
  BY <1>11, <1>12, <1>13 DEF Done, Moved

Created == Plain \cup {"texture", "surface"}

LEMMA CreatedNew ==
  ASSUME NEW kind \in Created, NEW d \in Objects, NEW H, H[d].kind = "device"
  PROVE  /\ NewObject(H, Rec(kind, d)) /\ Rec(kind, d).dev = d /\ Rec(kind, d).ref = 1
         /\ Rec(kind, d).named /\ Rec(kind, d).kind \notin {"backbuffer", "device"}
         /\ Rec(kind, d).kind = kind /\ kind \in {"level", "backbuffer"} \cup Kinds
<1> DEFINE o == Rec(kind, d)
<1>1. kind \in {"level", "backbuffer"} \cup Kinds
  BY DEF Created, Plain, Kinds
<1>2. /\ o \in ObjectType /\ o.kind = kind /\ o.ref = 1 /\ o.dev = d /\ o.named
      /\ o.peer = None /\ o.bound = Unbound /\ o.value = Unset /\ o.marks = {} /\ o.recording = None
  BY <1>1, RecIs, Zenon
<1> HIDE DEF o
<1>3. kind \notin {"none", "device", "level", "backbuffer", "memory", "block"}
  BY DEF Created, Plain
<1>4. d # None
  BY DEF Objects, None
<1>5. Formed(o)
  BY <1>2, <1>3, <1>4 DEF Formed
<1>6. NewObject(H, o)
  BY <1>2, <1>3, <1>5 DEF NewObject
<1> QED
  BY <1>1, <1>2, <1>3, <1>6 DEF o

LEMMA CreateGives ==
  ASSUME NEW w, NEW d, NEW e, Hands(w, d, e, {}), e[d] > 0, Shadows(w, d), NEW h \in Objects,
         w.heap[h].kind = "none", NEW kind \in Created, NEW ok \in BOOLEAN,
         NEW t, t = TryCreate(w, h, kind, d, ok)
  PROVE  Gives(w, t, d, e, h)
<1> DEFINE x == Make(w, h, kind, d)
           r == [op |-> "CREATE", h |-> h, ok |-> ok]
           n == Sync(x, r)
           o == Rec(kind, d)
<1>1. /\ HeapOK(w.heap, e, {}) /\ View(w, d) /\ w.heap \in Heaps /\ IsWorld(w) /\ d \in Objects
      /\ w.heap[d].kind = "device" /\ e \in [Objects -> Nat] /\ Sound(w)
  BY HandsAre
<1>2. h # d
  BY <1>1
<1>3. /\ t.done = (ok /\ n.status) /\ (t.done => t.w = n)
      /\ (~t.done => t.w = DropDevice(Free(n, h), n.heap[h].dev))
  BY Zenon DEF TryCreate, Tried, FreeObject
<1>4. /\ NewObject(w.heap, o) /\ o.dev = d /\ o.ref = 1 /\ o.named /\ o.kind \notin {"backbuffer", "device"}
      /\ kind \in {"level", "backbuffer"} \cup Kinds
  BY <1>1, CreatedNew
<1>5. Writes(w, x) /\ TakesHandle(w.heap, x.heap, h, o, d)
  BY <1>1, <1>2, <1>4, MakeMakes, Zenon
<1>6. r.op = "CREATE" /\ r.h = h /\ r.ok = ok
  OBVIOUS
<1> HIDE DEF x, o, r
<1>7. Sound(x) /\ Tells(x) = Tells(w)
  BY <1>1, <1>5, WriteSound
<1>8. Asked(w, d, h, ok, n) /\ n.heap = x.heap
  <2>1. h \notin Named(w.heap, d)
    BY <1>1, NoneIs
  <2>2. n = Sync(x, r)
    OBVIOUS
  <2> HIDE DEF n
  <2> QED
    BY <1>1, <1>6, <1>7, <2>1, <2>2, SyncsCreate
<1> HIDE DEF n
<1>9. /\ x.heap[d].kind = "device" /\ x.heap[d].named /\ Named(x.heap, d) = Named(w.heap, d) \cup {h}
      /\ Grows(w.heap, x.heap, d, h)
  BY <1>4, <1>5, MadeNamed
<1>10. n.status = TRUE /\ Sound(n) /\ Tells(n).host.dev = d /\ Keeps(w, n)
  BY <1>8 DEF Asked
<1>11. ASSUME ok
       PROVE  t.done /\ Done(w, t.w, d, Plus(e, h), h)
  <2>1. t.done /\ t.w = n
    BY <1>3, <1>10, <1>11, Zenon
  <2>2. HeapOK(n.heap, Plus(e, h), {})
    BY <1>1, <1>4, <1>5, <1>8, MadeHeap
  <2>3. View(n, d)
    BY <1>1, <1>8, <1>9, <1>10, <1>11 DEF View, Asked
  <2>4. Shadows(n, d)
    <3>1. n.heap[d].bound = w.heap[d].bound /\ n.heap[d].value = w.heap[d].value
      BY <1>5, <1>8 DEF TakesHandle, Alike, Built
    <3> QED
      BY <1>10, <3>1, ShadowsKept
  <2> QED
    BY <1>8, <1>9, <2>1, <2>2, <2>3, <2>4 DEF Done, Moved, Hands
<1>12. ASSUME ~ok
       PROVE  ~t.done /\ Done(w, t.w, d, e, h)
  <2> DEFINE y == Free(n, h)
  <2>1. ~t.done /\ t.w = DropDevice(y, d)
    <3>1. n.heap[h].dev = d
      BY <1>4, <1>5, <1>8 DEF TakesHandle
    <3> QED
      BY <1>3, <1>12, <3>1
  <2>2. IsWorld(n) /\ n.heap \in Heaps
    BY <1>5, <1>8, <1>10 DEF Sound, TakesHandle
  <2>3. Writes(n, y) /\ Gets(n.heap, y.heap, h, Gone)
    BY <2>2, Changing, GoneIs DEF Free
  <2> HIDE DEF y
  <2>4. Sound(y) /\ Tells(y) = Tells(n)
    BY <1>10, <2>3, WriteSound
  <2>5. Counts(w.heap, y.heap, d, w.heap[d].ref + 1)
    <3>1. w.heap[h] = Gone
      BY <1>1, NoneIs
    <3>2. y.heap \in Heaps /\ y.heap[h] = w.heap[h] /\ \A k \in Objects \ {h} : y.heap[k] = x.heap[k]
      BY <1>8, <2>3, <3>1 DEF Gets
    <3>3. /\ x.heap[d].ref = w.heap[d].ref + 1 /\ Alike(w.heap[d], x.heap[d])
          /\ \A k \in Objects \ {h, d} : x.heap[k] = w.heap[k]
      BY <1>5 DEF TakesHandle
    <3>4. y.heap[d] = x.heap[d]
      BY <1>1, <1>2, <3>2
    <3>5. \A k \in Objects \ {d} : y.heap[k] = w.heap[k]
      BY <3>2, <3>3
    <3> QED
      BY <3>2, <3>3, <3>4, <3>5 DEF Counts
  <2>6. Tells(y).host.dev = d /\ Tells(y).host.objs = Named(w.heap, d) /\ Keeps(w, y)
    BY <1>8, <1>12, <2>4 DEF Asked, Keeps
  <2> QED
    BY <2>1, <2>4, <2>5, <2>6, TakenBack
<1> QED
  BY <1>11, <1>12 DEF Gives

LEMMA DoneAfter ==
  ASSUME NEW u, NEW v, NEW w, NEW d, NEW e, NEW f, NEW n, Moved(u, v, d, e, n), Done(v, w, d, f, None)
  PROVE  Done(u, w, d, f, n)
<1>1. Moved(v, w, d, f, n) /\ Shadows(w, d)
  BY GrowsMore DEF Done, Moved
<1> QED
  BY <1>1, MovedTwice DEF Done

(* A surface in system memory *)
LEMMA MemoryDone ==
  ASSUME NEW w, NEW d, NEW e, Hands(w, d, e, {}), Shadows(w, d), NEW h \in Objects,
         w.heap[h].kind = "none", NEW v, v = Unname(Make(w, h, "memory", d), h)
  PROVE  Done(w, v, d, Plus(e, h), h)
<1>1. Moved(w, v, d, Plus(e, h), h) /\ Shadows(v, d)
  BY NewBlockMade
<1> QED
  BY <1>1 DEF Done

(* CreateStateBlock *)
LEMMA CreateBlockDone ==
  ASSUME NEW w, NEW d, NEW e, Hands(w, d, e, {}), Shadows(w, d), NEW h \in Objects,
         w.heap[h].kind = "none", NEW M \in SUBSET Parts,
         NEW v, v = CopyState([Unname(Make(w, h, "block", d), h) EXCEPT !.heap[h].marks = M], d, h)
  PROVE  Done(w, v, d, Plus(e, h), h)
<1> DEFINE x == Unname(Make(w, h, "block", d), h)
           o == [x.heap[h] EXCEPT !.marks = M]
           y == [x EXCEPT !.heap[h] = o]
           f == Plus(e, h)
<1>1. v = CopyState(y, d, h)
  OBVIOUS
<1>2. /\ Moved(w, x, d, f, h) /\ Shadows(x, d) /\ x.heap[h].kind = "block" /\ x.heap[h].dev = d /\ h # d
  BY NewBlockMade
<1> HIDE DEF x
<1>3. Hands(x, d, f, {})
  BY <1>2 DEF Moved
<1>4. e \in [Objects -> Nat] /\ d \in Objects
  BY HandsAre
<1>5. f[h] > 0
  BY <1>4, PlusLess
<1> HIDE DEF f
<1>6. IsWorld(x) /\ x.heap \in Heaps
  BY <1>3, HandsAre
<1>7. o \in ObjectType /\ Built(x.heap[h], o) /\ o.ref = x.heap[h].ref /\ o.kind = "block" /\ o.dev = d
  <2>1. x.heap[h] \in ObjectType
    BY <1>6, FieldTypes
  <2> QED
    BY <1>2, <2>1 DEF ObjectType, Built
<1> HIDE DEF o
<1>8. Writes(x, y) /\ Gets(x.heap, y.heap, h, o)
  BY <1>6, <1>7, Changing
<1> HIDE DEF y
<1>9. y.heap \in Heaps /\ y.heap[h] = o /\ \A k \in Objects \ {h} : y.heap[k] = x.heap[k]
  BY <1>8 DEF Gets
<1>10. \A k \in Objects : Built(x.heap[k], y.heap[k]) /\ y.heap[k].ref = x.heap[k].ref
  <2>1. ASSUME NEW k \in Objects \ {h}
        PROVE  Built(x.heap[k], y.heap[k]) /\ y.heap[k].ref = x.heap[k].ref
    BY <1>9 DEF Built
  <2> QED
    BY <1>7, <1>9, <2>1
<1>11. \A k \in Objects : x.heap[k].kind = "none" => y.heap[k] = x.heap[k]
  BY <1>2, <1>9
<1>12. Hands(y, d, f, {}) /\ Path(x, y, d)
  BY <1>3, <1>8, <1>9, <1>10, <1>11, Annotated
<1>13. y.heap[d] = x.heap[d]
  BY <1>2, <1>4, <1>9
<1>14. Shadows(y, d)
  BY <1>2, <1>12, <1>13, ShadowsKept DEF Path
<1>15. y.heap[h].kind = "block" /\ y.heap[h].dev = d
  BY <1>7, <1>9
<1>16. Done(y, v, d, f, None)
  BY <1>1, <1>5, <1>12, <1>14, <1>15, CopyStateSets
<1>17. Moved(w, y, d, f, h)
  <2>1. Grows(x.heap, y.heap, d, h)
    BY <1>10, BuiltGrows
  <2> QED
    BY <1>2, <1>12, <2>1, MovedTwice DEF Moved
<1>18. Done(w, v, d, f, h)
  BY <1>16, <1>17, DoneAfter
<1> QED
  BY <1>18 DEF f

(* The block a device records into changes. *)
LEMMA RecordingMoved ==
  ASSUME NEW w, NEW d, NEW e, Hands(w, d, e, {}), Shadows(w, d), NEW b \in Handles,
         b # None => w.heap[b].kind = "block" /\ w.heap[b].dev = d,
         NEW f, Moves(e, f, b, w.heap[d].recording), NEW v, v = [w EXCEPT !.heap[d].recording = b]
  PROVE  /\ Done(w, v, d, f, None)
         /\ \A k \in Objects : v.heap[k].kind = w.heap[k].kind /\ v.heap[k].dev = w.heap[k].dev
<1> DEFINE o == [w.heap[d] EXCEPT !.recording = b]
           y == [w EXCEPT !.heap[d] = o]
<1>1. /\ HeapOK(w.heap, e, {}) /\ View(w, d) /\ w.heap \in Heaps /\ IsWorld(w) /\ d \in Objects
      /\ w.heap[d].kind = "device" /\ w.heap[d].named
  BY HandsAre
<1>2. v = y
  OBVIOUS
<1>3. /\ o \in ObjectType /\ o.recording = b /\ o.kind = w.heap[d].kind /\ o.ref = w.heap[d].ref
      /\ o.named = w.heap[d].named /\ o.dev = w.heap[d].dev /\ o.peer = w.heap[d].peer
      /\ o.bound = w.heap[d].bound /\ o.value = w.heap[d].value /\ o.marks = w.heap[d].marks
  <2>1. w.heap[d] \in ObjectType
    BY <1>1, FieldTypes
  <2> QED
    BY <2>1 DEF ObjectType
<1> HIDE DEF o
<1>4. Writes(w, y) /\ Gets(w.heap, y.heap, d, o)
  BY <1>1, <1>3, Changing
<1> HIDE DEF y
<1>5. v.heap \in Heaps /\ v.heap[d] = o /\ \A k \in Objects \ {d} : v.heap[k] = w.heap[k]
  BY <1>2, <1>4, Zenon DEF Gets
<1>6. RecordingSets(w.heap, v.heap, d, b)
  BY <1>3, <1>5 DEF RecordingSets
<1>7. HeapOK(v.heap, f, {})
  BY <1>1, <1>6, RecordingSet
<1>8. \A k \in Objects : /\ v.heap[k].kind = w.heap[k].kind /\ v.heap[k].dev = w.heap[k].dev
                         /\ v.heap[k].named = w.heap[k].named
  BY <1>3, <1>5
<1>9. View(v, d) /\ Keeps(w, v)
  <2>1. Named(v.heap, d) = Named(w.heap, d)
    BY <1>8, NamedSame, Zenon
  <2>2. v.heap[d].kind = "device" /\ v.heap[d].named
    BY <1>1, <1>8
  <2> QED
    BY <1>1, <1>2, <1>4, <2>1, <2>2, ViewWrites, Zenon
<1>10. Grows(w.heap, v.heap, d, None)
  BY <1>8 DEF Grows
<1>11. Shadows(v, d)
  BY <1>3, <1>5, <1>9, ShadowsKept, Zenon
<1> QED
  BY <1>7, <1>8, <1>9, <1>10, <1>11 DEF Done, Moved, Hands

(* BeginStateBlock *)
LEMMA BeginBlockDone ==
  ASSUME NEW w, NEW d, NEW e, Hands(w, d, e, {}), Shadows(w, d), NEW h \in Objects,
         w.heap[h].kind = "none", w.heap[d].recording = None,
         NEW v, v = [Unname(Make(w, h, "block", d), h) EXCEPT !.heap[d].recording = h]
  PROVE  Done(w, v, d, e, h)
<1> DEFINE x == Unname(Make(w, h, "block", d), h)
           f == Plus(e, h)
<1>1. v = [x EXCEPT !.heap[d].recording = h]
  OBVIOUS
<1>2. /\ Moved(w, x, d, f, h) /\ Shadows(x, d) /\ x.heap[h].kind = "block" /\ x.heap[h].dev = d
      /\ x.heap[d].recording = None
  BY NewBlockMade
<1> HIDE DEF x
<1>3. Hands(x, d, f, {})
  BY <1>2 DEF Moved
<1>4. Moves(f, e, h, None)
  <2>1. e \in [Objects -> Nat]
    BY HandsAre
  <2>2. f[h] > 0 /\ f \in [Objects -> Nat] /\ Less(f, h) = e
    BY <2>1, PlusLess
  <2> HIDE DEF f
  <2> QED
    BY <2>2, MovesLess
<1> HIDE DEF f
<1>5. h \in Handles
  BY DEF Handles
<1>6. Moves(f, e, h, x.heap[d].recording)
  BY <1>2, <1>4
<1>7. Done(x, v, d, e, None)
  BY <1>1, <1>2, <1>3, <1>5, <1>6, RecordingMoved
<1> QED
  BY <1>2, <1>7, DoneAfter

(* EndStateBlock *)
EndsBlock(w, d, b) == CopyState([w EXCEPT !.heap[d].recording = None], d, b)

LEMMA EndBlockDone ==
  ASSUME NEW w, NEW d, NEW e, Hands(w, d, e, {}), Shadows(w, d), NEW b, b = w.heap[d].recording,
         b # None, NEW v, v = EndsBlock(w, d, b)
  PROVE  b \in Objects /\ Done(w, v, d, Plus(e, b), None) /\ w.heap[b].dev = d
<1> DEFINE y == [w EXCEPT !.heap[d].recording = None]
           f == Plus(e, b)
<1>1. /\ HeapOK(w.heap, e, {}) /\ w.heap \in Heaps /\ d \in Objects /\ w.heap[d].kind = "device"
      /\ e \in [Objects -> Nat]
  BY HandsAre
<1>2. b \in Objects /\ w.heap[b].kind = "block" /\ w.heap[b].dev = d
  <2>1. b \in Handles
    BY <1>1, FieldTypes
  <2> QED
    BY <1>1, <2>1, ObjectOrNone DEF HeapOK, Records
<1>3. Moves(e, f, None, b) /\ f[b] > 0
  BY <1>1, <1>2, MovesPlus, PlusLess
<1> HIDE DEF f
<1>4. v = CopyState(y, d, b) /\ y = [w EXCEPT !.heap[d].recording = None]
  BY DEF EndsBlock
<1> HIDE DEF y
<1>5. None \in Handles
  BY DEF Handles
<1>6. /\ Done(w, y, d, f, None)
      /\ \A k \in Objects : y.heap[k].kind = w.heap[k].kind /\ y.heap[k].dev = w.heap[k].dev
  <2>1. Moves(e, f, None, w.heap[d].recording)
    BY <1>3
  <2> QED
    BY <1>4, <1>5, <2>1, RecordingMoved
<1>7. Hands(y, d, f, {}) /\ Shadows(y, d) /\ Moved(w, y, d, f, None)
  BY <1>6 DEF Done, Moved
<1>8. y.heap[b].kind = "block" /\ y.heap[b].dev = d
  BY <1>2, <1>6
<1>9. Done(y, v, d, f, None)
  BY <1>2, <1>3, <1>4, <1>7, <1>8, CopyStateSets, Zenon
<1>10. Done(w, v, d, f, None)
  BY <1>7, <1>9, DoneAfter
<1> QED
  BY <1>2, <1>10 DEF f

LEMMA AddsDone ==
  ASSUME NEW w, NEW d, NEW e, Hands(w, d, e, {}), Shadows(w, d), NEW v, NEW f, Adds(w, v, d, f, {})
  PROVE  Done(w, v, d, f, None)
<1>1. d \in Objects
  BY HandsAre
<1>2. Path(w, v, d) /\ HeapOK(v.heap, f, {}) /\ \A o \in Objects : Alike(w.heap[o], v.heap[o])
  BY DEF Adds
<1>3. Grows(w.heap, v.heap, d, None)
  BY <1>2, BuiltGrows DEF Alike
<1>4. Shadows(v, d)
  BY <1>1, <1>2, ShadowsKept DEF Path, Alike, Built
<1> QED
  BY <1>2, <1>3, <1>4 DEF Done, Moved, Hands, Path

(* One more reference *)
LEMMA AddDone ==
  ASSUME NEW w, NEW d, NEW e, Hands(w, d, e, {}), Shadows(w, d), NEW h \in Objects, Addable(w.heap, h),
         NEW v, v = Add(w, h)
  PROVE  Done(w, v, d, Plus(e, h), None)
<1>1. h \in Handles
  BY DEF Handles
<1>2. Adds(w, v, d, Plus(e, h), {})
  BY <1>1, AddAdds
<1> QED
  BY <1>2, AddsDone

LEMMA RaiseDone ==
  ASSUME NEW w, NEW d, NEW e, Hands(w, d, e, {}), Shadows(w, d), NEW h \in Objects,
         w.heap[h].kind = "backbuffer", NEW v, v = Raise(w, h)
  PROVE  Done(w, v, d, Plus(e, h), None)
<1>1. Adds(w, v, d, Plus(e, h), {})
  BY RaiseAdds
<1> QED
  BY <1>1, AddsDone

(* The device's state *)
LEMMA SetObjectDone ==
  ASSUME NEW w, NEW d, NEW e, Hands(w, d, e, {}), Shadows(w, d), e[d] > 0, NEW s \in Content,
         NEW h, MayBind(w.heap, d, d, s, h), h # None => w.heap[h].named, NEW v, v = PutMarked(w, d, s, h)
  PROVE  Done(w, v, d, e, None)
<1>1. HasSlots(w.heap, e, d, d)
  BY HandsAre DEF HasSlots
<1>2. Hands(v, d, e, {}) /\ Sets(w.heap, v.heap, d, s, h) /\ Shadows(v, d)
  BY <1>1, PutMarkedSets
<1>3. Grows(w.heap, v.heap, d, None)
  BY <1>2, SetsGrows
<1> QED
  BY <1>2, <1>3 DEF Done, Moved

LEMMA SetTargetDone ==
  ASSUME NEW w, NEW d, NEW e, Hands(w, d, e, {}), Shadows(w, d), e[d] > 0,
         NEW h \in Objects, w.heap[h].kind \in {"level", "backbuffer", "surface"}, w.heap[h].dev = d,
         w.heap[h].named, NEW v, v = PutObject(w, d, "target", h)
  PROVE  Done(w, v, d, e, None)
<1> DEFINE s == "target"
<1>1. d \in Objects /\ w.heap[d].kind = "device"
  BY HandsAre
<1>2. HasSlots(w.heap, e, d, d)
  BY <1>1 DEF HasSlots
<1>3. MayBind(w.heap, d, d, s, h)
  <2>1. s \in Slots /\ w.heap[d].kind # "block" /\ h \in Handles
    BY <1>1, SlotFields DEF Handles
  <2>2. Fits(s, w.heap[h].kind)
    BY DEF Fits
  <2>3. Addable(w.heap, h)
    BY DEF Addable
  <2> QED
    BY <2>1, <2>2, <2>3 DEF MayBind
<1> HIDE DEF s
<1>4. v = PutObject(w, d, s, h)
  BY DEF s
<1>5. Hands(v, d, e, {}) /\ Sets(w.heap, v.heap, d, s, h) /\ Shadows(v, d)
  <2>1. h # None
    BY DEF Objects, None
  <2> QED
    BY <1>2, <1>3, <1>4, <2>1, PutBinds
<1>6. Grows(w.heap, v.heap, d, None)
  BY <1>5, SetsGrows
<1> QED
  BY <1>5, <1>6 DEF Done, Moved

LEMMA SetValueDone ==
  ASSUME NEW w, NEW d, NEW e, Hands(w, d, e, {}), Shadows(w, d), NEW p \in States,
         NEW n \in Values, NEW v, v = PutValue(w, d, p, n)
  PROVE  Done(w, v, d, e, None)
<1>1. Hands(v, d, e, {}) /\ (\A k \in Objects : Built(w.heap[k], v.heap[k])) /\ Shadows(v, d)
  BY PutValueSets
<1>2. Grows(w.heap, v.heap, d, None)
  BY <1>1, BuiltGrows
<1> QED
  BY <1>1, <1>2 DEF Done, Moved

(* What changes no object *)
LEMMA AboutDone ==
  ASSUME NEW w, NEW d, NEW e, Hands(w, d, e, {}), Shadows(w, d), NEW op \in Tellings, NEW h,
         op # "DRAW" => h \in Named(w.heap, d),
         NEW v, v \in {Cmd(w, [op |-> op, h |-> h]), Sync(w, [op |-> op, h |-> h])}
  PROVE  Done(w, v, d, e, None)
<1>1. View(w, d) /\ HeapOK(w.heap, e, {})
  BY HandsAre
<1>2. View(v, d) /\ Tells(v) = Tells(w) /\ v.heap = w.heap
  <2>1. CASE v = Cmd(w, [op |-> op, h |-> h])
    BY <1>1, <2>1, SaysAbout
  <2>2. CASE v = Sync(w, [op |-> op, h |-> h])
    BY <1>1, <2>2, SyncsAbout
  <2> QED
    BY <2>1, <2>2
<1>3. Hands(v, d, e, {}) /\ Shadows(v, d)
  BY <1>1, <1>2 DEF Hands, Shadows
<1>4. Grows(w.heap, v.heap, d, None)
  BY <1>2, GrowsNone, SMTT(30)
<1> QED
  BY <1>3, <1>4 DEF Done, Moved

(* A level surface: a handle taken, and one more reference on the device   *)
(* and on the texture.                                                     *)
TakesLevel(H, G, h, t, d, o) ==
  /\ G \in Heaps /\ G[h] = o
  /\ G[t].ref = H[t].ref + 1 /\ Alike(H[t], G[t]) /\ G[d].ref = H[d].ref + 1 /\ Alike(H[d], G[d])
  /\ \A k \in Objects \ {h, t, d} : G[k] = H[k]

LevelOf(o, t, d, n) ==
  /\ o \in ObjectType /\ o.kind = "level" /\ o.ref = n /\ o.dev = d /\ o.peer = t
  /\ o.bound = Unbound /\ o.recording = None /\ (o.named <=> n > 0)

Apart(h, t, d) == h \in Objects /\ t \in Objects /\ d \in Objects /\ h # t /\ h # d /\ t # d

LEMMA LevelRec ==
  ASSUME NEW d \in Objects
  PROVE  LET o == Rec("level", d) IN
         /\ o \in ObjectType /\ o.kind = "level" /\ o.ref = 1 /\ o.dev = d /\ o.named
         /\ o.bound = Unbound /\ o.recording = None
BY RecIs

LEMMA LevelMakes ==
  ASSUME NEW w, IsWorld(w), w.heap \in Heaps, NEW h, NEW t, NEW d, Apart(h, t, d),
         NEW x, x = Raise([Make(w, h, "level", d) EXCEPT !.heap[h].peer = t], t)
  PROVE  Writes(w, x) /\ LevelOf(x.heap[h], t, d, 1) /\ TakesLevel(w.heap, x.heap, h, t, d, x.heap[h])
<1> DEFINE m == Make(w, h, "level", d)
           r == Rec("level", d)
           o == [m.heap[h] EXCEPT !.peer = t]
           y == [m EXCEPT !.heap[h] = o]
<1>0. h \in Objects /\ t \in Objects /\ d \in Objects /\ h # t /\ h # d /\ t # d /\ t \in Handles
  BY DEF Apart, Handles
<1>1. x = Raise(y, t)
  OBVIOUS
<1>2. Writes(w, m) /\ TakesHandle(w.heap, m.heap, h, r, d)
  BY <1>0, MakeMakes
<1>3. /\ r \in ObjectType /\ r.kind = "level" /\ r.ref = 1 /\ r.dev = d /\ r.named
      /\ r.bound = Unbound /\ r.recording = None
  BY <1>0, LevelRec
<1> HIDE DEF m, r
<1>4. IsWorld(m) /\ m.heap \in Heaps /\ m.heap[h] = r
  BY <1>2 DEF Writes, TakesHandle
<1>5. /\ o \in ObjectType /\ o.kind = "level" /\ o.ref = 1 /\ o.dev = d /\ o.peer = t
      /\ o.bound = Unbound /\ o.recording = None /\ o.named
  BY <1>0, <1>3, <1>4 DEF ObjectType
<1> HIDE DEF o
<1>6. Writes(m, y) /\ Gets(m.heap, y.heap, h, o)
  BY <1>0, <1>4, <1>5, Changing
<1> HIDE DEF y
<1>7. IsWorld(y) /\ y.heap \in Heaps
  BY <1>6 DEF Writes, Gets
<1>8. Writes(y, x) /\ Counts(y.heap, x.heap, t, y.heap[t].ref + 1)
  BY <1>0, <1>1, <1>7, Raised
<1>9. Writes(w, x)
  BY <1>2, <1>6, <1>8 DEF Writes
<1>10. y.heap[t] = w.heap[t] /\ y.heap[d] = m.heap[d] /\ y.heap[h] = o
       /\ \A k \in Objects \ {h, d} : y.heap[k] = w.heap[k]
  BY <1>0, <1>2, <1>6 DEF Gets, TakesHandle
<1>11. x.heap[h] = o /\ x.heap[d] = y.heap[d] /\ \A k \in Objects \ {t} : x.heap[k] = y.heap[k]
  BY <1>0, <1>8, <1>10 DEF Counts
<1>12. x.heap[t].ref = w.heap[t].ref + 1 /\ Alike(w.heap[t], x.heap[t]) /\ x.heap \in Heaps
  BY <1>8, <1>10 DEF Counts
<1>13. x.heap[d].ref = w.heap[d].ref + 1 /\ Alike(w.heap[d], x.heap[d])
  BY <1>2, <1>10, <1>11 DEF TakesHandle
<1>14. \A k \in Objects \ {h, t, d} : x.heap[k] = w.heap[k]
  BY <1>10, <1>11
<1>15. LevelOf(x.heap[h], t, d, 1)
  BY <1>5, <1>11 DEF LevelOf
<1> QED
  BY <1>9, <1>12, <1>13, <1>14, <1>15 DEF TakesLevel

(* Its name and its reference are taken back. *)
Unmakes(H, n, y, h, t, d) ==
  /\ Writes(n, y) /\ LevelOf(y.heap[h], t, d, 0) /\ TakesLevel(H, y.heap, h, t, d, y.heap[h])
  /\ \A k \in Objects \ {h} : y.heap[k] = n.heap[k]

LEMMA LevelUnmade ==
  ASSUME NEW n, IsWorld(n), NEW H, NEW h, NEW t, NEW d, Apart(h, t, d), LevelOf(n.heap[h], t, d, 1),
         TakesLevel(H, n.heap, h, t, d, n.heap[h]), NEW y, y = Lower(Unname(n, h), h)
  PROVE  Unmakes(H, n, y, h, t, d)
<1> DEFINE u == Unname(n, h)
           o == [n.heap[h] EXCEPT !.named = FALSE]
<1>0. h \in Objects /\ h # t /\ h # d /\ n.heap \in Heaps /\ t \in Objects /\ d \in Objects
  BY DEF Apart, TakesLevel
<1>1. y = Lower(u, h)
  OBVIOUS
<1>2. Writes(n, u) /\ Gets(n.heap, u.heap, h, o)
  BY <1>0, UnnameGets
<1>3. /\ o \in ObjectType /\ o.kind = "level" /\ o.ref = 1 /\ o.dev = d /\ o.peer = t
      /\ o.bound = Unbound /\ o.recording = None /\ ~o.named
  BY Zenon DEF LevelOf, ObjectType
<1> HIDE DEF u, o
<1>4. IsWorld(u) /\ u.heap \in Heaps /\ u.heap[h] = o /\ \A k \in Objects \ {h} : u.heap[k] = n.heap[k]
  BY <1>2 DEF Writes, Gets
<1>5. u.heap[h].ref > 0
  BY <1>3, <1>4
<1>6. Writes(u, y) /\ Counts(u.heap, y.heap, h, u.heap[h].ref - 1)
  BY <1>0, <1>1, <1>4, <1>5, Lowered
<1>7. y.heap \in Heaps /\ y.heap[h].ref = 0 /\ Alike(u.heap[h], y.heap[h])
      /\ \A k \in Objects \ {h} : y.heap[k] = u.heap[k]
  BY <1>3, <1>4, <1>6 DEF Counts
<1>8. \A k \in Objects \ {h} : y.heap[k] = n.heap[k]
  BY <1>4, <1>7
<1>9. LevelOf(y.heap[h], t, d, 0)
  <2>1. y.heap[h] \in ObjectType
    BY <1>0, <1>7, FieldTypes
  <2> QED
    BY <1>3, <1>4, <1>7, <2>1 DEF LevelOf, Alike, Built
<1>10. TakesLevel(H, y.heap, h, t, d, y.heap[h])
  <2>1. y.heap[t] = n.heap[t] /\ y.heap[d] = n.heap[d]
    BY <1>0, <1>8
  <2>2. \A k \in Objects \ {h, t, d} : y.heap[k] = H[k]
    BY <1>8 DEF TakesLevel
  <2> QED
    BY <1>7, <2>1, <2>2 DEF TakesLevel
<1>11. Writes(n, y)
  BY <1>2, <1>6 DEF Writes
<1> QED
  BY <1>8, <1>9, <1>10, <1>11 DEF Unmakes

(* The reference it had on its texture is held from outside the heap. *)
LEMMA LevelHeap ==
  ASSUME NEW H, NEW e, HeapOK(H, e, {}), NEW h, NEW t, NEW d, Apart(h, t, d), H[h].kind = "none",
         H[d].kind = "device", H[t].kind = "texture", NEW G, LevelOf(G[h], t, d, 0),
         TakesLevel(H, G, h, t, d, G[h])
  PROVE  HeapOK(G, Plus(e, t), {})
<1> DEFINE o == G[h]
           K == [G EXCEPT ![t] = H[t]]
           f == Plus(e, t)
           m == H[t].ref + 1
<1>0. /\ h \in Objects /\ t \in Objects /\ d \in Objects /\ h # t /\ h # d /\ t # d
      /\ H \in Heaps /\ G \in Heaps /\ e \in [Objects -> Nat]
  BY DEF Apart, HeapOK, TakesLevel
<1>1. H[t] \in ObjectType /\ m \in Nat /\ H[t].ref \in Nat /\ m = H[t].ref + 1
  BY <1>0, FieldTypes
<1>2. /\ o.kind = "level" /\ o.ref = 0 /\ o.dev = d /\ o.peer = t /\ ~o.named /\ o \in ObjectType
      /\ o.bound = Unbound /\ o.recording = None
  BY DEF LevelOf
<1>3. K \in Heaps /\ K[t] = H[t] /\ \A k \in Objects \ {t} : K[k] = G[k]
  BY <1>0, <1>1 DEF Heaps
<1> HIDE DEF K
<1>4. TakesHandle(H, K, h, o, d)
  <2>1. K[h] = o /\ K[d] = G[d]
    BY <1>0, <1>3
  <2>2. \A k \in Objects \ {h, d} : K[k] = H[k]
    BY <1>3 DEF TakesLevel
  <2> QED
    BY <1>3, <2>1, <2>2 DEF TakesHandle, TakesLevel
<1>5. NewObject(H, o)
  <2>1. d # None /\ t # None
    BY <1>0 DEF Objects, None
  <2>2. Formed(o)
    BY <1>2, <2>1 DEF Formed, Hosted, Plain
  <2> QED
    BY <1>0, <1>2, <2>2 DEF NewObject
<1>6. e[h] = 0
  <2>1. H[h].ref \in Nat /\ e[h] \in Nat /\ (e[h] > 0 => H[h].kind # "none")
    BY <1>0, Counting
  <2> QED
    BY <2>1
<1> HIDE DEF o
<1>7. HeapOK(K, e, {})
  <2>1. e[h] = o.ref /\ \A k \in Objects \ {h} : e[k] = e[k]
    BY <1>2, <1>6
  <2>2. o.kind # "backbuffer" /\ o.kind # "device"
    BY <1>2
  <2> QED
    BY <1>0, <1>2, <1>4, <1>5, <2>1, <2>2, MadeWith
<1>8. Counts(K, G, t, m)
  <2>1. G[t].ref = m /\ Alike(K[t], G[t]) /\ \A k \in Objects \ {t} : G[k] = K[k]
    BY <1>3 DEF TakesLevel
  <2> QED
    BY <1>0, <2>1 DEF Counts
<1>9. f \in [Objects -> Nat] /\ f[t] = e[t] + 1 /\ \A k \in Objects \ {t} : f[k] = e[k]
  BY <1>0, PlusIs
<1>10. m + e[t] = f[t] + K[t].ref /\ e[t] \in Nat /\ K[t].kind = "texture"
  BY <1>0, <1>1, <1>3, <1>9
<1> HIDE DEF m, f
<1>11. HeapOK(G, f, {})
  BY <1>0, <1>1, <1>7, <1>8, <1>9, <1>10, Recounted
<1> QED
  BY <1>11 DEF f

LEMMA TakesNames ==
  ASSUME NEW H, NEW e, HeapOK(H, e, {}), NEW h, NEW t, NEW d, Apart(h, t, d), H[h].kind = "none",
         NEW G, LevelOf(G[h], t, d, 1), TakesLevel(H, G, h, t, d, G[h]),
         H[d].kind = "device", H[d].named
  PROVE  /\ Named(G, d) = Named(H, d) \cup {h} /\ h \notin Named(H, d) /\ Grows(H, G, d, h)
         /\ G[d].kind = "device" /\ G[d].named
         /\ \A k \in Objects \ {h} : G[k].kind = H[k].kind /\ G[k].dev = H[k].dev /\ G[k].named = H[k].named
<1>0. h \in Objects /\ t \in Objects /\ d \in Objects /\ h # t /\ h # d
  BY DEF Apart
<1>1. h \notin Named(H, d)
  BY <1>0, NoneIs
<1>2. \A k \in Objects \ {h} : G[k].kind = H[k].kind /\ G[k].dev = H[k].dev /\ G[k].named = H[k].named
  BY Zenon DEF TakesLevel, Alike, Built
<1>3. G[h].named /\ G[h].dev = d /\ G[h].kind # "device"
  BY DEF LevelOf
<1>4. Named(G, d) = Named(H, d) \cup {h}
  BY <1>0, <1>1, <1>2, <1>3 DEF Named
<1>5. Grows(H, G, d, h)
  BY <1>2, <1>3 DEF Grows
<1> QED
  BY <1>0, <1>1, <1>2, <1>4, <1>5

(* The texture caches the level surface that the host has given. *)
Caches(n, t, h) == [n EXCEPT !.heap[t].peer = h]

Cached(n, y, v, h, t, d) ==
  /\ Writes(n, v) /\ Names(y.heap, v.heap, h, t) /\ v.heap[d] = n.heap[d]
  /\ \A k \in Objects : /\ v.heap[k].kind = n.heap[k].kind /\ v.heap[k].dev = n.heap[k].dev
                        /\ v.heap[k].named = n.heap[k].named

LEMMA LevelGiven ==
  ASSUME NEW n, IsWorld(n), NEW y, NEW h, NEW t, NEW d, Apart(h, t, d),
         LevelOf(n.heap[h], t, d, 1), LevelOf(y.heap[h], t, d, 0), y.heap \in Heaps, n.heap \in Heaps,
         \A k \in Objects \ {h} : y.heap[k] = n.heap[k], n.heap[t].kind = "texture",
         NEW v, v = Caches(n, t, h)
  PROVE  Cached(n, y, v, h, t, d)
<1> DEFINE o == [n.heap[t] EXCEPT !.peer = h]
<1>0. h \in Objects /\ t \in Objects /\ d \in Objects /\ h # t /\ h # d /\ t # d /\ h \in Handles
  BY DEF Apart, Handles
<1>1. /\ o \in ObjectType /\ o.kind = "texture" /\ o.peer = h /\ o.ref = n.heap[t].ref
      /\ o.named = n.heap[t].named /\ o.dev = n.heap[t].dev /\ o.bound = n.heap[t].bound
      /\ o.recording = n.heap[t].recording
  <2>1. n.heap[t] \in ObjectType
    BY <1>0, FieldTypes
  <2> QED
    BY <1>0, <2>1 DEF ObjectType
<1>2. v = [n EXCEPT !.heap[t] = o]
  BY DEF Caches
<1> HIDE DEF o
<1>3. Writes(n, v) /\ Gets(n.heap, v.heap, t, o)
  <2> DEFINE z == [n EXCEPT !.heap[t] = o]
  <2>1. Writes(n, z) /\ Gets(n.heap, z.heap, t, o)
    BY <1>0, <1>1, Changing
  <2> QED
    BY <1>2, <2>1
<1>4. v.heap \in Heaps /\ v.heap[t] = o /\ \A k \in Objects \ {t} : v.heap[k] = n.heap[k]
  BY <1>3 DEF Gets
<1>5. v.heap[h] = n.heap[h] /\ v.heap[d] = n.heap[d] /\ y.heap[t] = n.heap[t]
  BY <1>0, <1>4
<1>6. Names(y.heap, v.heap, h, t)
  <2>1. \A k \in Objects \ {h, t} : v.heap[k] = y.heap[k]
    BY <1>4
  <2> QED
    BY <1>1, <1>4, <1>5, <2>1 DEF Names, LevelOf
<1>7. \A k \in Objects : /\ v.heap[k].kind = n.heap[k].kind /\ v.heap[k].dev = n.heap[k].dev
                         /\ v.heap[k].named = n.heap[k].named
  BY <1>1, <1>4
<1> QED
  BY <1>3, <1>5, <1>6, <1>7 DEF Cached

(* The host has been asked for a level surface. *)
LevelAsked(w, n, h, t, d, ok) ==
  /\ Asked(w, d, h, ok, n) /\ IsWorld(n) /\ LevelOf(n.heap[h], t, d, 1)
  /\ TakesLevel(w.heap, n.heap, h, t, d, n.heap[h])

LevelFor(w, h, t, d, e) ==
  /\ Apart(h, t, d) /\ w.heap[h].kind = "none" /\ w.heap[t].kind = "texture"
  /\ w.heap[t].peer = None /\ w.heap[t].dev = d /\ e[t] > 0

LevelOut(w, n, y, h, t, d, f) ==
  /\ Writes(n, y) /\ LevelOf(y.heap[h], t, d, 0) /\ HeapOK(y.heap, f, {})
  /\ \A k \in Objects \ {h} : y.heap[k] = n.heap[k]
  /\ n.heap \in Heaps /\ y.heap \in Heaps
  /\ n.heap[t].kind = "texture" /\ n.heap[t].dev = d /\ n.heap[t].peer = None
  /\ n.heap[d].bound = w.heap[d].bound /\ n.heap[d].value = w.heap[d].value
  /\ y.heap[t] = n.heap[t] /\ y.heap[d] = n.heap[d]

LEMMA LevelFacts ==
  ASSUME NEW w, NEW d, NEW e, Hands(w, d, e, {}), NEW h, NEW t, LevelFor(w, h, t, d, e),
         NEW n, NEW ok, LevelAsked(w, n, h, t, d, ok), NEW y, y = Lower(Unname(n, h), h)
  PROVE  LevelOut(w, n, y, h, t, d, Plus(e, t))
<1>1. /\ HeapOK(w.heap, e, {}) /\ w.heap[d].kind = "device" /\ h \in Objects /\ t \in Objects /\ d \in Objects
      /\ h # t /\ h # d /\ t # d /\ Apart(h, t, d) /\ w.heap[h].kind = "none" /\ w.heap[t].kind = "texture"
      /\ w.heap[t].peer = None /\ w.heap[t].dev = d
  BY HandsAre DEF Apart, LevelFor
<1>2. /\ IsWorld(n) /\ LevelOf(n.heap[h], t, d, 1) /\ TakesLevel(w.heap, n.heap, h, t, d, n.heap[h])
  BY DEF LevelAsked
<1>U. Unmakes(w.heap, n, y, h, t, d)
  BY <1>1, <1>2, LevelUnmade
<1>3. /\ Writes(n, y) /\ LevelOf(y.heap[h], t, d, 0) /\ TakesLevel(w.heap, y.heap, h, t, d, y.heap[h])
      /\ \A k \in Objects \ {h} : y.heap[k] = n.heap[k]
  BY <1>U DEF Unmakes
<1>4. HeapOK(y.heap, Plus(e, t), {})
  BY <1>1, <1>3, LevelHeap
<1>5. n.heap \in Heaps /\ y.heap \in Heaps
  BY <1>2, <1>3 DEF TakesLevel
<1>6. Alike(w.heap[t], n.heap[t]) /\ Alike(w.heap[d], n.heap[d])
  BY <1>2 DEF TakesLevel
<1>7. /\ n.heap[t].kind = "texture" /\ n.heap[t].dev = d /\ n.heap[t].peer = None
      /\ n.heap[d].bound = w.heap[d].bound /\ n.heap[d].value = w.heap[d].value
  BY <1>1, <1>6 DEF Alike, Built
<1>8. y.heap[t] = n.heap[t] /\ y.heap[d] = n.heap[d]
  BY <1>1, <1>3
<1> QED
  BY <1>3, <1>4, <1>5, <1>7, <1>8 DEF LevelOut

LevelIn(w, n, h, d) ==
  /\ Named(n.heap, d) = Named(w.heap, d) \cup {h} /\ h \notin Named(w.heap, d)
  /\ Grows(w.heap, n.heap, d, h) /\ n.heap[d].kind = "device" /\ n.heap[d].named
  /\ \A k \in Objects \ {h} : /\ n.heap[k].kind = w.heap[k].kind /\ n.heap[k].dev = w.heap[k].dev
                              /\ n.heap[k].named = w.heap[k].named

LEMMA LevelNames ==
  ASSUME NEW w, NEW d, NEW e, Hands(w, d, e, {}), NEW h, NEW t, LevelFor(w, h, t, d, e),
         NEW n, NEW ok, LevelAsked(w, n, h, t, d, ok)
  PROVE  LevelIn(w, n, h, d)
<1>1. /\ HeapOK(w.heap, e, {}) /\ w.heap[d].kind = "device" /\ w.heap[d].named
      /\ Apart(h, t, d) /\ w.heap[h].kind = "none"
  BY HandsAre DEF LevelFor
<1>2. /\ LevelOf(n.heap[h], t, d, 1) /\ TakesLevel(w.heap, n.heap, h, t, d, n.heap[h])
  BY DEF LevelAsked
<1> QED
  BY <1>1, <1>2, TakesNames DEF LevelIn

LEMMA LevelKept ==
  ASSUME NEW w, NEW d, NEW e, Hands(w, d, e, {}), Shadows(w, d), NEW h, NEW t, LevelFor(w, h, t, d, e),
         NEW n, LevelAsked(w, n, h, t, d, TRUE), NEW v, v = Caches(n, t, h)
  PROVE  Done(w, v, d, Plus(e, h), h)
<1> DEFINE y == Lower(Unname(n, h), h)
           f == Plus(e, t)
           g == Plus(e, h)
<1>0. y = Lower(Unname(n, h), h)
  OBVIOUS
<1> HIDE DEF y
<1>1. /\ e \in [Objects -> Nat] /\ d \in Objects /\ h \in Objects /\ t \in Objects /\ Apart(h, t, d)
  BY HandsAre DEF LevelFor, Apart
<1>2. /\ Writes(n, y) /\ LevelOf(y.heap[h], t, d, 0) /\ HeapOK(y.heap, Plus(e, t), {})
      /\ \A k \in Objects \ {h} : y.heap[k] = n.heap[k]
      /\ n.heap \in Heaps /\ y.heap \in Heaps
      /\ n.heap[t].kind = "texture" /\ n.heap[t].dev = d /\ n.heap[t].peer = None
      /\ n.heap[d].bound = w.heap[d].bound /\ n.heap[d].value = w.heap[d].value
      /\ y.heap[t] = n.heap[t] /\ y.heap[d] = n.heap[d]
  <2>1. LevelOut(w, n, y, h, t, d, Plus(e, t))
    BY <1>0, LevelFacts, Zenon
  <2> QED
    BY <2>1 DEF LevelOut
<1>3. /\ Named(n.heap, d) = Named(w.heap, d) \cup {h} /\ Grows(w.heap, n.heap, d, h)
      /\ n.heap[d].kind = "device" /\ n.heap[d].named
  <2>1. LevelIn(w, n, h, d)
    BY LevelNames, Zenon
  <2> QED
    BY <2>1 DEF LevelIn
<1>4. /\ n.status = TRUE /\ Sound(n) /\ Tells(n).host.dev = d /\ Keeps(w, n) /\ IsWorld(n)
      /\ Tells(n).host.objs = Named(w.heap, d) \cup {h} /\ LevelOf(n.heap[h], t, d, 1)
  BY DEF LevelAsked, Asked
<1>5. /\ Writes(n, v) /\ Names(y.heap, v.heap, h, t) /\ v.heap[d] = n.heap[d]
      /\ \A k \in Objects : /\ v.heap[k].kind = n.heap[k].kind /\ v.heap[k].dev = n.heap[k].dev
                            /\ v.heap[k].named = n.heap[k].named
  <2>1. Cached(n, y, v, h, t, d)
    BY <1>1, <1>2, <1>4, LevelGiven
  <2> QED
    BY <2>1 DEF Cached
<1>6. Moves(f, g, t, h)
  <2>1. \A k \in Objects : f[k] = (IF k = t THEN e[k] + 1 ELSE e[k])
    BY <1>1, PlusIs
  <2>2. g \in [Objects -> Nat] /\ \A k \in Objects : g[k] = (IF k = h THEN e[k] + 1 ELSE e[k])
    BY <1>1, PlusIs
  <2> HIDE DEF f, g
  <2>3. ASSUME NEW k \in Objects
        PROVE  g[k] + Is(k, t) = f[k] + Is(k, h)
    <3>1. e[k] \in Nat
      BY <1>1
    <3> QED
      BY <2>1, <2>2, <3>1 DEF Is
  <2> QED
    BY <2>2, <2>3 DEF Moves
<1>7. HeapOK(v.heap, g, {})
  <2>1. y.heap[h].kind = "level" /\ ~y.heap[h].named /\ y.heap[h].ref = 0 /\ y.heap[h].dev = d
    BY <1>2 DEF LevelOf
  <2>2. y.heap[t].kind = "texture" /\ y.heap[t].peer = None /\ y.heap[t].dev = y.heap[h].dev
    BY <1>2, <2>1
  <2>3. HeapOK(y.heap, f, {})
    BY <1>2
  <2> HIDE DEF f, g
  <2> QED
    BY <1>1, <1>5, <1>6, <2>1, <2>2, <2>3, LevelNamed
<1> HIDE DEF f
<1>8. Sound(v) /\ Tells(v) = Tells(n)
  BY <1>4, <1>5, WriteSound
<1>9. View(v, d)
  <2>1. Named(v.heap, d) = Named(n.heap, d)
    BY <1>5, NamedSame
  <2>2. v.heap[d].kind = "device" /\ v.heap[d].named
    BY <1>1, <1>3, <1>5
  <2> QED
    BY <1>1, <1>3, <1>4, <1>8, <2>1, <2>2 DEF View
<1>10. Grows(w.heap, v.heap, d, h)
  <2>1. Grows(n.heap, v.heap, d, h)
    BY <1>5, SameGrows
  <2> QED
    BY <1>3, <2>1, GrowsTwice
<1>11. Shadows(v, d)
  <2>1. Keeps(w, v)
    BY <1>4, <1>8 DEF Keeps
  <2>2. v.heap[d].bound = w.heap[d].bound /\ v.heap[d].value = w.heap[d].value
    BY <1>2, <1>5
  <2> QED
    BY <2>1, <2>2, ShadowsKept
<1> QED
  BY <1>7, <1>9, <1>10, <1>11 DEF Done, Moved, Hands

(* One that the host does not give stays without a name, with its device. *)
LEMMA LevelLeft ==
  ASSUME NEW w, NEW d, NEW e, Hands(w, d, e, {}), Shadows(w, d), NEW h, NEW t, LevelFor(w, h, t, d, e),
         NEW n, LevelAsked(w, n, h, t, d, FALSE), NEW v, v = DropTexture(Lower(Unname(n, h), h), t)
  PROVE  Done(w, v, d, e, h)
<1> DEFINE y == Lower(Unname(n, h), h)
           f == Plus(e, t)
<1>0. y = Lower(Unname(n, h), h)
  OBVIOUS
<1> HIDE DEF y
<1>1. /\ e \in [Objects -> Nat] /\ d \in Objects /\ h \in Objects /\ t \in Objects /\ h # d /\ e[t] > 0
      /\ w.heap[d].kind = "device" /\ w.heap[d].named
  BY HandsAre DEF LevelFor, Apart
<1>2. /\ Writes(n, y) /\ LevelOf(y.heap[h], t, d, 0) /\ HeapOK(y.heap, f, {})
      /\ \A k \in Objects \ {h} : y.heap[k] = n.heap[k]
      /\ y.heap[t].kind = "texture" /\ y.heap[t].dev = d
      /\ y.heap[d].bound = w.heap[d].bound /\ y.heap[d].value = w.heap[d].value
  <2>1. LevelOut(w, n, y, h, t, d, Plus(e, t))
    BY <1>0, LevelFacts, Zenon
  <2> QED
    BY <2>1 DEF LevelOut
<1>3. v = DropTexture(y, t)
  BY <1>0
<1>4. /\ Named(n.heap, d) = Named(w.heap, d) \cup {h} /\ h \notin Named(w.heap, d)
      /\ \A k \in Objects \ {h} : /\ n.heap[k].kind = w.heap[k].kind /\ n.heap[k].dev = w.heap[k].dev
                                  /\ n.heap[k].named = w.heap[k].named
  <2>1. LevelIn(w, n, h, d)
    BY LevelNames, Zenon
  <2> QED
    BY <2>1 DEF LevelIn
<1>5. /\ Sound(n) /\ Tells(n).host.dev = d /\ Keeps(w, n) /\ Tells(n).host.objs = Named(w.heap, d)
  BY DEF LevelAsked, Asked
<1>6. f \in [Objects -> Nat] /\ f[t] > 0 /\ Less(f, t) = e
  BY <1>1, PlusLess
<1> HIDE DEF f
<1>7. Sound(y) /\ Tells(y) = Tells(n)
  BY <1>2, <1>5, WriteSound
<1>8. \A k \in Objects \ {h} : /\ y.heap[k].kind = w.heap[k].kind /\ y.heap[k].dev = w.heap[k].dev
                              /\ y.heap[k].named = w.heap[k].named
  BY <1>2, <1>4
<1>9. y.heap[h].kind = "level" /\ y.heap[h].dev = d /\ ~y.heap[h].named
  BY <1>2 DEF LevelOf
<1>10. Named(y.heap, d) = Named(w.heap, d)
  <2>1. ASSUME NEW k \in Objects
        PROVE  k \in Named(y.heap, d) <=> k \in Named(w.heap, d)
    <3>1. CASE k = h
      BY <1>4, <1>9, <3>1 DEF Named
    <3>2. CASE k # h
      BY <1>8, <3>2 DEF Named
    <3> QED
      BY <3>1, <3>2
  <2> QED
    BY <2>1 DEF Named
<1>11. Hands(y, d, f, {})
  <2>1. y.heap[d].kind = "device" /\ y.heap[d].named
    BY <1>1, <1>8
  <2> QED
    BY <1>1, <1>2, <1>5, <1>7, <1>10, <2>1 DEF Hands, View
<1>12. Held(y.heap, f, {}, t)
  BY DEF Held, Holding
<1>13. Drops(y, v, d, e, {})
  BY <1>1, <1>2, <1>3, <1>6, <1>11, <1>12, DropTextureDrops
<1>14. HeapOK(v.heap, e, {}) /\ Frame(y.heap, v.heap)
  BY <1>13 DEF Drops
<1>15. v.heap[d].kind = "device" /\ Alike(y.heap[d], v.heap[d])
  <2>1. Alike(y.heap[t], v.heap[t])
    BY <1>1, <1>14, AliveAlike, SMTT(30)
  <2>2. v.heap[t].kind = "texture" /\ v.heap[t].dev = d
    BY <1>2, <2>1 DEF Alike, Built
  <2>3. v.heap[d].kind = "device"
    BY <1>1, <1>14, <2>2 DEF HeapOK, HasDevice
  <2>4. v.heap[d] # Gone
    BY <2>3, GoneIs
  <2> QED
    BY <1>1, <1>14, <2>3, <2>4 DEF Frame
<1>16. Hands(v, d, e, {}) /\ Keeps(y, v)
  BY <1>13, <1>15, DropsDevice DEF Drops
<1>17. Grows(w.heap, v.heap, d, h)
  <2>1. Grows(w.heap, y.heap, d, h)
    BY <1>8, <1>9 DEF Grows
  <2>2. Grows(y.heap, v.heap, d, h)
    BY <1>14, FrameGrows
  <2> QED
    BY <2>1, <2>2, GrowsTwice
<1>18. Shadows(v, d)
  <2>1. Keeps(w, v)
    <3>1. Keeps(w, y)
      BY <1>5, <1>7 DEF Keeps
    <3> QED
      BY <1>16, <3>1, KeepsTwice
  <2>2. v.heap[d].bound = w.heap[d].bound /\ v.heap[d].value = w.heap[d].value
    BY <1>2, <1>15 DEF Alike, Built
  <2> QED
    BY <2>1, <2>2, ShadowsKept
<1> QED
  BY <1>16, <1>17, <1>18 DEF Done, Moved

LEMMA LevelAsks ==
  ASSUME NEW w, NEW d, NEW e, Hands(w, d, e, {}), NEW h, NEW t, LevelFor(w, h, t, d, e), NEW ok \in BOOLEAN,
         NEW x, Writes(w, x), LevelOf(x.heap[h], t, d, 1), TakesLevel(w.heap, x.heap, h, t, d, x.heap[h]),
         NEW n, n = GetHostSurface(x, h, t, ok)
  PROVE  LevelAsked(w, n, h, t, d, ok)
<1> DEFINE r == [op |-> "GET_SURFACE", h |-> h, of |-> t, ok |-> ok]
<1>1. /\ HeapOK(w.heap, e, {}) /\ View(w, d) /\ Sound(w) /\ Formed(w.heap[t]) /\ h \in Objects /\ t \in Objects
      /\ w.heap[t].kind = "texture" /\ w.heap[t].dev = d /\ w.heap[h].kind = "none"
  BY HandsAre DEF LevelFor, Apart
<1>2. Sound(x) /\ Tells(x) = Tells(w)
  BY <1>1, WriteSound
<1>3. h \notin Named(w.heap, d)
  BY <1>1, NoneIs
<1>4. t \in Named(w.heap, d)
  <2>1. w.heap[t].named
    BY <1>1 DEF Formed, Hosted
  <2> QED
    BY <1>1, <2>1 DEF Named
<1>5. n = Sync(x, r)
  BY DEF GetHostSurface
<1>6. r.op = "GET_SURFACE" /\ r.h = h /\ r.ok = ok /\ r.of = t
  OBVIOUS
<1> HIDE DEF r
<1>7. Asked(w, d, h, ok, n) /\ n.heap = x.heap
  BY <1>1, <1>2, <1>3, <1>4, <1>5, <1>6, SyncsCreate
<1>8. IsWorld(n)
  BY <1>7 DEF Asked, Sound
<1> QED
  BY <1>7, <1>8 DEF LevelAsked

LEMMA LevelGives ==
  ASSUME NEW w, NEW d, NEW e, Hands(w, d, e, {}), Shadows(w, d), NEW h, NEW t, LevelFor(w, h, t, d, e),
         NEW ok \in BOOLEAN, NEW x, x = Raise([Make(w, h, "level", d) EXCEPT !.heap[h].peer = t], t),
         NEW n, n = GetHostSurface(x, h, t, ok),
         NEW a, a = Tried(ok /\ n.status, Caches(n, t, h), DropSurface(Unname(n, h), h))
  PROVE  Gives(w, a, d, e, h)
<1>1. IsWorld(w) /\ w.heap \in Heaps /\ Apart(h, t, d) /\ h \in Objects
  BY HandsAre DEF LevelFor, Apart
<1>2. Writes(w, x) /\ LevelOf(x.heap[h], t, d, 1) /\ TakesLevel(w.heap, x.heap, h, t, d, x.heap[h])
  BY <1>1, LevelMakes
<1>3. LevelAsked(w, n, h, t, d, ok)
  BY <1>2, LevelAsks, SMTT(30)
<1>4. n.status = TRUE /\ IsWorld(n) /\ n.heap \in Heaps /\ LevelOf(n.heap[h], t, d, 1)
  BY <1>3 DEF LevelAsked, Asked, TakesLevel
<1>5. ASSUME ok
      PROVE  a.done /\ Done(w, a.w, d, Plus(e, h), h)
  <2>1. a.done /\ a.w = Caches(n, t, h)
    BY <1>4, <1>5, Zenon DEF Tried
  <2>2. LevelAsked(w, n, h, t, d, TRUE)
    BY <1>3, <1>5, Zenon
  <2> QED
    BY <2>1, <2>2, LevelKept, Zenon
<1>6. ASSUME ~ok
      PROVE  ~a.done /\ Done(w, a.w, d, e, h)
  <2> DEFINE u == Unname(n, h)
             o == [n.heap[h] EXCEPT !.named = FALSE]
  <2>1. ~a.done /\ a.w = DropSurface(u, h)
    BY <1>4, <1>6 DEF Tried
  <2>2. Writes(n, u) /\ Gets(n.heap, u.heap, h, o)
    BY <1>1, <1>4, UnnameGets, SMTT(30)
  <2>3. o.kind = "level" /\ o.ref = 1 /\ o.peer = t
    BY <1>4, Zenon DEF LevelOf, ObjectType
  <2> HIDE DEF u, o
  <2>4. u.heap[h].kind = "level" /\ u.heap[h].ref = 1 /\ u.heap[h].peer = t
    BY <2>2, <2>3 DEF Gets
  <2>5. DropSurface(u, h) = DropTexture(Lower(u, h), t)
    BY <2>4 DEF DropSurface
  <2>6. a.w = DropTexture(Lower(Unname(n, h), h), t)
    BY <2>1, <2>5 DEF u
  <2>7. LevelAsked(w, n, h, t, d, FALSE)
    BY <1>3, <1>6, Zenon
  <2> QED
    BY <2>1, <2>6, <2>7, LevelLeft, Zenon
<1> QED
  BY <1>5, <1>6 DEF Gives

(* A back buffer: a handle taken, and no reference on the device. *)
BackMade(w, x, h, d) ==
  /\ Writes(w, x) /\ Gets(w.heap, x.heap, h, Rec("backbuffer", d))

LEMMA BackMakes ==
  ASSUME NEW w, IsWorld(w), w.heap \in Heaps, NEW h \in Objects, NEW d \in Objects, h # d,
         NEW x, x = Lower(Make(w, h, "backbuffer", d), d)
  PROVE  BackMade(w, x, h, d)
<1> DEFINE m == Make(w, h, "backbuffer", d)
           r == Rec("backbuffer", d)
<1>1. x = Lower(m, d)
  OBVIOUS
<1>2. Writes(w, m) /\ TakesHandle(w.heap, m.heap, h, r, d)
  BY MakeMakes
<1> HIDE DEF m
<1>3. IsWorld(m) /\ m.heap \in Heaps /\ m.heap[d].ref = w.heap[d].ref + 1 /\ w.heap[d].ref \in Nat
      /\ m.heap[h] = r /\ Alike(w.heap[d], m.heap[d]) /\ \A k \in Objects \ {h, d} : m.heap[k] = w.heap[k]
  BY <1>2, FieldTypes DEF Writes, TakesHandle
<1>4. Writes(m, x) /\ Counts(m.heap, x.heap, d, m.heap[d].ref - 1)
  BY <1>1, <1>3, Lowered
<1>5. x.heap \in Heaps /\ x.heap[d].ref = w.heap[d].ref /\ Alike(m.heap[d], x.heap[d])
      /\ \A k \in Objects \ {d} : x.heap[k] = m.heap[k]
  BY <1>3, <1>4 DEF Counts
<1>6. x.heap[d] = w.heap[d]
  <2>1. x.heap[d] \in ObjectType /\ w.heap[d] \in ObjectType
    BY <1>5, FieldTypes
  <2> QED
    BY <1>3, <1>5, <2>1 DEF ObjectType, Alike, Built
<1>7. x.heap[h] = r /\ \A k \in Objects \ {h} : x.heap[k] = w.heap[k]
  BY <1>3, <1>5, <1>6
<1>8. Writes(w, x)
  BY <1>2, <1>4 DEF Writes
<1> QED
  BY <1>5, <1>7, <1>8 DEF BackMade, Gets

BackAsked(w, n, h, d, ok) ==
  Asked(w, d, h, ok, n) /\ IsWorld(n) /\ Gets(w.heap, n.heap, h, Rec("backbuffer", d))

LEMMA BackIs ==
  ASSUME NEW d \in Objects
  PROVE  LET o == Rec("backbuffer", d) IN
         /\ o \in ObjectType /\ o.kind = "backbuffer" /\ o.ref = 1 /\ o.dev = d /\ o.named
         /\ o.peer = None /\ o.bound = Unbound /\ o.recording = None /\ \A H : NewObject(H, o)
<1> DEFINE o == Rec("backbuffer", d)
<1>1. /\ o \in ObjectType /\ o.kind = "backbuffer" /\ o.ref = 1 /\ o.dev = d /\ o.named
      /\ o.peer = None /\ o.bound = Unbound /\ o.recording = None
  BY RecIs
<1> HIDE DEF o
<1>2. d # None
  BY DEF Objects, None
<1>3. Formed(o)
  BY <1>1, <1>2 DEF Formed
<1>4. \A H : NewObject(H, o)
  BY <1>1, <1>3 DEF NewObject
<1> QED
  BY <1>1, <1>4 DEF o

LEMMA BackAsks ==
  ASSUME NEW w, NEW d, NEW e, Hands(w, d, e, {}), NEW h \in Objects, w.heap[h].kind = "none",
         NEW ok \in BOOLEAN, NEW x, BackMade(w, x, h, d), NEW n, n = GetHostSurface(x, h, None, ok)
  PROVE  BackAsked(w, n, h, d, ok)
<1> DEFINE r == [op |-> "GET_SURFACE", h |-> h, of |-> None, ok |-> ok]
<1>1. HeapOK(w.heap, e, {}) /\ View(w, d) /\ Sound(w)
  BY HandsAre
<1>2. Writes(w, x) /\ Gets(w.heap, x.heap, h, Rec("backbuffer", d))
  BY DEF BackMade
<1>3. Sound(x) /\ Tells(x) = Tells(w)
  BY <1>1, <1>2, WriteSound
<1>4. h \notin Named(w.heap, d)
  BY <1>1, NoneIs
<1>5. n = Sync(x, r)
  BY DEF GetHostSurface
<1>6. r.op = "GET_SURFACE" /\ r.h = h /\ r.ok = ok /\ r.of = None
  OBVIOUS
<1> HIDE DEF r
<1>7. Asked(w, d, h, ok, n) /\ n.heap = x.heap
  BY <1>1, <1>3, <1>4, <1>5, <1>6, SyncsCreate
<1>8. IsWorld(n)
  BY <1>7 DEF Asked, Sound
<1> QED
  BY <1>2, <1>7, <1>8 DEF BackAsked

(* The device keeps it, with a reference of its own. *)
KeepsBack(n, h, d) == [Raise(n, h) EXCEPT !.heap[d].peer = h]

LEMMA BackPeered ==
  ASSUME NEW w, IsWorld(w), w.heap \in Heaps, NEW d \in Objects, NEW h \in Objects,
         NEW v, v = [w EXCEPT !.heap[d].peer = h]
  PROVE  Writes(w, v) /\ PeerSets(w.heap, v.heap, d, h)
<1> DEFINE o == [w.heap[d] EXCEPT !.peer = h]
           y == [w EXCEPT !.heap[d] = o]
<1>1. v = y
  OBVIOUS
<1>2. /\ o \in ObjectType /\ o.peer = h /\ o.kind = w.heap[d].kind /\ o.ref = w.heap[d].ref
      /\ o.named = w.heap[d].named /\ o.dev = w.heap[d].dev /\ o.recording = w.heap[d].recording
      /\ o.bound = w.heap[d].bound /\ o.value = w.heap[d].value /\ o.marks = w.heap[d].marks
  <2>1. w.heap[d] \in ObjectType /\ h \in Handles
    BY FieldTypes DEF Handles
  <2> QED
    BY <2>1 DEF ObjectType
<1> HIDE DEF o
<1>3. Writes(w, y) /\ Gets(w.heap, y.heap, d, o)
  BY <1>2, Changing
<1> HIDE DEF y
<1>4. v.heap \in Heaps /\ v.heap[d] = o /\ \A k \in Objects \ {d} : v.heap[k] = w.heap[k]
  BY <1>1, <1>3, Zenon DEF Gets
<1> QED
  BY <1>1, <1>2, <1>3, <1>4 DEF PeerSets

LEMMA BackKept ==
  ASSUME NEW w, NEW d, NEW e, Hands(w, d, e, {}), Shadows(w, d), NEW h \in Objects,
         w.heap[h].kind = "none", w.heap[d].peer = None,
         NEW n, BackAsked(w, n, h, d, TRUE), NEW v, v = KeepsBack(n, h, d)
  PROVE  Done(w, v, d, Plus(e, h), h)
<1> DEFINE o == Rec("backbuffer", d)
           u == Raise(n, h)
           f == Plus(e, h)
           g == Plus(f, h)
<1>1. /\ HeapOK(w.heap, e, {}) /\ w.heap \in Heaps /\ e \in [Objects -> Nat] /\ d \in Objects
      /\ w.heap[d].kind = "device" /\ w.heap[d].named
  BY HandsAre
<1>2. h # d
  BY <1>1
<1>3. /\ o \in ObjectType /\ o.kind = "backbuffer" /\ o.ref = 1 /\ o.dev = d /\ o.named
      /\ o.peer = None /\ o.bound = Unbound /\ o.recording = None /\ NewObject(w.heap, o)
  BY <1>1, BackIs
<1>4. v = [u EXCEPT !.heap[d].peer = h] /\ u = Raise(n, h)
  BY DEF KeepsBack
<1> HIDE DEF u
<1>5. /\ n.status = TRUE /\ Sound(n) /\ Tells(n).host.dev = d /\ Keeps(w, n) /\ IsWorld(n)
      /\ Tells(n).host.objs = Named(w.heap, d) \cup {h} /\ Gets(w.heap, n.heap, h, o)
  BY DEF BackAsked, Asked
<1> HIDE DEF o
<1>6. n.heap \in Heaps /\ n.heap[h] = o /\ \A k \in Objects \ {h} : n.heap[k] = w.heap[k]
  BY <1>5 DEF Gets
<1>7. /\ f \in [Objects -> Nat] /\ f[h] = 1 /\ \A k \in Objects \ {h} : f[k] = e[k]
  <2>1. e[h] = 0
    <3>1. w.heap[h].ref \in Nat /\ e[h] \in Nat /\ (e[h] > 0 => w.heap[h].kind # "none")
      BY <1>1, Counting
    <3> QED
      BY <3>1
  <2> QED
    BY <1>1, <2>1, PlusIs
<1>8. g \in [Objects -> Nat] /\ g[h] = 2 /\ \A k \in Objects \ {h} : g[k] = f[k]
  <2> HIDE DEF f
  <2> QED
    BY <1>7, PlusIs
<1>9. Moves(g, f, h, None)
  <2>1. f[h] > 0 /\ h \in Objects /\ f \in [Objects -> Nat]
    BY <1>7
  <2> HIDE DEF f
  <2>2. ASSUME NEW k \in Objects
        PROVE  f[k] + Is(k, h) = g[k] + Is(k, None)
    <3>1. f[k] \in Nat /\ k # None
      BY <2>1 DEF Objects, None
    <3> QED
      BY <1>7, <1>8, <3>1 DEF Is
  <2> QED
    BY <2>1, <2>2 DEF Moves
<1>10. HeapOK(n.heap, f, {})
  <2>1. MadeRefs(h, o, e, f)
    <3>1. Link(o, "dev") = None
      BY <1>3 DEF Link
    <3>2. ASSUME NEW k \in Objects \ {h}
          PROVE  f[k] + Is(k, None) = e[k]
      <4>1. k # None /\ e[k] \in Nat
        BY <1>1 DEF Objects, None
      <4> QED
        BY <1>7, <4>1 DEF Is
    <3> HIDE DEF f
    <3> QED
      BY <1>3, <1>7, <3>1, <3>2 DEF MadeRefs
  <2> HIDE DEF f
  <2> QED
    BY <1>1, <1>3, <1>5, <2>1, Made
<1> HIDE DEF f, g
<1>11. Writes(n, u) /\ Counts(n.heap, u.heap, h, 2)
  <2>1. n.heap[h].ref + 1 = 2
    BY <1>3, <1>6
  <2> QED
    BY <1>4, <1>5, <1>6, <2>1, Raised
<1>12. HeapOK(u.heap, g, {})
  <2>1. n.heap[h].kind = "backbuffer" /\ 2 + f[h] = g[h] + n.heap[h].ref /\ 2 \in Nat
    BY <1>3, <1>6, <1>7, <1>8
  <2> QED
    BY <1>8, <1>10, <1>11, <2>1, Recounted
<1>13. /\ u.heap \in Heaps /\ IsWorld(u) /\ Alike(n.heap[h], u.heap[h])
       /\ \A k \in Objects \ {h} : u.heap[k] = n.heap[k]
  BY <1>11 DEF Counts, Writes
<1>14. u.heap[d] = w.heap[d] /\ u.heap[h].kind = "backbuffer" /\ u.heap[h].dev = d /\ u.heap[h].named
  BY <1>1, <1>2, <1>3, <1>6, <1>13 DEF Alike, Built
<1>15. Writes(u, v) /\ PeerSets(u.heap, v.heap, d, h)
  BY <1>1, <1>4, <1>13, BackPeered, Zenon
<1>16. HeapOK(v.heap, f, {})
  <2>1. Moves(g, f, h, u.heap[d].peer)
    BY <1>9, <1>14
  <2>2. h \in Handles /\ u.heap[d].kind = "device"
    BY <1>1, <1>14 DEF Handles
  <2> QED
    BY <1>1, <1>12, <1>14, <1>15, <2>1, <2>2, PeerSet
<1>17. /\ v.heap[d].kind = "device" /\ v.heap[d].named /\ v.heap[d].dev = w.heap[d].dev
       /\ v.heap[d].kind = w.heap[d].kind /\ v.heap[d].named = w.heap[d].named
       /\ v.heap[d].bound = w.heap[d].bound /\ v.heap[d].value = w.heap[d].value
       /\ \A k \in Objects \ {d} : v.heap[k] = u.heap[k]
  BY <1>1, <1>14, <1>15 DEF PeerSets
<1>18. \A k \in Objects \ {h} : v.heap[k].kind = w.heap[k].kind /\ v.heap[k].dev = w.heap[k].dev
                                  /\ v.heap[k].named = w.heap[k].named
  <2>1. ASSUME NEW k \in Objects \ {h}, k # d
        PROVE  v.heap[k] = w.heap[k]
    BY <1>6, <1>13, <1>17, <2>1
  <2> QED
    BY <1>17, <2>1
<1>19. v.heap[h].kind = "backbuffer" /\ v.heap[h].dev = d /\ v.heap[h].named
  BY <1>2, <1>14, <1>17
<1>20. Named(v.heap, d) = Named(w.heap, d) \cup {h}
  <2>1. ASSUME NEW k \in Objects
        PROVE  k \in Named(v.heap, d) <=> k \in Named(w.heap, d) \cup {h}
    <3>1. CASE k = h
      BY <1>19, <3>1 DEF Named
    <3>2. CASE k # h
      BY <1>18, <3>2 DEF Named
    <3> QED
      BY <3>1, <3>2
  <2> QED
    BY <2>1 DEF Named
<1>21. Sound(v) /\ Tells(v) = Tells(n)
  <2>1. Sound(u) /\ Tells(u) = Tells(n)
    BY <1>5, <1>11, WriteSound
  <2> QED
    BY <1>15, <2>1, WriteSound
<1>22. View(v, d)
  BY <1>1, <1>5, <1>17, <1>20, <1>21 DEF View
<1>23. Grows(w.heap, v.heap, d, h)
  BY <1>18, <1>19 DEF Grows
<1>24. Shadows(v, d)
  <2>1. Keeps(w, v)
    BY <1>5, <1>21 DEF Keeps
  <2> QED
    BY <1>17, <2>1, ShadowsKept
<1>25. Done(w, v, d, f, h)
  BY <1>16, <1>22, <1>23, <1>24 DEF Done, Moved, Hands
<1> QED
  BY <1>25 DEF f

(* One that the host does not give is freed. *)
LEMMA BackLeft ==
  ASSUME NEW w, NEW d, NEW e, Hands(w, d, e, {}), Shadows(w, d), NEW h \in Objects,
         w.heap[h].kind = "none", NEW n, BackAsked(w, n, h, d, FALSE), NEW v, v = DropSurface(Unname(n, h), h)
  PROVE  Done(w, v, d, e, h)
<1> DEFINE r == Rec("backbuffer", d)
           u == Unname(n, h)
           o == [n.heap[h] EXCEPT !.named = FALSE]
           z == [u EXCEPT !.heap[h] = Gone]
<1>1. /\ HeapOK(w.heap, e, {}) /\ View(w, d) /\ w.heap \in Heaps /\ d \in Objects
  BY HandsAre
<1>2. /\ Sound(n) /\ Tells(n).host.dev = d /\ Keeps(w, n) /\ IsWorld(n)
      /\ Tells(n).host.objs = Named(w.heap, d) /\ Gets(w.heap, n.heap, h, r)
  BY DEF BackAsked, Asked
<1>3. r \in ObjectType /\ r.kind = "backbuffer" /\ r.ref = 1
  BY <1>1, BackIs
<1> HIDE DEF r
<1>4. n.heap \in Heaps /\ n.heap[h] = r /\ \A k \in Objects \ {h} : n.heap[k] = w.heap[k]
  BY <1>2 DEF Gets
<1>5. Writes(n, u) /\ Gets(n.heap, u.heap, h, o)
  BY <1>2, <1>4, UnnameGets
<1>6. o.kind = "backbuffer" /\ o.ref = 1 /\ ~o.named
  BY <1>3, <1>4 DEF ObjectType
<1>7. v = DropSurface(u, h)
  OBVIOUS
<1> HIDE DEF u, o
<1>8. /\ IsWorld(u) /\ u.heap \in Heaps /\ u.heap[h].kind = "backbuffer" /\ u.heap[h].ref = 1
      /\ ~u.heap[h].named /\ \A k \in Objects \ {h} : u.heap[k] = n.heap[k]
  BY <1>5, <1>6 DEF Gets, Writes
<1>9. v = z
  <2>1. DropSurface(u, h) = DropBack(u, h)
    BY <1>8 DEF DropSurface
  <2>2. HostRelease(u, h) = u
    BY <1>8, ReleasedDev
  <2>3. DropBack(u, h) = Free(u, h)
    BY <1>8, <2>2 DEF DropBack
  <2> QED
    BY <1>7, <2>1, <2>3 DEF Free
<1>10. Writes(u, z) /\ Gets(u.heap, z.heap, h, Gone)
  BY <1>8, GoneIs, Changing
<1> HIDE DEF z
<1>11. v.heap = w.heap
  <2>1. w.heap[h] = Gone
    BY <1>1, NoneIs
  <2>2. v.heap \in Heaps /\ v.heap[h] = Gone /\ \A k \in Objects \ {h} : v.heap[k] = u.heap[k]
    BY <1>9, <1>10 DEF Gets
  <2>3. \A k \in Objects : v.heap[k] = w.heap[k]
    BY <1>4, <1>8, <2>1, <2>2
  <2> QED
    BY <1>1, <2>2, <2>3 DEF Heaps
<1>12. Sound(v) /\ Tells(v) = Tells(n)
  <2>1. Sound(u) /\ Tells(u) = Tells(n)
    BY <1>2, <1>5, WriteSound
  <2> QED
    BY <1>9, <1>10, <2>1, WriteSound
<1>13. View(v, d)
  BY <1>1, <1>2, <1>11, <1>12 DEF View
<1>14. Shadows(v, d)
  <2>1. Keeps(w, v)
    BY <1>2, <1>12 DEF Keeps
  <2> QED
    BY <1>11, <2>1, ShadowsKept
<1>15. Grows(w.heap, v.heap, d, h)
  BY <1>11, GrowsNone
<1> QED
  BY <1>1, <1>11, <1>13, <1>14, <1>15 DEF Done, Moved, Hands

LEMMA BackGives ==
  ASSUME NEW w, NEW d, NEW e, Hands(w, d, e, {}), Shadows(w, d), NEW h \in Objects,
         w.heap[h].kind = "none", w.heap[d].peer = None, NEW ok \in BOOLEAN,
         NEW x, x = Lower(Make(w, h, "backbuffer", d), d), NEW n, n = GetHostSurface(x, h, None, ok),
         NEW a, a = Tried(ok /\ n.status, KeepsBack(n, h, d), DropSurface(Unname(n, h), h))
  PROVE  Gives(w, a, d, e, h)
<1>1. IsWorld(w) /\ w.heap \in Heaps /\ d \in Objects /\ w.heap[d].kind = "device"
  BY HandsAre
<1>2. BackMade(w, x, h, d)
  BY <1>1, BackMakes
<1>3. BackAsked(w, n, h, d, ok)
  BY <1>2, BackAsks
<1>4. n.status = TRUE
  BY <1>3 DEF BackAsked, Asked
<1>5. ASSUME ok
      PROVE  a.done /\ Done(w, a.w, d, Plus(e, h), h)
  <2>1. a.done /\ a.w = KeepsBack(n, h, d)
    BY <1>4, <1>5, Zenon DEF Tried
  <2>2. BackAsked(w, n, h, d, TRUE)
    BY <1>3, <1>5, Zenon
  <2> QED
    BY <2>1, <2>2, BackKept, Zenon
<1>6. ASSUME ~ok
      PROVE  ~a.done /\ Done(w, a.w, d, e, h)
  <2>1. ~a.done /\ a.w = DropSurface(Unname(n, h), h)
    BY <1>4, <1>6 DEF Tried
  <2>2. BackAsked(w, n, h, d, FALSE)
    BY <1>3, <1>6, Zenon
  <2> QED
    BY <2>1, <2>2, BackLeft, Zenon
<1> QED
  BY <1>5, <1>6 DEF Gives

(* A device comes after all that the program had of the last one. *)
DeviceNew(w, v, h, e) ==
  /\ Hands(v, h, Plus(e, h), {}) /\ Shadows(v, h)
  /\ v.heap[h].kind = "device" /\ v.heap[h].dev = None
  /\ \A k \in Objects \ {h} : v.heap[k] = w.heap[k]

NewDevice == [Gone EXCEPT !.kind = "device", !.ref = 1]

DeviceIs(o, b) ==
  /\ o \in ObjectType /\ o.kind = "device" /\ o.ref = 1 /\ o.dev = None /\ o.peer = None
  /\ o.bound = Unbound /\ o.value = Unset /\ o.recording = None /\ o.named = b

LEMMA NewDeviceIs == DeviceIs(NewDevice, FALSE)
<1>1. Gone \in ObjectType
  BY GoneIs
<1>2. NewDevice \in ObjectType
  BY <1>1, Zenon DEF NewDevice, ObjectType
<1> QED
  BY <1>2 DEF NewDevice, Gone, DeviceIs

LEMMA DeviceMade ==
  ASSUME NEW w, Sound(w), NEW e, HeapOK(w.heap, e, {}), NEW h \in Objects, w.heap[h].kind = "none",
         \A k \in Objects : w.heap[k].dev # h, NEW v, Sound(v), v.heap \in Heaps, DeviceIs(v.heap[h], TRUE),
         \A k \in Objects \ {h} : v.heap[k] = w.heap[k],
         Tells(v).host.dev = h, Tells(v).host.objs = {h}, Tells(v).host.bound = Unbound,
         Tells(v).host.value = Unset
  PROVE  DeviceNew(w, v, h, e)
<1> DEFINE o == v.heap[h]
           f == Plus(e, h)
<1>1. /\ w.heap \in Heaps /\ e \in [Objects -> Nat]
  BY DEF HeapOK
<1>2. /\ o \in ObjectType /\ o.kind = "device" /\ o.ref = 1 /\ o.dev = None /\ o.peer = None
      /\ o.bound = Unbound /\ o.value = Unset /\ o.recording = None /\ o.named
  BY DEF DeviceIs
<1>3. Gets(w.heap, v.heap, h, o)
  BY DEF Gets
<1> HIDE DEF o
<1>4. NewObject(w.heap, o)
  <2>1. Formed(o)
    BY <1>2 DEF Formed, Hosted, Plain
  <2> QED
    BY <1>2, <2>1 DEF NewObject
<1>5. MadeRefs(h, o, e, f)
  <2>1. e[h] = 0
    <3>1. w.heap[h].ref \in Nat /\ e[h] \in Nat /\ (e[h] > 0 => w.heap[h].kind # "none")
      BY <1>1, Counting
    <3> QED
      BY <3>1
  <2>2. f \in [Objects -> Nat] /\ f[h] = 1 /\ \A k \in Objects \ {h} : f[k] = e[k]
    BY <1>1, <2>1, PlusIs
  <2>3. Link(o, "dev") = None
    BY <1>2 DEF Link
  <2> HIDE DEF f
  <2>4. ASSUME NEW k \in Objects \ {h}
        PROVE  f[k] + Is(k, None) = e[k]
    <3>1. k # None /\ e[k] \in Nat
      BY <1>1 DEF Objects, None
    <3> QED
      BY <2>2, <3>1 DEF Is
  <2> QED
    BY <1>2, <2>2, <2>3, <2>4 DEF MadeRefs
<1> HIDE DEF f
<1>6. HeapOK(v.heap, f, {})
  BY <1>3, <1>4, <1>5, Made
<1>7. v.heap[h].kind = "device" /\ v.heap[h].named /\ v.heap[h].dev = None
      /\ v.heap[h].bound = Unbound /\ v.heap[h].value = Unset
  BY <1>2 DEF o
<1>8. Named(v.heap, h) = {h}
  BY <1>7 DEF Named
<1>9. View(v, h)
  BY <1>7, <1>8 DEF View
<1>10. Shadows(v, h)
  <2> DEFINE g == Tells(v).host
  <2>1. g.bound = v.heap[h].bound /\ g.value = v.heap[h].value
    BY <1>7
  <2>2. Agree(g, v.heap[h].bound, v.heap[h].value)
    <3> HIDE DEF g
    <3> QED
      BY <2>1 DEF Agree
  <2> QED
    BY <2>2 DEF Shadows
<1> QED
  BY <1>6, <1>7, <1>9, <1>10 DEF DeviceNew, Hands, f

DeviceAsks(w, h, how) == SendCreate([w EXCEPT !.heap[h] = NewDevice], "CREATE_DEVICE", h, how)
DeviceNamed(n, h)    == [n EXCEPT !.heap[h].named = TRUE]

AskedDevice(w, n, h, how) ==
  /\ Sound(n) /\ n.status = TRUE /\ Gets(w.heap, n.heap, h, NewDevice)
  /\ how = "ok" => /\ Tells(n).host.dev = h /\ Tells(n).host.objs = {h}
                   /\ Tells(n).host.bound = Unbound /\ Tells(n).host.value = Unset

LEMMA DeviceAsked ==
  ASSUME NEW w, Sound(w), w.heap \in Heaps, NEW h \in Objects, NEW how \in Outcomes,
         NEW n, n = DeviceAsks(w, h, how)
  PROVE  AskedDevice(w, n, h, how)
<1> DEFINE x == [w EXCEPT !.heap[h] = NewDevice]
           r == [op |-> "CREATE_DEVICE", h |-> h, how |-> how]
           y == RunRecord(Tells(x), r)
<1>1. n = Sync(x, r)
  BY DEF DeviceAsks, SendCreate
<1>2. NewDevice \in ObjectType /\ IsWorld(w)
  BY NewDeviceIs DEF DeviceIs, Sound
<1>3. Writes(w, x) /\ Gets(w.heap, x.heap, h, NewDevice)
  BY <1>2, Changing
<1>4. r.op = "CREATE_DEVICE" /\ r.h = h /\ r.how = how
  OBVIOUS
<1> HIDE DEF x, r
<1>5. Sound(x)
  BY <1>3, WriteSound
<1>6. Ready(Tells(x))
  BY <1>5, SoundReady
<1>7. /\ Ready(y)
      /\ how = "ok" => /\ y.host.dev = h /\ y.host.objs = {h} /\ y.host.bound = Unbound
                       /\ y.host.value = Unset /\ ~y.host.lost
  <2>1. y = RunRecord(Tells(x), r)
    OBVIOUS
  <2> HIDE DEF y
  <2> QED
    BY <1>4, <1>6, <2>1, CreateDeviceRun
<1>8. r # Doorbell
  BY <1>4, DoorbellIs
<1>9. Synced(x, n, y)
  BY <1>1, <1>5, <1>7, <1>8, Syncing
<1>10. Sound(n) /\ Tells(n) = y /\ n.heap = x.heap /\ n.status = TRUE
  BY <1>9 DEF Synced
<1> HIDE DEF y
<1> QED
  BY <1>3, <1>7, <1>10 DEF AskedDevice

LEMMA DeviceGives ==
  ASSUME NEW w, Sound(w), NEW e, HeapOK(w.heap, e, {}), NEW h \in Objects, w.heap[h].kind = "none",
         \A k \in Objects : w.heap[k].dev # h, NEW how \in Outcomes, NEW n, n = DeviceAsks(w, h, how),
         NEW a, a = Tried(how = "ok" /\ n.status, DeviceNamed(n, h), Free(n, h))
  PROVE  /\ a.done => DeviceNew(w, a.w, h, e)
         /\ ~a.done => Sound(a.w) /\ a.w.heap = w.heap
<1>1. w.heap \in Heaps
  BY DEF HeapOK
<1>2. /\ Sound(n) /\ n.status = TRUE /\ Gets(w.heap, n.heap, h, NewDevice)
      /\ how = "ok" => /\ Tells(n).host.dev = h /\ Tells(n).host.objs = {h}
                       /\ Tells(n).host.bound = Unbound /\ Tells(n).host.value = Unset
  <2>1. AskedDevice(w, n, h, how)
    BY <1>1, DeviceAsked
  <2> QED
    BY <2>1 DEF AskedDevice
<1>3. n.heap \in Heaps /\ n.heap[h] = NewDevice /\ IsWorld(n) /\ \A k \in Objects \ {h} : n.heap[k] = w.heap[k]
  BY <1>2 DEF Gets, Sound
<1>4. ASSUME how = "ok"
      PROVE  a.done /\ DeviceNew(w, a.w, h, e)
  <2> DEFINE o == [n.heap[h] EXCEPT !.named = TRUE]
             v == [n EXCEPT !.heap[h] = o]
  <2>1. a.done /\ a.w = v
    BY <1>2, <1>4, Zenon DEF Tried, DeviceNamed
  <2>2. DeviceIs(o, TRUE)
    BY <1>3, NewDeviceIs, Zenon DEF DeviceIs, ObjectType
  <2> HIDE DEF o
  <2>3. o \in ObjectType
    BY <2>2 DEF DeviceIs
  <2>4. Writes(n, v) /\ Gets(n.heap, v.heap, h, o)
    BY <1>3, <2>3, Changing
  <2> HIDE DEF v
  <2>5. Sound(v) /\ Tells(v) = Tells(n)
    BY <1>2, <2>4, WriteSound
  <2>6. v.heap \in Heaps /\ v.heap[h] = o /\ \A k \in Objects \ {h} : v.heap[k] = w.heap[k]
    BY <1>3, <2>4 DEF Gets
  <2>7. DeviceNew(w, v, h, e)
    BY <1>2, <1>4, <2>2, <2>5, <2>6, DeviceMade, Zenon
  <2> QED
    BY <2>1, <2>7
<1>5. ASSUME how # "ok"
      PROVE  ~a.done /\ Sound(a.w) /\ a.w.heap = w.heap
  <2> DEFINE v == [n EXCEPT !.heap[h] = Gone]
  <2>1. ~a.done /\ a.w = v
    BY <1>2, <1>5 DEF Tried, Free
  <2>2. Writes(n, v) /\ Gets(n.heap, v.heap, h, Gone)
    BY <1>3, GoneIs, Changing
  <2> HIDE DEF v
  <2>3. Sound(v)
    BY <1>2, <2>2, WriteSound
  <2>4. w.heap[h] = Gone
    BY NoneIs
  <2>5. v.heap \in Heaps /\ \A k \in Objects : v.heap[k] = w.heap[k]
    BY <1>3, <2>2, <2>4 DEF Gets
  <2>6. v.heap = w.heap
    BY <1>1, <2>5 DEF Heaps
  <2> QED
    BY <2>1, <2>3, <2>6
<1> QED
  BY <1>4, <1>5

-----------------------------------------------------------------------------
(* The invariant *)

(* Two worlds with the same window. *)
SameWindow(w, v) == IsWorld(v) /\ Encoder(v) = Encoder(w) /\ v.calls = w.calls

LEMMA WindowSound ==
  ASSUME NEW w, Sound(w), NEW v, SameWindow(w, v)
  PROVE  Sound(v) /\ Tells(v) = Tells(w)
BY DEF SameWindow, Sound, Tells, Sends, Telling, Told

(* The executor never forgets that it has given up a batch. *)
LEMMA RunRefused ==
  ASSUME NEW x, IsExec(x), NEW r, RunRecord(x, r).refused = FALSE
  PROVE  x.refused = FALSE
BY DEF IsExec, RunRecord, Refuse, Put, RunCreateDevice, RunReset, RunRelease, RunBind,
       RunValue, RunCreate, RunGetSurface, RunDraw, RunUpdate, RunQuery, RunSurface

(* Nothing is under way: what the window has is all there is. *)
LEMMA RestSound ==
  ASSUME NEW w, IsWorld(w), w.pending = <<>>, w.calls = <<>>, w.refused = FALSE, w.host \in HostType
  PROVE  Sound(w) /\ Tells(w).host = w.host
<1> DEFINE x == Encoder(w)
<1>1. IsEncoder(x) /\ x.pending = <<>> /\ x.host = w.host /\ x.refused = w.refused
  <2>1. 0 <= BatchLen
    BY BoundAssumption
  <2> QED
    BY <2>1, SeqEmpty DEF Encoder, IsEncoder
<1> HIDE DEF x
<1>2. SendAll(x, w.calls) = x /\ Listed(w.calls)
  BY SendAllNone, SeqEmpty
<1>3. Seen(x) = Exec(x)
  BY <1>1, RunAllNone DEF Seen
<1>4. IsExec(Exec(x)) /\ Exec(x).status = TRUE /\ Exec(x).refused = FALSE /\ Exec(x).host = w.host
  BY <1>1 DEF Exec, IsExec
<1>5. Told(x, w.calls) = Exec(x)
  BY <1>2, <1>3 DEF Told
<1>6. Telling(x, w.calls)
  BY <1>1, <1>2, <1>4, <1>5 DEF Telling
<1>7. Tells(w) = Exec(x) /\ Sends(w) = x
  BY <1>2, <1>5 DEF Tells, Sends, x
<1> QED
  BY <1>1, <1>4, <1>6, <1>7 DEF Sound, x

(* The window is run to its end. *)
LEMMA FlushWorld ==
  ASSUME NEW w, IsWorld(w), Sound(w), w.calls = <<>>
  PROVE  /\ Flush(w).host = Tells(w).host /\ Flush(w).refused = FALSE /\ Flush(w).pending = <<>>
         /\ Flush(w).heap = w.heap
<1> DEFINE x == Encoder(w)
<1>1. SendAll(x, w.calls) = x
  BY SendAllNone
<1>2. IsEncoder(x) /\ Seen(x) = Tells(w) /\ Seen(x).status = TRUE /\ Tells(w).refused = FALSE
  BY <1>1 DEF Sound, Telling, Tells, Told
<1>3. /\ Flush(x).pending = <<>> /\ Flush(x).host = Seen(x).host /\ Flush(x).refused = Seen(x).refused
  BY <1>2, FlushSeen, Zenon
<1>4. x.pending = w.pending /\ Exec(x) = Exec(w) /\ x.host = w.host /\ x.refused = w.refused
  BY DEF Encoder, Exec
<1>5. CASE w.pending = <<>>
  BY <1>2, <1>3, <1>4, <1>5 DEF Flush
<1>6. CASE w.pending # <<>>
  <2>1. Seen(x) = FoldLeft(RunRecord, Exec(w), w.pending)
    BY <1>4 DEF Seen, RunAll
  <2> HIDE DEF x
  <2>2. Flush(w) = [WithExec(w, Seen(x)) EXCEPT !.pending = <<>>]
    BY <1>6, <2>1 DEF Flush
  <2>3. /\ Flush(w).host = Seen(x).host /\ Flush(w).refused = Seen(x).refused
        /\ Flush(w).pending = <<>> /\ Flush(w).heap = w.heap
    BY <2>2 DEF WithExec, IsWorld, WorldFields
  <2> QED
    BY <1>2, <2>3
<1> QED
  BY <1>5, <1>6, Zenon

Remembers(x, q) == RunAll(x, q).refused = FALSE => x.refused = FALSE

LEMMA RunAllRefused ==
  ASSUME NEW x, IsExec(x)
  PROVE  \A q : Listed(q) => Remembers(x, q)
<1> DEFINE S == {n \in Nat : \A q : Listed(q) /\ Len(q) = n => Remembers(x, q)}
<1>1. 0 \in S
  <2> SUFFICES ASSUME NEW q, Listed(q), Len(q) = 0 PROVE Remembers(x, q)
    OBVIOUS
  <2>1. q = <<>>
    BY DEF Listed
  <2> QED
    BY <2>1, RunAllNone DEF Remembers
<1>2. ASSUME NEW n \in Nat, n \in S PROVE n + 1 \in S
  <2> SUFFICES ASSUME NEW q, Listed(q), Len(q) = n + 1 PROVE Remembers(x, q)
    OBVIOUS
  <2> DEFINE p == [i \in 1..n |-> q[i]]
  <2>1. Listed(p) /\ Len(p) = n
    BY DEF Listed
  <2>2. q = Append(p, q[n + 1])
    <3>1. /\ Listed(Append(p, q[n + 1])) /\ Len(Append(p, q[n + 1])) = n + 1
          /\ Append(p, q[n + 1])[n + 1] = q[n + 1]
          /\ \A i \in 1..n : Append(p, q[n + 1])[i] = p[i]
      BY <2>1, SeqAppend
    <3>2. \A i \in 1..n : p[i] = q[i]
      OBVIOUS
    <3> HIDE DEF p
    <3>3. \A i \in 1..n + 1 : Append(p, q[n + 1])[i] = q[i]
      BY <3>1, <3>2
    <3> QED
      BY <3>1, <3>3 DEF Listed
  <2>3. IsExec(RunAll(x, p))
    BY <2>1, RunAllKeepsExec
  <2>4. Remembers(x, p)
    BY <1>2, <2>1
  <2> HIDE DEF p
  <2>5. RunAll(x, Append(p, q[n + 1])) = RunRecord(RunAll(x, p), q[n + 1])
    BY <2>1, RunAllMore
  <2>6. RunAll(x, q).refused = FALSE => RunAll(x, p).refused = FALSE
    BY <2>2, <2>3, <2>5, RunRefused, Zenon
  <2> QED
    BY <2>4, <2>6 DEF Remembers
<1> HIDE DEF S
<1>3. \A n \in Nat : n \in S
  BY <1>1, <1>2, EveryNumber
<1> SUFFICES ASSUME NEW q, Listed(q) PROVE Remembers(x, q)
  OBVIOUS
<1>4. Len(q) \in S
  BY <1>3 DEF Listed
<1> QED
  BY <1>4 DEF S

LEMMA RestRefused ==
  ASSUME NEW w, Sound(w), w.calls = <<>>
  PROVE  w.refused = FALSE /\ w.host \in HostType
<1> DEFINE x == Encoder(w)
<1>1. SendAll(x, w.calls) = x
  BY SendAllNone
<1>2. IsEncoder(x) /\ Seen(x) = Tells(w) /\ Tells(w).refused = FALSE /\ x.host \in HostType
  BY <1>1 DEF Sound, Telling, Tells, Told, Sends
<1>3. x.host = w.host /\ x.refused = w.refused /\ Exec(x).refused = w.refused
  BY DEF Encoder, Exec
<1>4. Listed(x.pending)
  BY <1>2 DEF IsEncoder
<1>5. IsExec(Exec(x)) /\ Seen(x) = RunAll(Exec(x), x.pending)
  BY DEF Exec, IsExec, Seen
<1> HIDE DEF x
<1>6. RunAll(Exec(x), x.pending).refused = FALSE
  BY <1>2, <1>5
<1>7. Exec(x).refused = FALSE
  BY <1>4, <1>5, <1>6, RunAllRefused, Zenon DEF Remembers
<1> QED
  BY <1>2, <1>3, <1>7

(* The objects and the window of a program, with its references e and the  *)
(* next handle.                                                            *)
WorldOK(w, e, nx) ==
  /\ HeapOK(w.heap, e, {}) /\ Sound(w)
  /\ \A o \in Objects : (w.heap[o].kind # "none" => o < nx) /\ w.heap[o].dev < nx
  /\ \A o \in Objects : e[o] > 0 => View(w, Owner(w.heap, o)) /\ Shadows(w, Owner(w.heap, o))

(* What a call has done comes to, in the window. *)
Comes(v, u) == IsWorld(u) /\ Encoder(u) = Encoder(Window(v)) /\ u.calls = <<>> /\ u.heap = v.heap

LEMMA ComesSound ==
  ASSUME NEW v, Sound(v), NEW u, Comes(v, u)
  PROVE  Sound(u) /\ Tells(u) = Tells(v)
<1>1. Sound(Window(v)) /\ Window(v).calls = <<>> /\ Tells(Window(v)) = Tells(v)
  BY WindowTakes
<1>2. SameWindow(Window(v), u)
  BY <1>1 DEF SameWindow, Comes
<1> QED
  BY <1>1, <1>2, WindowSound

LEMMA OneOwner ==
  ASSUME NEW w, NEW e, NEW nx, WorldOK(w, e, nx), NEW d, View(w, d), NEW o \in Objects, e[o] > 0
  PROVE  Owner(w.heap, o) = d
<1>1. View(w, Owner(w.heap, o))
  BY DEF WorldOK
<1> QED
  BY <1>1 DEF View

LEMMA CallKeeps ==
  ASSUME NEW w, NEW e, NEW nx \in Nat, WorldOK(w, e, nx), NEW d, NEW n, NEW f, NEW v, Done(w, v, d, f, n),
         View(w, d), NEW my \in Nat, (n = None /\ my = nx) \/ (n = nx /\ my = nx + 1), nx > 0,
         \A o \in Objects : f[o] > 0 => e[o] > 0 \/ Owner(w.heap, o) = d \/ o = n,
         NEW u, Comes(v, u)
  PROVE  WorldOK(u, f, my)
<1>1. /\ View(v, d) /\ HeapOK(v.heap, f, {}) /\ Shadows(v, d) /\ Grows(w.heap, v.heap, d, n)
  BY DEF Done, Moved, Hands
<1>2. Sound(v) /\ Sound(u) /\ Tells(u) = Tells(v) /\ u.heap = v.heap
  <2>1. Sound(v)
    BY <1>1 DEF View
  <2> QED
    BY <2>1, ComesSound DEF Comes
<1>3. View(u, d) /\ Shadows(u, d)
  BY <1>1, <1>2 DEF View, Shadows
<1>4. /\ w.heap \in Heaps /\ v.heap \in Heaps /\ \A o \in Objects : Formed(v.heap[o])
      /\ d \in Objects /\ w.heap[d].kind = "device"
      /\ \A o \in Objects : (w.heap[o].kind # "none" => o < nx) /\ w.heap[o].dev < nx
  BY <1>1 DEF HeapOK, WorldOK, View
<1>5. ASSUME NEW o \in Objects
      PROVE  (v.heap[o].kind # "none" => o < my) /\ v.heap[o].dev < my
  <2>1. CASE v.heap[o].kind = "none"
    <3>1. v.heap[o].dev = 0
      BY <1>4, <2>1 DEF Formed, Gone, None
    <3> QED
      BY <2>1, <3>1
  <2>2. CASE v.heap[o].kind = w.heap[o].kind /\ v.heap[o].dev = w.heap[o].dev
    <3>1. v.heap[o].dev \in Nat /\ o \in Nat
      BY <1>4, FieldTypes, HandleAssumption DEF Handles, Objects, None
    <3> QED
      BY <1>4, <2>2, <3>1
  <2>3. CASE o = n /\ v.heap[o].dev = d
    <3>1. n = nx /\ my = nx + 1
      BY <2>3 DEF Objects, None
    <3>2. d < nx /\ d \in Nat
      BY <1>4, HandleAssumption DEF Objects
    <3> QED
      BY <2>3, <3>1, <3>2
  <2> QED
    BY <1>1, <2>1, <2>2, <2>3 DEF Grows
<1>6. ASSUME NEW o \in Objects, f[o] > 0
      PROVE  Owner(v.heap, o) = d
  <2>1. v.heap[o].kind # "none"
    BY <1>1, <1>6, Counting
  <2>2. CASE v.heap[o].kind = w.heap[o].kind /\ v.heap[o].dev = w.heap[o].dev
    <3>1. Owner(v.heap, o) = Owner(w.heap, o)
      BY <2>2 DEF Owner
    <3>2. o # n
      <4>1. o < nx /\ o # None
        BY <1>4, <2>1, <2>2 DEF Objects, None
      <4> QED
        BY <4>1
    <3>3. CASE e[o] > 0
      BY <3>1, <3>3, OneOwner
    <3> QED
      BY <1>6, <3>1, <3>2, <3>3
  <2>3. CASE o = n /\ v.heap[o].dev = d /\ v.heap[o].kind # "device"
    BY <2>3 DEF Owner
  <2> QED
    BY <1>1, <2>1, <2>2, <2>3 DEF Grows
<1> QED
  BY <1>1, <1>2, <1>3, <1>5, <1>6 DEF WorldOK

Bounded ==
  /\ next \in Nat \ {0} /\ runs \in Nat
  /\ program.handles \in Nat /\ program.handles =< MaxHandle
  /\ program.sets \subseteq States \X Values
Idle == \A o \in Objects : app[o] = 0 /\ heap[o].kind = "none"

Inv == WorldOK(World, app, next) /\ Bounded /\ (running \/ Idle)

LEMMA WorldIs ==
  /\ IsWorld(World) /\ World.heap = heap /\ World.calls = <<>> /\ World.pending = pending
  /\ World.host = host /\ World.refused = refused /\ World.status = status
BY DEF World, IsWorld, WorldFields

LEMMA BecomesComes ==
  ASSUME NEW v, Sound(v), Becomes(v)
  PROVE  Comes(v, World')
<1>1. Window(v).calls = <<>> /\ Window(v).heap = v.heap
  BY WindowTakes
<1>2. /\ heap' = Window(v).heap /\ pending' = Window(v).pending /\ status' = Window(v).status
      /\ host' = Window(v).host /\ refused' = Window(v).refused
  BY DEF Becomes
<1>3. IsWorld(World') /\ World'.calls = <<>> /\ World'.heap = heap'
  BY DEF World, IsWorld, WorldFields
<1>4. Encoder(World') = Encoder(Window(v))
  BY <1>2 DEF World, Encoder
<1> QED
  BY <1>1, <1>2, <1>3, <1>4 DEF Comes

LEMMA InvParts ==
  ASSUME Inv
  PROVE  /\ WorldOK(World, app, next) /\ HeapOK(heap, app, {}) /\ Sound(World)
         /\ heap \in Heaps /\ app \in [Objects -> Nat] /\ next \in Nat \ {0}
         /\ \A o \in Objects : Formed(heap[o])
<1>1. WorldOK(World, app, next) /\ next \in Nat \ {0}
  BY DEF Inv, Bounded
<1>2. HeapOK(heap, app, {}) /\ Sound(World)
  BY <1>1, WorldIs DEF WorldOK
<1> QED
  BY <1>1, <1>2 DEF HeapOK

LEMMA HeldHands ==
  ASSUME Inv, NEW o \in Objects, app[o] > 0
  PROVE  LET d == Owner(heap, o) IN Hands(World, d, app, {}) /\ Shadows(World, d) /\ View(World, d) /\ d \in Objects
<1>1. View(World, Owner(heap, o)) /\ Shadows(World, Owner(heap, o))
  BY InvParts, WorldIs DEF WorldOK
<1>2. HeapOK(heap, app, {})
  BY InvParts
<1> QED
  BY <1>1, <1>2, WorldIs DEF Hands, View

(* The next handle is free, and no object was ever the device of one. *)
LEMMA FreshHandle ==
  ASSUME Inv, Fresh
  PROVE  /\ next \in Objects /\ heap[next].kind = "none" /\ next' = next + 1
         /\ \A k \in Objects : heap[k].dev # next
<1>1. next \in Nat \ {0} /\ program.handles =< MaxHandle /\ next =< program.handles /\ next' = next + 1
      /\ program.handles \in Nat
  BY DEF Inv, Bounded, Fresh
<1>2. next \in Objects
  BY <1>1, HandleAssumption DEF Objects
<1>3. \A o \in Objects : (heap[o].kind # "none" => o < next) /\ heap[o].dev < next
  BY InvParts, WorldIs DEF WorldOK
<1> QED
  BY <1>1, <1>2, <1>3

(* The invariant holds after a call of the program. *)
LEMMA CallInv ==
  ASSUME Inv, running, SameRun, NEW d, View(World, d), NEW n, NEW v, Done(World, v, d, app', n), Becomes(v),
         (n = None /\ next' = next) \/ (n = next /\ next' = next + 1),
         \A o \in Objects : app'[o] > 0 => app[o] > 0 \/ Owner(heap, o) = d \/ o = n
  PROVE  Inv'
<1>1. WorldOK(World, app, next) /\ next \in Nat \ {0}
  BY InvParts
<1>2. Sound(v)
  BY DEF Done, Moved, Hands, View
<1>3. Comes(v, World')
  BY <1>2, BecomesComes
<1>4. next' \in Nat \ {0} /\ next \in Nat /\ next > 0 /\ next' \in Nat
  BY <1>1
<1>5. \A o \in Objects : app'[o] > 0 => app[o] > 0 \/ Owner(World.heap, o) = d \/ o = n
  BY WorldIs
<1>6. WorldOK(World', app', next')
  BY <1>1, <1>3, <1>4, <1>5, CallKeeps
<1>7. Bounded' /\ running'
  BY <1>4 DEF SameRun, Bounded, Inv
<1> QED
  BY <1>6, <1>7 DEF Inv

LEMMA GivenIs ==
  ASSUME Inv, NEW h \in Objects, Given(h)
  PROVE  app' = Plus(app, h) /\ \A o \in Objects : app'[o] > 0 => app[o] > 0 \/ o = h
<1>1. app \in [Objects -> Nat] /\ app' = [app EXCEPT ![h] = @ + 1]
  BY InvParts DEF Given
<1>2. app' = Plus(app, h)
  <2> DEFINE f == Plus(app, h)
  <2>1. f \in [Objects -> Nat] /\ \A k \in Objects : f[k] = (IF k = h THEN app[k] + 1 ELSE app[k])
    BY <1>1, PlusIs
  <2> HIDE DEF f
  <2>2. app' = f
    BY <1>1, <2>1, Zenon
  <2> QED
    BY <2>2 DEF f
<1>3. ASSUME NEW o \in Objects, app'[o] > 0
      PROVE  app[o] > 0 \/ o = h
  BY <1>1, <1>3
<1> QED
  BY <1>2, <1>3

LEMMA OnlyInv ==
  ASSUME Inv, running, NEW d, View(World, d), NEW v, Done(World, v, d, app, None), Only(v)
  PROVE  Inv'
<1>1. Becomes(v) /\ next' = next /\ app' = app /\ SameRun
  BY DEF Only
<1>2. Done(World, v, d, app', None)
  BY <1>1
<1>3. \A o \in Objects : app'[o] > 0 => app[o] > 0
  BY <1>1
<1> QED
  BY <1>1, <1>2, <1>3, CallInv

LEMMA GivenInv ==
  ASSUME Inv, running, SameRun, NEW d, View(World, d), NEW h \in Objects, Given(h), NEW n,
         NEW v, Done(World, v, d, Plus(app, h), n), Becomes(v),
         (n = None /\ next' = next) \/ (n = next /\ next' = next + 1), Owner(heap, h) = d \/ h = n
  PROVE  Inv'
<1>1. app' = Plus(app, h) /\ \A o \in Objects : app'[o] > 0 => app[o] > 0 \/ o = h
  BY GivenIs
<1>2. Done(World, v, d, app', n)
  BY <1>1
<1>3. \A o \in Objects : app'[o] > 0 => app[o] > 0 \/ Owner(heap, o) = d \/ o = n
  BY <1>1
<1> QED
  BY <1>2, <1>3, CallInv

LEMMA TakesInv ==
  ASSUME Inv, running, SameRun, Fresh, NEW d, View(World, d), NEW t, Gives(World, t, d, app, next),
         Takes(t, next)
  PROVE  Inv'
<1>1. next \in Objects /\ next' = next + 1
  BY FreshHandle
<1>2. Becomes(t.w)
  BY DEF Takes
<1>3. CASE t.done
  <2>1. Given(next) /\ Done(World, t.w, d, Plus(app, next), next)
    BY <1>3 DEF Takes, Gives
  <2> QED
    BY <1>1, <1>2, <2>1, GivenInv
<1>4. CASE ~t.done
  <2>1. app' = app /\ Done(World, t.w, d, app, next)
    BY <1>4 DEF Takes, Gives
  <2>2. Done(World, t.w, d, app', next)
    BY <2>1
  <2>3. \A o \in Objects : app'[o] > 0 => app[o] > 0
    BY <2>1
  <2> QED
    BY <1>1, <1>2, <2>2, <2>3, CallInv
<1> QED
  BY <1>3, <1>4

-----------------------------------------------------------------------------
(* The calls *)

(* A device, or an object of one, that the program has. *)
Has(d) ==
  /\ running /\ d \in Objects /\ heap[d].kind = "device"
  /\ Hands(World, d, app, {}) /\ Shadows(World, d) /\ View(World, d)

LEMMA DeviceHas ==
  ASSUME Inv, NEW d \in Objects, IsA(d, "device")
  PROVE  Has(d) /\ app[d] > 0 /\ Owner(heap, d) = d
<1>1. running /\ app[d] > 0 /\ heap[d].kind = "device"
  BY DEF IsA, Holds
<1>2. Owner(heap, d) = d
  BY <1>1 DEF Owner
<1>3. Hands(World, d, app, {}) /\ Shadows(World, d) /\ View(World, d)
  BY <1>1, <1>2, HeldHands
<1> QED
  BY <1>1, <1>2, <1>3 DEF Has

LEMMA ObjectHas ==
  ASSUME Inv, NEW o \in Objects, Holds(o)
  PROVE  Has(Owner(heap, o)) /\ app[o] > 0 /\ heap[o].kind # "none"
<1>1. running /\ app[o] > 0
  BY DEF Holds
<1>2. LET d == Owner(heap, o) IN Hands(World, d, app, {}) /\ Shadows(World, d) /\ View(World, d) /\ d \in Objects
  BY <1>1, HeldHands
<1>3. heap[Owner(heap, o)].kind = "device"
  BY <1>2, WorldIs DEF View
<1>4. heap[o].kind # "none"
  BY <1>1, InvParts, Counting
<1> QED
  BY <1>1, <1>2, <1>3, <1>4 DEF Has

LEMMA KindHas ==
  ASSUME Inv, NEW o \in Objects, NEW k, IsA(o, k), k # "device"
  PROVE  Has(heap[o].dev) /\ app[o] > 0 /\ heap[o].kind = k /\ Owner(heap, o) = heap[o].dev
<1>1. Holds(o) /\ heap[o].kind = k
  BY DEF IsA
<1>2. Owner(heap, o) = heap[o].dev
  BY <1>1 DEF Owner
<1> QED
  BY <1>1, <1>2, ObjectHas

LEMMA CreateDeviceInv ==
  ASSUME Inv, NEW how \in Outcomes, CreateDevice(how)
  PROVE  Inv'
<1> DEFINE n == DeviceAsks(World, next, how)
           t == TryDevice(World, how)
<1>1. running /\ Fresh /\ (\A h \in Objects : app[h] = 0) /\ Takes(t, next) /\ SameRun
  BY DEF CreateDevice
<1>2. t = Tried(how = "ok" /\ n.status, DeviceNamed(n, next), Free(n, next))
  BY DEF TryDevice, DeviceAsks, DeviceNamed, NewDevice
<1>3. /\ next \in Objects /\ heap[next].kind = "none" /\ next' = next + 1
      /\ \A k \in Objects : heap[k].dev # next
  BY <1>1, FreshHandle
<1>4. n = DeviceAsks(World, next, how)
  OBVIOUS
<1> HIDE DEF n, t
<1>5. HeapOK(World.heap, app, {}) /\ Sound(World) /\ next \in Nat \ {0} /\ app \in [Objects -> Nat]
      /\ heap \in Heaps
  BY InvParts, WorldIs
<1>6. /\ t.done => DeviceNew(World, t.w, next, app)
      /\ ~t.done => Sound(t.w) /\ t.w.heap = World.heap
  <2>1. World.heap[next].kind = "none" /\ \A k \in Objects : World.heap[k].dev # next
    BY <1>3, WorldIs
  <2> QED
    BY <1>2, <1>3, <1>4, <1>5, <2>1, DeviceGives
<1>7. Becomes(t.w)
  BY <1>1 DEF Takes
<1>8. Bounded' /\ running'
  BY <1>1, <1>3, <1>5 DEF SameRun, Bounded, Inv
<1>9. \A o \in Objects : (heap[o].kind # "none" => o < next) /\ heap[o].dev < next
  BY InvParts, WorldIs DEF WorldOK
<1>10. CASE t.done
  <2> DEFINE v == t.w
  <2>1. /\ Hands(v, next, Plus(app, next), {}) /\ Shadows(v, next)
        /\ v.heap[next].kind = "device" /\ v.heap[next].dev = None
        /\ \A k \in Objects \ {next} : v.heap[k] = heap[k]
    BY <1>6, <1>10, WorldIs DEF DeviceNew
  <2>2. HeapOK(v.heap, Plus(app, next), {}) /\ View(v, next) /\ Sound(v)
    BY <2>1, HandsAre
  <2>3. app' = Plus(app, next) /\ \A o \in Objects : app'[o] > 0 => app[o] > 0 \/ o = next
    <3>1. Given(next)
      BY <1>1, <1>10 DEF Takes
    <3> QED
      BY <1>3, <3>1, GivenIs
  <2> DEFINE u == World'
  <2>4. Comes(v, u)
    BY <1>7, <2>2, BecomesComes
  <2> HIDE DEF u, v
  <2>5. Sound(u) /\ Tells(u) = Tells(v) /\ u.heap = v.heap
    BY <2>2, <2>4, ComesSound DEF Comes
  <2>6. View(u, next) /\ Shadows(u, next)
    BY <2>1, <2>2, <2>5 DEF View, Shadows
  <2>7. ASSUME NEW o \in Objects
        PROVE  (u.heap[o].kind # "none" => o < next') /\ u.heap[o].dev < next'
    <3>1. o \in Nat /\ heap[o].dev \in Nat
      BY <1>5, FieldTypes, HandleAssumption DEF Handles, Objects, None
    <3>2. CASE o = next
      BY <1>3, <1>5, <2>1, <2>5, <3>2 DEF None
    <3>3. CASE o # next
      BY <1>3, <1>5, <1>9, <2>1, <2>5, <3>1, <3>3
    <3> QED
      BY <3>2, <3>3
  <2>8. ASSUME NEW o \in Objects, app'[o] > 0
        PROVE  Owner(u.heap, o) = next
    <3>1. o = next
      BY <1>1, <2>3, <2>8
    <3> QED
      BY <2>1, <2>5, <3>1 DEF Owner
  <2>9. HeapOK(u.heap, app', {})
    BY <2>2, <2>3, <2>5
  <2>10. WorldOK(u, app', next')
    BY <2>5, <2>6, <2>7, <2>8, <2>9 DEF WorldOK
  <2> QED
    BY <1>8, <2>10 DEF Inv, u
<1>11. CASE ~t.done
  <2> DEFINE v == t.w
             u == World'
  <2>1. app' = app
    BY <1>1, <1>11 DEF Takes
  <2>2. Sound(v) /\ v.heap = heap
    BY <1>6, <1>11, WorldIs
  <2>3. Comes(v, u)
    BY <1>7, <2>2, BecomesComes
  <2> HIDE DEF u, v
  <2>4. Sound(u) /\ u.heap = heap
    BY <2>2, <2>3, ComesSound DEF Comes
  <2>5. HeapOK(u.heap, app', {})
    BY <1>5, <2>1, <2>4, WorldIs
  <2>6. ASSUME NEW o \in Objects
        PROVE  (u.heap[o].kind # "none" => o < next') /\ u.heap[o].dev < next'
    <3>1. o \in Nat /\ heap[o].dev \in Nat
      BY <1>5, FieldTypes, HandleAssumption DEF Handles, Objects, None
    <3> QED
      BY <1>3, <1>5, <1>9, <2>4, <3>1
  <2>7. WorldOK(u, app', next')
    BY <1>1, <2>1, <2>4, <2>5, <2>6 DEF WorldOK
  <2> QED
    BY <1>8, <2>7 DEF Inv, u
<1> QED
  BY <1>10, <1>11

LEMMA CreateInv ==
  ASSUME Inv, NEW d \in Objects, NEW kind \in Created, NEW ok \in BOOLEAN, Create(kind, d, ok)
  PROVE  Inv'
<1> DEFINE t == TryCreate(World, next, kind, d, ok)
<1>1. IsA(d, "device") /\ Fresh /\ Takes(t, next) /\ SameRun
  BY DEF Create, Device
<1>2. Has(d) /\ app[d] > 0
  BY <1>1, DeviceHas
<1>3. next \in Objects /\ World.heap[next].kind = "none"
  BY <1>1, FreshHandle, WorldIs
<1>4. t = TryCreate(World, next, kind, d, ok)
  OBVIOUS
<1> HIDE DEF t
<1>5. Gives(World, t, d, app, next)
  BY <1>2, <1>3, <1>4, CreateGives DEF Has
<1> QED
  BY <1>1, <1>2, <1>5, TakesInv DEF Has

LEMMA MemoryInv ==
  ASSUME Inv, NEW d \in Objects, CreateOffscreenPlainSurface(d)
  PROVE  Inv'
<1> DEFINE v == Unname(Make(World, next, "memory", d), next)
<1>1. IsA(d, "device") /\ Fresh /\ Given(next) /\ Becomes(v) /\ SameRun
  BY DEF CreateOffscreenPlainSurface, Device
<1>2. Has(d)
  BY <1>1, DeviceHas
<1>3. next \in Objects /\ World.heap[next].kind = "none" /\ next' = next + 1
  BY <1>1, FreshHandle, WorldIs
<1>4. v = Unname(Make(World, next, "memory", d), next)
  OBVIOUS
<1> HIDE DEF v
<1>5. Done(World, v, d, Plus(app, next), next)
  BY <1>2, <1>3, <1>4, MemoryDone DEF Has
<1> QED
  BY <1>1, <1>2, <1>3, <1>5, GivenInv DEF Has

LEMMA CreateStateBlockInv ==
  ASSUME Inv, NEW d \in Objects, NEW type \in BlockTypes, CreateStateBlock(d, type)
  PROVE  Inv'
<1> DEFINE M == Marks(type)
           v == CopyState([Unname(Make(World, next, "block", d), next) EXCEPT !.heap[next].marks = M], d, next)
<1>1. IsA(d, "device") /\ Fresh /\ Given(next) /\ Becomes(v) /\ SameRun
  BY DEF CreateStateBlock, Device, NewBlock
<1>2. Has(d)
  BY <1>1, DeviceHas
<1>3. next \in Objects /\ World.heap[next].kind = "none" /\ next' = next + 1
  BY <1>1, FreshHandle, WorldIs
<1>4. M \in SUBSET Parts
  BY DEF Marks
<1> HIDE DEF M
<1>5. v = CopyState([Unname(Make(World, next, "block", d), next) EXCEPT !.heap[next].marks = M], d, next)
  OBVIOUS
<1> HIDE DEF v
<1>6. Done(World, v, d, Plus(app, next), next)
  BY <1>2, <1>3, <1>4, <1>5, CreateBlockDone, Zenon DEF Has
<1> QED
  BY <1>1, <1>2, <1>3, <1>6, GivenInv DEF Has

LEMMA BeginStateBlockInv ==
  ASSUME Inv, NEW d \in Objects, BeginStateBlock(d)
  PROVE  Inv'
<1> DEFINE v == [Unname(Make(World, next, "block", d), next) EXCEPT !.heap[d].recording = next]
<1>1. IsA(d, "device") /\ Fresh /\ Becomes(v) /\ SameRun /\ app' = app /\ heap[d].recording = None
  BY DEF BeginStateBlock, Device, NewBlock
<1>2. Has(d)
  BY <1>1, DeviceHas
<1>3. next \in Objects /\ World.heap[next].kind = "none" /\ next' = next + 1 /\ World.heap[d].recording = None
  BY <1>1, FreshHandle, WorldIs
<1>4. v = [Unname(Make(World, next, "block", d), next) EXCEPT !.heap[d].recording = next]
  OBVIOUS
<1> HIDE DEF v
<1>5. Done(World, v, d, app, next)
  BY <1>2, <1>3, <1>4, BeginBlockDone DEF Has
<1>6. Done(World, v, d, app', next)
  BY <1>1, <1>5
<1>7. \A o \in Objects : app'[o] > 0 => app[o] > 0
  BY <1>1
<1> QED
  BY <1>1, <1>2, <1>3, <1>6, <1>7, CallInv DEF Has

LEMMA EndStateBlockInv ==
  ASSUME Inv, NEW d \in Objects, EndStateBlock(d)
  PROVE  Inv'
<1> DEFINE b == heap[d].recording
           v == EndsBlock(World, d, b)
<1>1. IsA(d, "device") /\ b # None /\ Given(b) /\ Becomes(v) /\ SameRun /\ next' = next
  BY DEF EndStateBlock, Device, EndsBlock
<1>2. Has(d)
  BY <1>1, DeviceHas
<1>3. b = World.heap[d].recording
  BY WorldIs
<1>4. v = EndsBlock(World, d, b)
  OBVIOUS
<1> HIDE DEF b, v
<1>5. b \in Objects /\ Done(World, v, d, Plus(app, b), None) /\ World.heap[b].dev = d
  <2>1. Hands(World, d, app, {}) /\ Shadows(World, d)
    BY <1>2 DEF Has
  <2>2. b # None
    BY <1>1
  <2> QED
    BY <1>3, <1>4, <2>1, <2>2, EndBlockDone
<1>6. Owner(heap, b) = d
  <2>1. heap[b].kind # "device"
    <3>1. heap[b].kind = "device" => heap[b].dev = None
      BY <1>5, InvParts DEF Formed
    <3>2. d # None
      BY DEF Objects, None
    <3> QED
      BY <1>5, <3>1, <3>2, WorldIs
  <2> QED
    BY <1>5, <2>1, WorldIs DEF Owner
<1> QED
  BY <1>1, <1>2, <1>5, <1>6, GivenInv DEF Has

LEMMA SetObjectInv ==
  ASSUME Inv, NEW d \in Objects, NEW h \in Handles,
         NEW s, NEW k, <<s, k>> \in {<<"stage", "texture">>, <<"stream", "buffer">>, <<"shader", "shader">>,
                                     <<"declaration", "declaration">>, <<"pixel", "pixel">>}, SetObject(d, s, k, h)
  PROVE  Inv'
<1> DEFINE v == PutMarked(World, d, s, h)
<1>1. IsA(d, "device") /\ (h # None => IsA(h, k) /\ heap[h].dev = d) /\ Only(v)
  BY DEF SetObject, Device
<1>2. Has(d) /\ app[d] > 0
  BY <1>1, DeviceHas
<1>3. v = PutMarked(World, d, s, h)
  OBVIOUS
<1> HIDE DEF v
<1>4. s \in Content /\ Fits(s, k) /\ k \in Hosted /\ k # "none" /\ k # "level"
  BY DEF Content, Fits, Hosted, Plain
<1>5. h # None => heap[h].kind = k /\ heap[h].dev = d /\ heap[h].named /\ h \in Objects
  <2>1. ASSUME h # None
        PROVE  heap[h].kind = k /\ heap[h].dev = d /\ heap[h].named /\ h \in Objects
    <3>1. h \in Objects
      BY <2>1, ObjectOrNone
    <3>2. heap[h].kind = k /\ heap[h].dev = d
      BY <1>1, <2>1 DEF IsA
    <3>3. heap[h].named
      BY <1>4, <3>1, <3>2, InvParts DEF Formed
    <3> QED
      BY <3>1, <3>2, <3>3
  <2> QED
    BY <2>1
<1>6. MayBind(heap, d, d, s, h)
  <2>1. s \in Slots /\ s # "target"
    BY <1>4, SlotFields DEF Content
  <2> QED
    BY <1>4, <1>5, <2>1 DEF MayBind, Addable
<1>7. Done(World, v, d, app, None)
  BY <1>2, <1>3, <1>4, <1>5, <1>6, SetObjectDone, WorldIs DEF Has
<1> QED
  BY <1>1, <1>2, <1>7, OnlyInv DEF Has

LEMMA SetRenderTargetInv ==
  ASSUME Inv, NEW d \in Objects, NEW s \in Objects, SetRenderTarget(d, s)
  PROVE  Inv'
<1> DEFINE v == PutObject(World, d, "target", s)
<1>1. /\ IsA(d, "device") /\ heap[s].kind \in {"level", "backbuffer", "surface"}
      /\ heap[s].dev = d /\ heap[s].named /\ Only(v)
  BY DEF SetRenderTarget, Device
<1>2. Has(d) /\ app[d] > 0
  BY <1>1, DeviceHas
<1>3. v = PutObject(World, d, "target", s)
  OBVIOUS
<1> HIDE DEF v
<1>4. Done(World, v, d, app, None)
  BY <1>1, <1>2, <1>3, SetTargetDone, WorldIs DEF Has
<1> QED
  BY <1>1, <1>2, <1>4, OnlyInv DEF Has

LEMMA SetStateInv ==
  ASSUME Inv, NEW d \in Objects, NEW p, NEW n \in Values, SetState(d, p, n)
  PROVE  Inv'
<1> DEFINE v == PutValue(World, d, p, n)
<1>1. IsA(d, "device") /\ Only(v) /\ <<p, n>> \in program.sets
  BY DEF SetState, Device
<1>2. p \in States
  <2>1. program.sets \subseteq States \X Values
    BY DEF Inv, Bounded
  <2> QED
    BY <1>1, <2>1
<1>3. Has(d)
  BY <1>1, DeviceHas
<1>4. v = PutValue(World, d, p, n)
  OBVIOUS
<1> HIDE DEF v
<1>5. Done(World, v, d, app, None)
  BY <1>2, <1>3, <1>4, SetValueDone DEF Has
<1> QED
  BY <1>1, <1>3, <1>5, OnlyInv DEF Has

LEMMA ResetInv ==
  ASSUME Inv, NEW d \in Objects, NEW how \in Outcomes, Reset(d, how)
  PROVE  Inv'
<1> DEFINE v == TryReset(World, d, how)
<1>1. IsA(d, "device") /\ Only(v)
  BY DEF Reset
<1>2. Has(d) /\ app[d] > 0
  BY <1>1, DeviceHas
<1>3. v = TryReset(World, d, how)
  OBVIOUS
<1> HIDE DEF v
<1>4. Done(World, v, d, app, None)
  BY <1>2, <1>3, ResetDone DEF Has
<1> QED
  BY <1>1, <1>2, <1>4, OnlyInv DEF Has

LEMMA GetBackBufferInv ==
  ASSUME Inv, NEW d \in Objects, GetBackBuffer(d)
  PROVE  Inv'
<1>1. IsA(d, "device") /\ SameRun
  BY DEF GetBackBuffer, Device
<1>2. Has(d) /\ app[d] > 0
  BY <1>1, DeviceHas
<1>3. CASE OldBackBuffer(d)
  <2> DEFINE h == heap[d].peer
             v == Raise(World, h)
  <2>1. h # None /\ Given(h) /\ Becomes(v) /\ next' = next
    BY <1>3 DEF OldBackBuffer
  <2>2. h \in Objects
    <3>1. h \in Handles
      BY InvParts, FieldTypes
    <3> QED
      BY <2>1, <3>1, ObjectOrNone
  <2>3. heap[h].kind = "backbuffer" /\ heap[h].dev = d
    BY <1>2, <2>1, InvParts DEF HeapOK, Peers, Has
  <2>4. v = Raise(World, h)
    OBVIOUS
  <2> HIDE DEF h, v
  <2>5. Done(World, v, d, Plus(app, h), None)
    BY <1>2, <2>2, <2>3, <2>4, RaiseDone, WorldIs DEF Has
  <2>6. Owner(heap, h) = d
    BY <2>3 DEF Owner
  <2> QED
    BY <1>1, <1>2, <2>1, <2>2, <2>5, <2>6, GivenInv DEF Has
<1>4. ASSUME NEW ok \in BOOLEAN, NewBackBuffer(d, ok)
      PROVE  Inv'
  <2> DEFINE x == Lower(Make(World, next, "backbuffer", d), d)
             n == GetHostSurface(x, next, None, ok)
             t == TryBackBuffer(World, d, ok)
  <2>1. heap[d].peer = None /\ Fresh /\ Takes(t, next)
    BY <1>4 DEF NewBackBuffer
  <2>2. next \in Objects /\ World.heap[next].kind = "none" /\ World.heap[d].peer = None
    BY <2>1, FreshHandle, WorldIs
  <2>3. t = Tried(ok /\ n.status, KeepsBack(n, next, d), DropSurface(Unname(n, next), next))
    BY DEF TryBackBuffer, KeepsBack
  <2>4. n = GetHostSurface(x, next, None, ok) /\ x = Lower(Make(World, next, "backbuffer", d), d)
    OBVIOUS
  <2> HIDE DEF x, n, t
  <2>5. Gives(World, t, d, app, next)
    BY <1>2, <2>2, <2>3, <2>4, BackGives DEF Has
  <2> QED
    BY <1>1, <1>2, <2>1, <2>5, TakesInv DEF Has
<1> QED
  BY <1>3, <1>4 DEF GetBackBuffer

(* Records about an object *)
LEMMA TellingInv ==
  ASSUME Inv, NEW d, Has(d), NEW op \in Tellings, NEW h, op # "DRAW" => h \in Named(heap, d),
         NEW v, v \in {Cmd(World, [op |-> op, h |-> h]), Sync(World, [op |-> op, h |-> h])}, Only(v)
  PROVE  Inv'
<1>1. Hands(World, d, app, {}) /\ Shadows(World, d) /\ View(World, d) /\ running
  BY DEF Has
<1>2. op # "DRAW" => h \in Named(World.heap, d)
  BY WorldIs
<1>3. Done(World, v, d, app, None)
  BY <1>1, <1>2, AboutDone
<1> QED
  BY <1>1, <1>3, OnlyInv

LEMMA AboutInv ==
  ASSUME Inv, NEW h \in Objects, NEW k, NEW op \in Tellings,
         (k = "device" /\ op = "DRAW") \/ k \in {"buffer", "texture", "query", "surface"},
         About(h, k, op) \/ Asks(h, k, op)
  PROVE  Inv'
<1>1. IsA(h, k) /\ (Only(Cmd(World, [op |-> op, h |-> h])) \/ Only(Sync(World, [op |-> op, h |-> h])))
  BY DEF About, Asks
<1>2. PICK v \in {Cmd(World, [op |-> op, h |-> h]), Sync(World, [op |-> op, h |-> h])} : Only(v)
  BY <1>1
<1>3. CASE k = "device" /\ op = "DRAW"
  <2>1. Has(h)
    BY <1>1, <1>3, DeviceHas
  <2> QED
    BY <1>2, <1>3, <2>1, TellingInv
<1>4. CASE k \in {"buffer", "texture", "query", "surface"}
  <2>1. Has(heap[h].dev) /\ heap[h].kind = k
    BY <1>1, <1>4, KindHas
  <2>2. heap[h].named
    BY <1>4, <2>1, InvParts DEF Formed, Hosted, Plain
  <2>3. h \in Named(heap, heap[h].dev)
    BY <2>2 DEF Named
  <2> QED
    BY <1>2, <2>1, <2>3, TellingInv
<1> QED
  BY <1>3, <1>4

(* State blocks *)
LEMMA CaptureInv ==
  ASSUME Inv, NEW b \in Objects, Capture(b)
  PROVE  Inv'
<1> DEFINE d == heap[b].dev
           v == CopyState(World, d, b)
<1>1. IsA(b, "block") /\ Only(v)
  BY DEF Capture
<1>2. Has(d) /\ app[b] > 0 /\ heap[b].kind = "block"
  BY <1>1, KindHas
<1>3. v = CopyState(World, d, b) /\ World.heap[b].dev = d /\ World.heap[b].kind = "block"
  BY <1>2, WorldIs
<1> HIDE DEF v, d
<1>4. Hands(World, d, app, {}) /\ Shadows(World, d) /\ View(World, d) /\ running
  BY <1>2 DEF Has
<1>5. Done(World, v, d, app, None)
  BY <1>2, <1>3, <1>4, CopyStateSets
<1> QED
  BY <1>1, <1>4, <1>5, OnlyInv

LEMMA ApplyInv ==
  ASSUME Inv, NEW b \in Objects, Apply(b)
  PROVE  Inv'
<1> DEFINE d == heap[b].dev
           v == ApplyState(World, d, b)
<1>1. IsA(b, "block") /\ Only(v)
  BY DEF Apply
<1>2. Has(d) /\ app[b] > 0 /\ heap[b].kind = "block"
  BY <1>1, KindHas
<1>3. v = ApplyState(World, d, b) /\ World.heap[b].dev = d /\ World.heap[b].kind = "block"
  BY <1>2, WorldIs
<1> HIDE DEF v, d
<1>4. Hands(World, d, app, {}) /\ Shadows(World, d) /\ View(World, d) /\ running
  BY <1>2 DEF Has
<1>5. Done(World, v, d, app, None)
  BY <1>2, <1>3, <1>4, ApplyStateSets
<1> QED
  BY <1>1, <1>4, <1>5, OnlyInv

(* One more reference to what the program, or an object of its device, has. *)
LEMMA AddInv ==
  ASSUME Inv, NEW d, Has(d), NEW h \in Objects, Addable(heap, h), Owner(heap, h) = d, Given(h),
         Becomes(Add(World, h)), next' = next, SameRun
  PROVE  Inv'
<1> DEFINE v == Add(World, h)
<1>1. Becomes(v) /\ v = Add(World, h)
  OBVIOUS
<1> HIDE DEF v
<1>2. Hands(World, d, app, {}) /\ Shadows(World, d) /\ View(World, d) /\ running
  BY DEF Has
<1>3. Addable(World.heap, h)
  BY WorldIs
<1>4. Done(World, v, d, Plus(app, h), None)
  BY <1>1, <1>2, <1>3, AddDone
<1> QED
  BY <1>1, <1>2, <1>4, GivenInv

(* A level surface in use has a name: it was given to the program. *)
LEMMA InUse ==
  ASSUME Inv, NEW h \in Objects, heap[h].ref > 0
  PROVE  Addable(heap, h)
<1>1. Formed(heap[h])
  BY InvParts
<1>2. heap[h].kind = "none" => heap[h].ref = 0
  BY <1>1, GoneIs DEF Formed
<1> QED
  BY <1>1, <1>2 DEF Formed, Addable

LEMMA BoundInUse ==
  ASSUME Inv, NEW d \in Objects, NEW s \in Slots, heap[d].bound[s] # None, heap[d].kind = "device"
  PROVE  LET h == heap[d].bound[s] IN h \in Objects /\ heap[h].ref > 0 /\ Owner(heap, h) = d
<1> DEFINE h == heap[d].bound[s]
<1>1. HeapOK(heap, app, {}) /\ heap \in Heaps
  BY InvParts
<1>2. h \in Handles /\ h # None
  BY <1>1, FieldTypes
<1>3. h \in Objects
  BY <1>2, ObjectOrNone
<1>4. LX(heap, {})[<<d, s>>] = h /\ <<d, s>> \in Links
  <2>1. <<d, s>> \notin {}
    OBVIOUS
  <2>2. LX(heap, {})[<<d, s>>] = heap[d].bound[s]
    BY <2>1, SlotLinks
  <2> QED
    BY <2>2, SlotLinks
<1>5. heap[h].ref > 0
  <2>1. heap[h].ref > app[h] /\ app[h] \in Nat /\ heap[h].ref \in Nat
    BY <1>1, <1>3, <1>4, Counting
  <2> QED
    BY <2>1
<1>6. Fits(s, heap[h].kind) /\ heap[h].dev = d
  BY <1>1, <1>2 DEF HeapOK, BoundFit, Owner
<1>7. heap[h].kind # "device"
  BY <1>6 DEF Fits, Slots, Content
<1>8. Owner(heap, h) = d
  BY <1>6, <1>7 DEF Owner
<1> QED
  BY <1>3, <1>5, <1>8

LEMMA OldLevelInv ==
  ASSUME Inv, NEW t \in Objects, IsA(t, "texture"), OldLevel(t), SameRun
  PROVE  Inv'
<1> DEFINE h == heap[t].peer
           d == heap[t].dev
<1>1. Has(d) /\ heap[t].kind = "texture" /\ h # None
  BY KindHas DEF OldLevel
<1>2. HeapOK(heap, app, {}) /\ heap \in Heaps
  BY InvParts
<1>3. h \in Objects
  BY <1>1, <1>2, FieldTypes, ObjectOrNone
<1>4. heap[h].kind = "level" /\ heap[h].named /\ heap[h].dev = d
  BY <1>1, <1>2 DEF HeapOK, Peers
<1>5. Addable(heap, h) /\ Owner(heap, h) = d
  BY <1>4 DEF Addable, Owner
<1>6. Given(h) /\ Becomes(Add(World, h)) /\ next' = next
  BY DEF OldLevel
<1> HIDE DEF h, d
<1> QED
  BY <1>1, <1>3, <1>5, <1>6, AddInv

LEMMA NewLevelInv ==
  ASSUME Inv, NEW t \in Objects, IsA(t, "texture"), NEW ok \in BOOLEAN, NewLevel(t, ok), SameRun
  PROVE  Inv'
<1> DEFINE d == heap[t].dev
           x == Raise([Make(World, next, "level", d) EXCEPT !.heap[next].peer = t], t)
           n == GetHostSurface(x, next, t, ok)
           a == Tried(ok /\ n.status, Caches(n, t, next), DropSurface(Unname(n, next), next))
<1>1. Has(d) /\ app[t] > 0 /\ heap[t].kind = "texture"
  BY KindHas
<1>2. heap[t].peer = None /\ Fresh /\ Takes(TryLevel(World, t, ok), next)
  BY DEF NewLevel
<1>3. TryLevel(World, t, ok) = a
  BY WorldIs DEF TryLevel, Caches
<1>4. next \in Objects /\ heap[next].kind = "none"
  BY <1>2, FreshHandle
<1>5. /\ x = Raise([Make(World, next, "level", d) EXCEPT !.heap[next].peer = t], t)
      /\ n = GetHostSurface(x, next, t, ok)
      /\ a = Tried(ok /\ n.status, Caches(n, t, next), DropSurface(Unname(n, next), next))
  OBVIOUS
<1>6. World.heap[t].dev = d
  BY WorldIs
<1> HIDE DEF a, n, x, d
<1>7. Hands(World, d, app, {}) /\ Shadows(World, d) /\ View(World, d) /\ running /\ d \in Objects
      /\ heap[d].kind = "device"
  BY <1>1 DEF Has
<1>8. LevelFor(World, next, t, d, app)
  <2>1. Apart(next, t, d)
    BY <1>1, <1>4, <1>7 DEF Apart
  <2> QED
    BY <1>1, <1>2, <1>4, <1>6, <2>1, WorldIs DEF LevelFor
<1>9. Gives(World, a, d, app, next)
  BY <1>5, <1>7, <1>8, LevelGives
<1>10. Takes(a, next)
  BY <1>2, <1>3
<1> QED
  BY <1>2, <1>7, <1>9, <1>10, TakesInv

LEMMA GetSurfaceLevelInv ==
  ASSUME Inv, NEW t \in Objects, GetSurfaceLevel(t)
  PROVE  Inv'
BY OldLevelInv, NewLevelInv DEF GetSurfaceLevel

(* What the Get methods return *)
LEMMA RefersTo ==
  ASSUME Inv, NEW o \in Objects, Holds(o), NEW h \in Refers(o), h # None
  PROVE  h \in Objects /\ Addable(heap, h) /\ Owner(heap, h) = Owner(heap, o)
<1> DEFINE d == Owner(heap, o)
<1>1. Has(d) /\ app[o] > 0 /\ heap[o].kind # "none"
  BY ObjectHas
<1>2. HeapOK(heap, app, {}) /\ heap \in Heaps /\ Formed(heap[o])
  BY InvParts
<1>3. heap[o].ref > 0
  <2>1. heap[o].ref >= app[o] /\ heap[o].ref \in Nat /\ app[o] \in Nat
    BY <1>2, Counting
  <2> QED
    BY <1>1, <2>1
<1>4. CASE h = o
  BY <1>3, <1>4, InUse
<1>5. CASE h = heap[o].dev
  <2>1. heap[o].kind # "device"
    BY <1>2, <1>5 DEF Formed
  <2>2. d = h
    BY <1>5, <2>1 DEF Owner
  <2> QED
    BY <1>1, <2>2 DEF Has, Addable, Owner
<1>6. CASE heap[o].kind = "level" /\ h = heap[o].peer
  <2>1. heap[o].named
    BY <1>2, <1>3, <1>6 DEF Formed
  <2>2. h \in Objects /\ heap[h].kind = "texture" /\ heap[h].dev = heap[o].dev
    BY <1>2, <1>6, <2>1 DEF HeapOK, Peers
  <2> QED
    BY <1>6, <2>2 DEF Addable, Owner
<1>7. CASE heap[o].kind = "device" /\ h \in Range(heap[o].bound)
  <2>1. d = o
    BY <1>7 DEF Owner
  <2>2. DOMAIN heap[o].bound = Slots
    BY <1>2, FieldTypes
  <2>3. PICK s \in Slots : h = heap[o].bound[s]
    BY <1>7, <2>2 DEF Range
  <2>4. h \in Objects /\ heap[h].ref > 0 /\ Owner(heap, h) = o
    BY <1>7, <2>3, BoundInUse
  <2> QED
    BY <2>1, <2>4, InUse
<1> QED
  BY <1>4, <1>5, <1>6, <1>7 DEF Refers

LEMMA GetInv ==
  ASSUME Inv, NEW o \in Objects, NEW h \in Objects, Get(o, h)
  PROVE  Inv'
<1>1. /\ Holds(o) /\ h \in Refers(o) /\ h # None /\ Given(h) /\ Becomes(Add(World, h))
      /\ next' = next /\ SameRun
  BY DEF Get
<1>2. Has(Owner(heap, o))
  BY <1>1, ObjectHas
<1>3. Addable(heap, h) /\ Owner(heap, h) = Owner(heap, o)
  BY <1>1, RefersTo
<1> QED
  BY <1>1, <1>2, <1>3, AddInv

(* Release *)
LEMMA Releasing ==
  ASSUME Inv, NEW h \in Objects, Holds(h), app' = [app EXCEPT ![h] = @ - 1], NEW v, v = Drop(World, h)
  PROVE  /\ Drops(World, v, Owner(heap, h), app', {}) /\ app' \in [Objects -> Nat] /\ app'[h] = app[h] - 1
         /\ \A k \in Objects : app'[k] =< app[k]
<1> DEFINE d == Owner(heap, h)
<1>1. Hands(World, d, app, {}) /\ app[h] > 0 /\ app \in [Objects -> Nat] /\ Owner(World.heap, h) = d
  BY ObjectHas, InvParts, WorldIs DEF Has
<1>2. Held(World.heap, app, {}, h)
  BY DEF Held, Holding
<1> HIDE DEF d
<1>3. Drops(World, v, d, Less(app, h), {})
  BY <1>1, <1>2, DropDrops
<1>4. app' = Less(app, h) /\ app' \in [Objects -> Nat]
  <2> DEFINE f == Less(app, h)
  <2>1. f \in [Objects -> Nat] /\ \A k \in Objects : f[k] = (IF k = h THEN app[k] - 1 ELSE app[k])
    BY <1>1, LessIs
  <2> HIDE DEF f
  <2>2. app' = f
    BY <1>1, <2>1
  <2> QED
    BY <2>1, <2>2, Zenon DEF f
<1>5. app'[h] = app[h] - 1 /\ \A k \in Objects : app'[k] =< app[k]
  BY <1>1
<1> QED
  BY <1>3, <1>4, <1>5, Zenon DEF d

(* A back buffer that the program has still more references to. *)
LEMMA BackLowered ==
  ASSUME Inv, NEW h \in Objects, Holds(h), heap[h].kind = "backbuffer", app[h] > 1,
         NEW v, v = Drop(World, h)
  PROVE  v.heap[heap[h].dev].kind = "device"
<1> DEFINE d == heap[h].dev
<1>1. Has(d)
  BY ObjectHas DEF Owner
<1>2. d \in Objects /\ heap[d].kind = "device" /\ heap \in Heaps /\ HeapOK(heap, app, {})
  BY <1>1, InvParts DEF Has
<1>3. heap[h].ref > 1
  <2>1. heap[h].ref >= app[h] /\ heap[h].ref \in Nat /\ app[h] \in Nat
    BY <1>2, Counting
  <2> QED
    BY <2>1
<1>4. h # None
  BY DEF Objects, None
<1>5. v = Lower(World, h)
  <2>1. v = DropObject(World, h)
    BY <1>4 DEF Drop
  <2>2. DropObject(World, h) = DropSurface(World, h)
    BY WorldIs DEF DropObject, Plain
  <2>3. DropSurface(World, h) = DropBack(World, h)
    BY WorldIs DEF DropSurface
  <2> QED
    BY <1>3, <2>1, <2>2, <2>3, WorldIs DEF DropBack
<1>6. Counts(World.heap, v.heap, h, World.heap[h].ref - 1)
  <2>1. World.heap[h].ref > 0
    BY <1>2, <1>3, FieldTypes, WorldIs
  <2> QED
    BY <1>2, <1>5, <2>1, WorldIs, Lowered
<1>7. d # h
  BY <1>2
<1> HIDE DEF d
<1>8. v.heap[d] = heap[d]
  BY <1>2, <1>6, <1>7, WorldIs DEF Counts
<1> QED
  BY <1>2, <1>8 DEF d

(* The device of what the program has left. *)
LEMMA DeviceLeft ==
  ASSUME Inv, NEW h \in Objects, Holds(h), app' = [app EXCEPT ![h] = @ - 1], NEW v, v = Drop(World, h),
         InOrder(v, h), NEW o \in Objects, app'[o] > 0
  PROVE  LET d == Owner(heap, h)
         IN  v.heap[d].kind = "device" /\ Owner(v.heap, o) = d
<1> DEFINE d == Owner(heap, h)
<1>1. /\ Drops(World, v, d, app', {}) /\ app' \in [Objects -> Nat] /\ app'[h] = app[h] - 1
      /\ \A k \in Objects : app'[k] =< app[k]
  BY Releasing, Zenon
<1>2. HeapOK(v.heap, app', {}) /\ Frame(heap, v.heap)
  BY <1>1, WorldIs DEF Drops
<1>3. Alike(heap[o], v.heap[o]) /\ v.heap[o].kind # "none"
  BY <1>2, AliveAlike, Counting, Zenon
<1>4. app[o] > 0
  <2>1. app'[o] =< app[o] /\ app'[o] \in Nat /\ app[o] \in Nat
    BY <1>1, InvParts
  <2> QED
    BY <2>1
<1>5. Has(d)
  BY ObjectHas
<1>6. Owner(heap, o) = d
  <2>1. WorldOK(World, app, next) /\ View(World, d)
    BY <1>5, InvParts DEF Has
  <2>2. Owner(World.heap, o) = d
    BY <1>4, <2>1, OneOwner
  <2> QED
    BY <2>2, WorldIs
<1> HIDE DEF d
<1>7. Owner(v.heap, o) = d /\ v.heap[o].kind = heap[o].kind /\ v.heap[o].dev = heap[o].dev
  BY <1>3, <1>6 DEF Alike, Built, Owner
<1>8. v.heap[d].kind = "device"
  <2>1. CASE heap[o].kind = "device"
    BY <1>6, <1>7, <2>1 DEF Owner
  <2>2. CASE heap[o].kind \notin {"device", "backbuffer"}
    BY <1>2, <1>3, <1>7, <2>2 DEF HeapOK, HasDevice, Owner
  <2>3. CASE heap[o].kind = "backbuffer" /\ o # h
    BY <1>4, <1>6, <1>7, <2>3 DEF InOrder, Owner
  <2>4. CASE heap[o].kind = "backbuffer" /\ o = h
    <3>1. app[h] > 1
      <4>1. app[h] \in Nat
        BY InvParts
      <4> QED
        BY <1>1, <2>4, <4>1
    <3>2. v.heap[heap[h].dev].kind = "device"
      BY <2>4, <3>1, BackLowered
    <3> QED
      BY <1>6, <1>7, <2>4, <3>2 DEF Owner
  <2> QED
    BY <2>1, <2>2, <2>3, <2>4
<1> QED
  BY <1>7, <1>8 DEF d

LEMMA ReleaseInv ==
  ASSUME Inv, NEW h \in Objects, Release(h)
  PROVE  Inv'
<1> DEFINE v == Drop(World, h)
           d == Owner(heap, h)
           u == World'
<1>1. /\ Holds(h) /\ InOrder(v, h) /\ app' = [app EXCEPT ![h] = @ - 1] /\ Becomes(v)
      /\ next' = next /\ SameRun
  BY DEF Release
<1>2. v = Drop(World, h)
  OBVIOUS
<1>3. Has(d)
  BY <1>1, ObjectHas
<1> HIDE DEF v
<1>4. Drops(World, v, d, app', {})
  BY <1>1, <1>2, Releasing, Zenon
<1>5. \A o \in Objects : app'[o] > 0 => v.heap[d].kind = "device" /\ Owner(v.heap, o) = d
  BY <1>1, <1>2, DeviceLeft, Zenon
<1> HIDE DEF d
<1>6. /\ Sound(v) /\ HeapOK(v.heap, app', {}) /\ Frame(heap, v.heap)
      /\ v.heap[d].kind = "device" => View(v, d) /\ Keeps(World, v)
  BY <1>4, WorldIs DEF Drops
<1>7. Comes(v, u)
  BY <1>1, <1>6, BecomesComes
<1> HIDE DEF u
<1>8. Sound(u) /\ Tells(u) = Tells(v) /\ u.heap = v.heap
  BY <1>6, <1>7, ComesSound DEF Comes
<1>9. v.heap[d].kind = "device" => View(u, d) /\ Shadows(u, d)
  <2> SUFFICES ASSUME v.heap[d].kind = "device"
               PROVE  View(u, d) /\ Shadows(u, d)
    OBVIOUS
  <2>1. View(v, d) /\ Keeps(World, v)
    BY <1>6
  <2>2. Alike(heap[d], v.heap[d])
    BY <1>3, <1>6 DEF Frame, Gone, Has
  <2>3. v.heap[d].bound = World.heap[d].bound /\ v.heap[d].value = World.heap[d].value
    BY <2>2, WorldIs DEF Alike, Built
  <2>4. Shadows(World, d)
    BY <1>3 DEF Has
  <2>5. Shadows(v, d)
    BY <2>1, <2>3, <2>4, ShadowsKept
  <2> QED
    BY <1>8, <2>1, <2>5 DEF View, Shadows
<1>10. ASSUME NEW o \in Objects
       PROVE  (u.heap[o].kind # "none" => o < next') /\ u.heap[o].dev < next'
  <2>1. (heap[o].kind # "none" => o < next) /\ heap[o].dev < next /\ next \in Nat \ {0}
    BY InvParts, WorldIs DEF WorldOK
  <2>2. CASE u.heap[o] = Gone
    BY <1>1, <2>1, <2>2 DEF Gone, None
  <2>3. CASE Alike(heap[o], u.heap[o])
    BY <1>1, <2>1, <2>3 DEF Alike, Built
  <2> QED
    BY <1>6, <1>8, <2>2, <2>3 DEF Frame
<1>11. ASSUME NEW o \in Objects, app'[o] > 0
       PROVE  View(u, Owner(u.heap, o)) /\ Shadows(u, Owner(u.heap, o))
  BY <1>5, <1>8, <1>9, <1>11
<1>12. WorldOK(u, app', next')
  BY <1>6, <1>8, <1>10, <1>11 DEF WorldOK
<1>13. Bounded' /\ running'
  BY <1>1, <1>3 DEF SameRun, Bounded, Inv, Has
<1> QED
  BY <1>12, <1>13 DEF Inv, u

(* Programs come and go, and nothing is left of them but the window. *)
LEMMA EmptyHeap ==
  HeapOK([h \in Objects |-> Gone], [h \in Objects |-> 0], {})
<1> DEFINE H == [h \in Objects |-> Gone]
           e == [h \in Objects |-> 0]
<1>1. /\ H \in Heaps /\ e \in [Objects -> Nat] /\ \A o \in Objects : H[o] = Gone /\ e[o] = 0
  BY GoneIs DEF Heaps
<1> HIDE DEF H, e
<1>2. \A o \in Objects : /\ Formed(H[o]) /\ H[o].kind = "none" /\ H[o].ref = 0
                         /\ \A f \in Fields : Link(H[o], f) = None
  BY <1>1, GoneIs
<1>3. \A s \in Slots : \A o \in Objects : H[o].bound[s] = None
  BY <1>1 DEF Gone, Unbound
<1>4. HasDevice(H) /\ Records(H) /\ Peers(H)
  BY <1>2 DEF HasDevice, Records, Peers
<1>5. BoundFit(H, {})
  BY <1>3 DEF BoundFit
<1>6. Balance(H, e, {})
  <2> SUFFICES ASSUME NEW k \in Objects
               PROVE  H[k].ref = e[k] + N(LX(H, {}), k)
    BY DEF Balance
  <2>1. \A l \in Links : LX(H, {})[l] # k
    <3> SUFFICES ASSUME NEW l \in Links
                 PROVE  LX(H, {})[l] # k
      OBVIOUS
    <3>1. l[1] \in Objects /\ l[2] \in Fields
      BY LinkPairs
    <3>2. LX(H, {})[l] = Link(H[l[1]], l[2])
      BY DEF LX
    <3>3. LX(H, {})[l] = None
      BY <1>2, <3>1, <3>2
    <3> QED
      BY <3>3 DEF Objects, None
  <2>2. N(LX(H, {}), k) = 0
    BY <2>1, Counted
  <2> QED
    BY <1>1, <1>2, <2>2
<1>7. HeapOK(H, e, {})
  BY <1>1, <1>2, <1>4, <1>5, <1>6 DEF HeapOK
<1> QED
  BY <1>7 DEF H, e

LEMMA NothingLeft ==
  ASSUME heap' = [h \in Objects |-> Gone], app' = [h \in Objects |-> 0], next' = 1, program' = NoProgram,
         runs' \in Nat, Sound(World')
  PROVE  Inv'
<1>1. World'.heap = heap'
  BY WorldIs DEF World
<1>2. HeapOK(World'.heap, app', {})
  BY <1>1, EmptyHeap
<1>3. \A o \in Objects : World'.heap[o].kind = "none" /\ World'.heap[o].dev = 0 /\ app'[o] = 0
  BY <1>1 DEF Gone, None
<1>4. WorldOK(World', app', next')
  BY <1>2, <1>3 DEF WorldOK
<1>5. Bounded'
  BY HandleAssumption DEF Bounded, NoProgram
<1>6. Idle'
  BY <1>1, <1>3 DEF Idle
<1> QED
  BY <1>4, <1>5, <1>6 DEF Inv

LEMMA NextWorld ==
  /\ IsWorld(World') /\ World'.pending = pending' /\ World'.calls = <<>> /\ World'.refused = refused'
  /\ World'.host = host' /\ World'.heap = heap'
BY DEF World, IsWorld, WorldFields

LEMMA HostIs ==
  ASSUME Inv
  PROVE  refused = FALSE /\ host \in HostType
<1>1. Sound(World)
  BY InvParts
<1> QED
  BY <1>1, RestRefused, WorldIs, Zenon

LEMMA InitInv ==
  ASSUME Init
  PROVE  Inv
<1>1. Sound(World)
  <2>1. HostGone \in HostType /\ pending = <<>> /\ refused = FALSE /\ host = HostGone
    BY HostGoneType DEF Init
  <2> QED
    BY <2>1, RestSound, WorldIs, Zenon
<1>2. HeapOK(World.heap, app, {})
  BY EmptyHeap, WorldIs DEF Init
<1>3. \A o \in Objects : heap[o].kind = "none" /\ heap[o].dev = 0 /\ app[o] = 0
  BY DEF Init, Gone, None
<1>4. next = 1 /\ runs = 0 /\ program = NoProgram
  BY DEF Init
<1>5. WorldOK(World, app, next)
  BY <1>1, <1>2, <1>3, <1>4, WorldIs DEF WorldOK
<1>6. Bounded
  BY <1>4, HandleAssumption DEF Bounded, NoProgram
<1> QED
  BY <1>3, <1>5, <1>6 DEF Inv, Idle

LEMMA StartInv ==
  ASSUME Inv, Start
  PROVE  Inv'
<1>1. /\ ~running /\ runs < MaxRuns /\ program' \in Programs[runs + 1] /\ running' = TRUE
      /\ runs' = runs + 1 /\ next' = 1 /\ pending' = <<>> /\ app' = app /\ heap' = heap
      /\ host' = host /\ refused' = refused
  BY DEF Start
<1>2. Idle /\ runs \in Nat
  BY <1>1 DEF Inv, Bounded
<1>3. Sound(World')
  BY <1>1, HostIs, NextWorld, RestSound, Zenon
<1>4. HeapOK(World'.heap, app', {})
  BY <1>1, InvParts, NextWorld
<1>5. \A o \in Objects : World'.heap[o].kind = "none" /\ World'.heap[o].dev = 0 /\ app'[o] = 0
  BY <1>1, <1>2, InvParts, NextWorld DEF Idle, Formed, Gone, None
<1>6. WorldOK(World', app', next')
  BY <1>1, <1>3, <1>4, <1>5 DEF WorldOK
<1>7. /\ program'.handles \in Nat /\ program'.handles =< MaxHandle
      /\ program'.sets \subseteq States \X Values
  <2> DEFINE P == [api : {8, 9}, kinds : SUBSET Kinds, sets : SUBSET (States \X Values),
                   handles : Nat \ {0}]
  <2>1. runs + 1 \in DOMAIN Programs /\ Programs \in Seq(SUBSET P)
    BY <1>1, <1>2, ProgramAssumption DEF MaxRuns
  <2>2. Programs[runs + 1] \in Range(Programs)
    BY <2>1 DEF Range
  <2>3. program'.handles =< MaxHandle
    BY <1>1, <2>2, HandleAssumption
  <2>4. program' \in P
    <3> HIDE DEF P
    <3> QED
      BY <1>1, <2>1
  <2> QED
    BY <2>3, <2>4
<1> QED
  BY <1>1, <1>2, <1>6, <1>7 DEF Inv, Bounded

LEMMA ExitInv ==
  ASSUME Inv, Exit
  PROVE  Inv'
<1> DEFINE w == Flush(World)
<1>1. /\ Vanish /\ host' = Detached(w.host) /\ pending' = w.pending /\ refused' = w.refused /\ runs' = runs
  BY DEF Exit
<1>2. Sound(World)
  BY InvParts
<1>3. w.host = Tells(World).host /\ w.refused = FALSE /\ w.pending = <<>>
  BY <1>2, WorldIs, FlushWorld, Zenon
<1> HIDE DEF w
<1>4. host' \in HostType
  BY <1>1, <1>2, <1>3, SoundExec, HostGoneType, Zenon DEF Detached
<1>5. Sound(World')
  BY <1>1, <1>3, <1>4, NextWorld, RestSound, Zenon
<1>6. runs \in Nat
  BY DEF Inv, Bounded
<1> QED
  BY <1>1, <1>5, <1>6, NothingLeft DEF Vanish

LEMMA KillInv ==
  ASSUME Inv, Kill
  PROVE  Inv'
<1>1. Vanish /\ UNCHANGED <<runs, pending, status, host, refused>>
  BY DEF Kill
<1>2. SameWindow(World, World')
  <2>1. Encoder(World') = Encoder(World)
    BY <1>1 DEF World, Encoder
  <2> QED
    BY <2>1, NextWorld, WorldIs DEF SameWindow
<1>3. Sound(World')
  BY <1>2, InvParts, WindowSound
<1>4. runs \in Nat
  BY DEF Inv, Bounded
<1> QED
  BY <1>1, <1>3, <1>4, NothingLeft DEF Vanish

LEMMA RebootInv ==
  ASSUME Inv, Reboot
  PROVE  Inv'
<1>1. /\ Vanish /\ pending' = <<>> /\ host' \in {host, HostGone} /\ runs' = runs /\ refused' = refused
  BY DEF Reboot
<1>2. Sound(World')
  BY <1>1, HostIs, HostGoneType, NextWorld, RestSound, Zenon
<1>3. runs \in Nat
  BY DEF Inv, Bounded
<1> QED
  BY <1>1, <1>2, <1>3, NothingLeft DEF Vanish

-----------------------------------------------------------------------------
(* Every step *)

LEMMA DeviceCallsInv ==
  ASSUME Inv, NEW d \in Objects, DeviceCalls(d)
  PROVE  Inv'
<1>1. ASSUME NEW ok \in BOOLEAN,
             \/ CreateTexture(d, ok) \/ CreateBuffer(d, ok) \/ CreateShader(d, ok) \/ CreateQuery(d, ok)
             \/ CreateVertexDeclaration(d, ok) \/ CreateRenderTarget(d, ok)
      PROVE  Inv'
  <2>1. PICK kind \in Created : Create(kind, d, ok)
    BY <1>1 DEF Created, Plain, CreateTexture, CreateBuffer, CreateShader, CreateQuery,
                CreateVertexDeclaration, CreateRenderTarget
  <2> QED
    BY <2>1, CreateInv
<1>2. ASSUME NEW how \in Outcomes, Reset(d, how)
      PROVE  Inv'
  BY <1>2, ResetInv
<1>3. CASE CreateOffscreenPlainSurface(d) \/ GetBackBuffer(d) \/ BeginStateBlock(d) \/ EndStateBlock(d)
  BY <1>3, MemoryInv, GetBackBufferInv, BeginStateBlockInv, EndStateBlockInv
<1>4. CASE Draw(d) \/ Present(d)
  BY <1>4, AboutInv DEF Draw, Present, Tellings
<1>5. ASSUME NEW type \in BlockTypes, CreateStateBlock(d, type)
      PROVE  Inv'
  BY <1>5, CreateStateBlockInv
<1>6. ASSUME NEW h \in Handles,
             SetTexture(d, h) \/ SetStreamSource(d, h) \/ SetShader(d, h) \/ SetVertexDeclaration(d, h)
      PROVE  Inv'
  BY <1>6, SetObjectInv DEF SetTexture, SetStreamSource, SetShader, SetVertexDeclaration
<1>7. ASSUME NEW s \in Objects, SetRenderTarget(d, s)
      PROVE  Inv'
  BY <1>7, SetRenderTargetInv
<1>8. ASSUME NEW v \in Values,
             \/ SetRenderState(d, v) \/ SetVertexShaderConstant(d, v) \/ SetFVF(d, v)
             \/ SetViewport(d, v)
      PROVE  Inv'
  BY <1>8, SetStateInv DEF SetRenderState, SetVertexShaderConstant, SetFVF, SetViewport
<1> QED
  BY <1>1, <1>2, <1>3, <1>4, <1>5, <1>6, <1>7, <1>8 DEF DeviceCalls

LEMMA ObjectCallsInv ==
  ASSUME Inv, NEW h \in Objects, ObjectCalls(h)
  PROVE  Inv'
<1>1. CASE Release(h) \/ GetSurfaceLevel(h) \/ Capture(h) \/ Apply(h)
  BY <1>1, ReleaseInv, GetSurfaceLevelInv, CaptureInv, ApplyInv
<1>2. CASE Unlock(h) \/ UnlockRect(h)
  BY <1>2, AboutInv DEF Unlock, UnlockRect, Tellings
<1>3. CASE Issue(h) \/ GetData(h)
  BY <1>3, AboutInv DEF Issue, GetData, Tellings
<1>4. CASE ColorFill(h) \/ GetRenderTargetData(h)
  BY <1>4, AboutInv DEF ColorFill, GetRenderTargetData, Tellings
<1>5. ASSUME NEW o \in Objects, Get(o, h)
      PROVE  Inv'
  BY <1>5, GetInv
<1> QED
  BY <1>1, <1>2, <1>3, <1>4, <1>5 DEF ObjectCalls

LEMMA StutterInv ==
  ASSUME Inv, UNCHANGED vars
  PROVE  Inv'
BY DEF Inv, WorldOK, Bounded, Idle, World, vars

LEMMA NextInv ==
  ASSUME Inv, [Next]_vars
  PROVE  Inv'
<1>1. CASE Runs
  BY <1>1, StartInv, ExitInv, KillInv, RebootInv DEF Runs
<1>2. CASE Calls
  BY <1>2, CreateDeviceInv, DeviceCallsInv, ObjectCallsInv DEF Calls
<1>3. CASE UNCHANGED vars
  BY <1>3, StutterInv
<1> QED
  BY <1>1, <1>2, <1>3 DEF Next

(* The invariant holds whatever programs come and do. *)
THEOREM AlwaysInv == Spec => []Inv
<1>1. Init => Inv
  BY InitInv
<1>2. Inv /\ [Next]_vars => Inv'
  BY NextInv
<1> QED
  BY <1>1, <1>2, PTL DEF Spec

-----------------------------------------------------------------------------
(* The properties *)

LEMMA InvCounts ==
  ASSUME Inv
  PROVE  RefsExact
<1> SUFFICES ASSUME NEW h \in Objects
             PROVE  References(h) = heap[h].ref
  BY DEF RefsExact
<1>1. heap[h].ref = app[h] + N(LX(heap, {}), h)
  BY InvParts DEF HeapOK, Balance
<1>2. \A l \in Links : LX(heap, {})[l] = Link(heap[l[1]], l[2])
  BY DEF LX
<1>3. {l \in Links : LX(heap, {})[l] = h} = {l \in Objects \X Fields : Link(heap[l[1]], l[2]) = h}
  BY <1>2 DEF Links
<1> QED
  BY <1>1, <1>3, Zenon DEF N, References

LEMMA ReachableHas ==
  ASSUME Inv, NEW d \in Reachable
  PROVE  /\ View(World, d) /\ Shadows(World, d) /\ d \in Objects
         /\ Flush(World).host = Tells(World).host /\ Flush(World).heap = heap
<1>1. d \in Objects /\ heap[d].kind = "device"
  BY DEF Reachable
<1>2. PICK h \in Objects : app[h] > 0 /\ d \in {h, heap[h].dev}
  BY DEF Reachable
<1>3. Owner(heap, h) = d
  <2>1. CASE d = h
    BY <1>1, <2>1 DEF Owner
  <2>2. CASE d # h
    <3>1. d = heap[h].dev /\ d # None
      BY <1>1, <1>2, <2>2 DEF Objects, None
    <3>2. heap[h].kind # "device"
      BY <3>1, InvParts DEF Formed
    <3> QED
      BY <3>1, <3>2 DEF Owner
  <2> QED
    BY <2>1, <2>2
<1>4. View(World, d) /\ Shadows(World, d)
  BY <1>2, <1>3, HeldHands
<1>5. Sound(World)
  BY InvParts
<1> QED
  BY <1>1, <1>4, <1>5, WorldIs, FlushWorld, Zenon

LEMMA InvHandles ==
  ASSUME Inv
  PROVE  HandlesAgree
<1> DEFINE w == Flush(World)
<1>1. ~refused
  BY HostIs
<1>2. ASSUME NEW d \in Reachable
      PROVE  w.host.dev = d /\ w.host.objs = {h \in Objects : w.heap[h].named /\ d \in {h, w.heap[h].dev}}
  <2>1. View(World, d) /\ w.host = Tells(World).host /\ w.heap = heap
    BY ReachableHas
  <2>2. Tells(World).host.dev = d /\ Tells(World).host.objs = Named(heap, d)
    BY <2>1, WorldIs DEF View
  <2> QED
    BY <2>1, <2>2 DEF Named
<1> QED
  BY <1>1, <1>2 DEF HandlesAgree

LEMMA InvShadows ==
  ASSUME Inv
  PROVE  ShadowAgrees
<1> DEFINE w == Flush(World)
<1>1. ASSUME NEW d \in Reachable, ~w.host.lost
      PROVE  Agree(w.host, w.heap[d].bound, w.heap[d].value)
  <2>1. Shadows(World, d) /\ w.host = Tells(World).host /\ w.heap = heap
    BY ReachableHas
  <2> QED
    BY <1>1, <2>1, WorldIs DEF Shadows
<1> HIDE DEF w
<1> QED
  BY <1>1, Zenon DEF ShadowAgrees, Agree, w

(* Every object of the DLL counts exactly the references there are to it:  *)
(* those the program holds, and those of the other objects (what a device  *)
(* or a state block has bound, the device of an object, its texture, the   *)
(* back buffer and the block being recorded).                              *)
THEOREM CountsAreExact == Spec => []RefsExact
BY AlwaysInv, InvCounts, PTL

(* Once the window is run, the host has an object for just the handles     *)
(* that the DLL has names for: no release is forgotten or sent twice, and  *)
(* no batch is refused, whatever owns what and in whatever order the       *)
(* program lets go.                                                        *)
THEOREM HandlesAlwaysAgree == Spec => []HandlesAgree
BY AlwaysInv, InvHandles, PTL

(* Once the window is run, the host's device is in the state the shadow    *)
(* of d3d9.c answers from, through every setter, state block and Reset,    *)
(* unless the host lost the device: but for the parts that a Reset, SetFVF *)
(* and SetVertexDeclaration leave apart, until they are set again.         *)
THEOREM ShadowsAlwaysAgree == Spec => []ShadowAgrees
BY AlwaysInv, InvShadows, PTL
===============================================================================
