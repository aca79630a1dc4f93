---------------------------- MODULE ChannelProofs ----------------------------
(***************************************************************************)
(* Proofs about the three channels between the player's UI thread, QEMU's  *)
(* threads and the audio thread: the input queue, the audio ring and the   *)
(* ring of frames.                                                         *)
(*                                                                         *)
(* InputQueue, for every queue length, every set of keys and every number  *)
(* of events: type correctness, the three invariants of the queue and its  *)
(* drain, that the queue implements InputChannel, and that the player's    *)
(* record of held keys is true of what the guest was sent.  IInv adds to   *)
(* the three invariants what they need to be inductive: a handler is       *)
(* enqueueing exactly while it has events left, and the batch is empty     *)
(* outside the drain.  HeldInv follows the record through the events a     *)
(* handler has still to enqueue.                                           *)
(*                                                                         *)
(* AudioRing, for every size of the ring, cushion and slack.  AudioIInv    *)
(* adds to the properties what the locals of a tick are worth while the    *)
(* audio thread takes samples out behind its back: the amount chosen still *)
(* fits, since the fill can only have fallen, and the stretch being filled *)
(* lies outside of what may be read.  CInv follows the cushion through a   *)
(* tick: what the mix buffer still has to give counts as part of it.       *)
(*                                                                         *)
(* FrameRing, for every number of slots and allocations.  FrameIInv        *)
(* relates the slot on screen to where the ring is: after n frames it is   *)
(* n + 1 slots behind zc_next, and only the slot at zc_next is ever being  *)
(* drawn; so the picture on screen is intact for ZC_SLOTS - 2 frames.      *)
(* DInv dates every picture: nothing drawn is from the future, what the UI *)
(* is about to render is not older than the frame it has taken, and once   *)
(* rendered neither is the screen.                                         *)
(***************************************************************************)
EXTENDS InputQueue, AudioRing, FrameRing, SequenceTheorems, FiniteSetTheorems,
        WellFoundedInduction, TLAPS

---------------------------------------------------------------------------
(* The input queue: every thread that is enqueueing has events left, and   *)
(* the batch is empty outside the drain.                                   *)
HandlerOK == \A t \in Threads : pc[t] = "enqueue" <=> todo[t] # <<>>
BatchOK   == drain # "deliver" => batch = <<>>

IInv ==
  /\ HandlerOK
  /\ BatchOK
  /\ QueueFIFO
  /\ OneDrainOwed
  /\ NoStrandedEvent

---------------------------------------------------------------------------
(* The events the handlers make are events. *)
LEMMA EventsAreTyped ==
  /\ \A k \in Keys, d \in BOOLEAN : KeyEvent(k, d) \in Event
  /\ \A b \in Buttons \cup {Wheel}, d \in BOOLEAN : ButtonEvent(b, d) \in Event
  /\ \A m \in {"rel", "abs"} : Motion(m) \in Event
  BY DEF KeyEvent, ButtonEvent, Motion, Event, Kinds, Codes

LEMMA PairIsSequence ==
  ASSUME NEW S, NEW a \in S, NEW b \in S
  PROVE  <<a, b>> \in Seq(S)
OBVIOUS

(* The releases of lift_all_keys are a sequence of events. *)
LEMMA OrdersAreTyped ==
  ASSUME NEW S \in SUBSET UserKeys, NEW o \in Orders(S), NEW d \in BOOLEAN
  PROVE  [i \in DOMAIN o |-> KeyEvent(o[i], d)] \in Seq(Event)
<1>1. Cardinality(S) \in Nat
  BY UserKeysFinite, FS_Subset, FS_CardinalityType
<1>2. o \in [1..Cardinality(S) -> S]
  BY DEF Orders
<1>3. \A i \in 1..Cardinality(S) : KeyEvent(o[i], d) \in Event
  BY <1>2, EventsAreTyped DEF Keys
<1> QED
  BY <1>1, <1>2, <1>3

(* So are those of a chord of the key script. *)
LEMMA ChordsAreTyped ==
  ASSUME NEW c \in Chords, NEW d \in BOOLEAN
  PROVE  [i \in 1..Len(c) |-> KeyEvent(c[IF d THEN i ELSE Len(c) + 1 - i], d)]
           \in Seq(Event)
<1>1. c \in Seq(ScriptKeys)
  BY ChordsAssumption
<1>2. Len(c) \in Nat
  BY <1>1, LenProperties
<1>3. \A i \in 1..Len(c) : c[IF d THEN i ELSE Len(c) + 1 - i] \in ScriptKeys
  BY <1>1, <1>2, ElementOfSeq
<1> QED
  BY <1>2, <1>3, EventsAreTyped DEF Keys

(* A handler of the UI thread starts with a sequence of events, or sends   *)
(* nothing; either way it touches the record of the player and no more.    *)
UiStart ==
  /\ keysDown' \in SUBSET UserKeys
  /\ grabbed' \in BOOLEAN
  /\ focused' \in BOOLEAN
  /\ ProduceNothing \/ \E es \in Seq(Event) : Produce("ui", es)

LEMMA UiSteps == ASSUME TypeOK, Ui PROVE UiStart
<1> USE DEF UiStart, uiVars
<1>1. ASSUME NEW k \in UserKeys, KeyPressed(k) \/ KeyReleased(k) PROVE UiStart
  <2>1. \A d \in BOOLEAN : <<KeyEvent(k, d)>> \in Seq(Event)
    BY EventsAreTyped DEF Keys
  <2> QED
    BY <1>1, <2>1 DEF KeyPressed, KeyReleased, KeyInput, TypeOK
<1>2. CASE GrabHotkey
  BY <1>2 DEF GrabHotkey, TypeOK
<1>3. CASE FocusLost
  <2>1. keysDown \in SUBSET UserKeys
    BY DEF TypeOK
  <2>2. keysDown' \in SUBSET UserKeys /\ grabbed' \in BOOLEAN /\ focused' \in BOOLEAN
    BY <1>3, <2>1 DEF FocusLost, LiftAllKeys
  <2>3. CASE ProduceNothing
    BY <2>2, <2>3
  <2>4. CASE \E o \in Orders(keysDown) :
               Produce("ui", [i \in DOMAIN o |-> KeyEvent(o[i], FALSE)])
    <3>1. PICK o \in Orders(keysDown) :
               Produce("ui", [i \in DOMAIN o |-> KeyEvent(o[i], FALSE)])
      BY <2>4
    <3>2. [i \in DOMAIN o |-> KeyEvent(o[i], FALSE)] \in Seq(Event)
      BY <2>1, OrdersAreTyped
    <3> QED
      BY <2>2, <3>1, <3>2
  <2> QED
    BY <1>3, <2>3, <2>4 DEF FocusLost, LiftAllKeys
<1>4. CASE FocusGained
  BY <1>4 DEF FocusGained, TypeOK
<1>5. CASE CursorMoved
  <2>1. <<Motion("abs")>> \in Seq(Event)
    BY EventsAreTyped
  <2> QED
    BY <1>5, <2>1 DEF CursorMoved, TypeOK
<1>6. CASE DeviceMoved
  <2>1. <<Motion("rel")>> \in Seq(Event)
    BY EventsAreTyped
  <2> QED
    BY <1>6, <2>1 DEF DeviceMoved, TypeOK
<1>7. CASE MouseWheel
  <2>1. ButtonEvent(Wheel, TRUE) \in Event /\ ButtonEvent(Wheel, FALSE) \in Event
    BY EventsAreTyped
  <2>2. <<ButtonEvent(Wheel, TRUE), ButtonEvent(Wheel, FALSE)>> \in Seq(Event)
    BY <2>1, PairIsSequence
  <2> QED
    BY <1>7, <2>2 DEF MouseWheel, TypeOK
<1>8. ASSUME NEW d \in BOOLEAN, MouseButton(d) PROVE UiStart
  <2>1. \A b \in Buttons : <<ButtonEvent(b, d)>> \in Seq(Event)
    BY EventsAreTyped
  <2>2. keysDown' \in SUBSET UserKeys /\ grabbed' \in BOOLEAN /\ focused' \in BOOLEAN
    BY <1>8 DEF MouseButton, TypeOK
  <2> QED
    BY <1>8, <2>1, <2>2 DEF MouseButton
<1> QED
  BY <1>1, <1>2, <1>3, <1>4, <1>5, <1>6, <1>7, <1>8 DEF Ui

LEMMA ScriptSteps ==
  ASSUME TypeOK, Script
  PROVE  /\ UNCHANGED uiVars
         /\ drain = "off"
         /\ \E es \in Seq(Event) : Produce("qemu", es)
BY ChordsAreTyped DEF Script, ScriptStep

---------------------------------------------------------------------------
(* Type correctness. *)
LEMMA NoEvents == <<>> \in Seq(Event) /\ Len(<<>>) = 0 /\ Len(<<>>) <= QueueLen
BY EmptySeq, QueueLenAssumption

LEMMA TypeInit == Init => TypeOK
<1> SUFFICES ASSUME Init PROVE TypeOK
  OBVIOUS
<1>1. /\ pc \in [Threads -> {"idle", "enqueue", "flush", "schedule"}]
      /\ todo \in [Threads -> Seq(Event)]
  BY NoEvents DEF Init
<1>2. inQ \in Seq(Event) /\ Len(inQ) <= QueueLen /\ batch \in Seq(Event)
      /\ accepted \in Seq(Event) /\ handed \in Seq(Event)
  BY NoEvents DEF Init
<1> QED
  BY <1>1, <1>2 DEF Init, TypeOK

(* What the part of a handler leaves of the types, whichever thread runs.  *)
LEMMA ProduceTyped ==
  ASSUME TypeOK, NEW t \in Threads, NEW es \in Seq(Event), Produce(t, es)
  PROVE  /\ pc' \in [Threads -> {"idle", "enqueue", "flush", "schedule"}]
         /\ todo' \in [Threads -> Seq(Event)]
         /\ produced' \in Nat
<1>1. Len(es) \in Nat
  BY LenProperties
<1> QED
  BY <1>1 DEF Produce, TypeOK

LEMMA UiTyped == TypeOK /\ Ui => TypeOK'
<1> SUFFICES ASSUME TypeOK, Ui PROVE TypeOK'
  OBVIOUS
<1>1. UiStart
  BY UiSteps
<1>2. CASE ProduceNothing
  BY <1>1, <1>2 DEF UiStart, ProduceNothing, TypeOK, queueVars, loopVars, guestVars
<1>3. CASE \E es \in Seq(Event) : Produce("ui", es)
  <2>1. PICK es \in Seq(Event) : Produce("ui", es)
    BY <1>3
  <2>2. /\ pc' \in [Threads -> {"idle", "enqueue", "flush", "schedule"}]
        /\ todo' \in [Threads -> Seq(Event)]
        /\ produced' \in Nat
    BY <2>1, ProduceTyped DEF Threads
  <2> QED
    BY <1>1, <2>1, <2>2 DEF UiStart, Produce, TypeOK, queueVars, loopVars, guestVars
<1> QED
  BY <1>1, <1>2, <1>3 DEF UiStart

LEMMA ScriptTyped == TypeOK /\ Script => TypeOK'
<1> SUFFICES ASSUME TypeOK, Script PROVE TypeOK'
  OBVIOUS
<1>1. PICK es \in Seq(Event) : Produce("qemu", es)
  BY ScriptSteps
<1>2. /\ pc' \in [Threads -> {"idle", "enqueue", "flush", "schedule"}]
      /\ todo' \in [Threads -> Seq(Event)]
      /\ produced' \in Nat
  BY <1>1, ProduceTyped DEF Threads
<1> QED
  BY <1>1, <1>2, ScriptSteps DEF Produce, TypeOK, queueVars, loopVars, guestVars, uiVars

LEMMA EnqueueTyped ==
  ASSUME TypeOK, HandlerOK, NEW t \in Threads, Enqueue(t)
  PROVE  TypeOK'
<1> DEFINE e == Head(todo[t])
<1>1. todo[t] \in Seq(Event) /\ todo[t] # <<>>
  BY DEF TypeOK, HandlerOK, Enqueue, EnqueueInto
<1>2. e \in Event /\ Tail(todo[t]) \in Seq(Event)
  BY <1>1, HeadTailProperties
<1>3. e.code \in Codes
  BY <1>2 DEF Event
<1>4. /\ inQ' \in Seq(Event) /\ Len(inQ') <= QueueLen
      /\ accepted' \in Seq(Event)
      /\ lost' \in SUBSET Codes
  <2>1. inQ \in Seq(Event) /\ Len(inQ) <= QueueLen /\ accepted \in Seq(Event)
    BY DEF TypeOK
  <2>2. /\ Append(inQ, e) \in Seq(Event) /\ Len(Append(inQ, e)) = Len(inQ) + 1
        /\ Append(accepted, e) \in Seq(Event)
    BY <1>2, <2>1, AppendProperties
  <2>3. Len(inQ) \in Nat
    BY <2>1, LenProperties
  <2>4. lost' \in SUBSET Codes
    BY <1>3 DEF Enqueue, EnqueueInto, TypeOK
  <2> HIDE DEF e
  <2>5. CASE Len(inQ) < QueueLen
    <3>1. inQ' = Append(inQ, e) /\ accepted' = Append(accepted, e)
      BY <2>5 DEF Enqueue, EnqueueInto, e
    <3>2. Len(inQ) + 1 <= QueueLen
      BY <2>3, <2>5, QueueLenAssumption
    <3> QED
      BY <2>2, <2>4, <3>1, <3>2
  <2>6. CASE ~(Len(inQ) < QueueLen)
    BY <2>1, <2>4, <2>6 DEF Enqueue, EnqueueInto
  <2> QED
    BY <2>5, <2>6
<1>5. /\ todo' \in [Threads -> Seq(Event)]
      /\ pc' \in [Threads -> {"idle", "enqueue", "flush", "schedule"}]
  BY <1>2 DEF Enqueue, EnqueueInto, TypeOK
<1> QED
  BY <1>4, <1>5 DEF Enqueue, EnqueueInto, TypeOK, uiVars, loopVars, guestVars

(* A batch leaves keys held. *)
LEMMA DeliverTyped == TypeOK /\ DrainDeliver => TypeOK'
<1> SUFFICES ASSUME TypeOK, DrainDeliver PROVE TypeOK'
  OBVIOUS
<1>1. HeldAfter(guestKeys, batch) \in SUBSET Keys
  BY DEF HeldAfter
<1>2. guestKeys' \in SUBSET Keys
  BY <1>1 DEF DrainDeliver, Deliver, TypeOK
<1>3. \A i \in DOMAIN batch : batch[i].code \in Codes
  <2>1. batch \in Seq(Event)
    BY DEF TypeOK
  <2>2. \A i \in DOMAIN batch : batch[i] \in Event
    BY <2>1
  <2> QED
    BY <2>2 DEF Event
<1>4. lost' \in SUBSET Codes
  BY <1>3 DEF DrainDeliver, Deliver, TypeOK
<1>5. handed' \in Seq(Event)
  BY ConcatProperties DEF DrainDeliver, Deliver, TypeOK
<1> QED
  BY <1>2, <1>4, <1>5 DEF DrainDeliver, Deliver, TypeOK, uiVars, queueVars

(* Every other step of the main loop and of the flush. *)
LEMMA OtherTyped ==
  ASSUME TypeOK,
         \/ \E t \in Threads : Flush(t) \/ Schedule(t)
         \/ DispatchDrain \/ DrainTake
         \/ VmStart \/ VmPause \/ PointerModeChanges
  PROVE  TypeOK'
<1> USE DEF TypeOK, uiVars, queueVars, loopVars, guestVars
<1>1. CASE \E t \in Threads : Flush(t)
  BY <1>1 DEF Flush, FlushIf
<1>2. CASE \E t \in Threads : Schedule(t)
  BY <1>2 DEF Schedule
<1>3. CASE DispatchDrain
  BY <1>3 DEF DispatchDrain
<1>4. CASE DrainTake
  BY <1>4, NoEvents DEF DrainTake, TakeBatch
<1>5. CASE VmStart \/ VmPause \/ PointerModeChanges
  BY <1>5 DEF VmStart, VmPause, PointerModeChanges
<1> QED
  BY <1>1, <1>2, <1>3, <1>4, <1>5

LEMMA NextTyped == TypeOK /\ HandlerOK /\ [Next]_vars => TypeOK'
<1> SUFFICES ASSUME TypeOK, HandlerOK, [Next]_vars PROVE TypeOK'
  OBVIOUS
<1>1. CASE UNCHANGED vars
  BY <1>1 DEF vars, TypeOK
<1>2. CASE Next
  BY <1>2, UiTyped, ScriptTyped, EnqueueTyped, DeliverTyped, OtherTyped
     DEF Next, Handler, Drain
<1> QED
  BY <1>1, <1>2

---------------------------------------------------------------------------
(* The inductive invariant.  What each step does to the handlers, to the   *)
(* channel and to the drain is proved apart.                               *)
LEMMA InvInit == Init => IInv
BY DEF Init, IInv, HandlerOK, BatchOK, QueueFIFO, OneDrainOwed, Committed, One,
       NoStrandedEvent, Threads

(* The start of a handler disturbs only HandlerOK, and keeps it. *)
LEMMA InvProduce ==
  ASSUME TypeOK, IInv, NEW t \in Threads, NEW es \in Seq(Event), Produce(t, es)
  PROVE  IInv'
<1> USE DEF Produce, queueVars, loopVars, guestVars
<1>1. HandlerOK'
  BY DEF IInv, HandlerOK, TypeOK
<1>2. BatchOK' /\ QueueFIFO'
  BY DEF IInv, BatchOK, QueueFIFO
<1>3. OneDrainOwed'
  BY DEF IInv, OneDrainOwed, Committed, One, Threads, TypeOK
<1>4. NoStrandedEvent'
  BY DEF IInv, NoStrandedEvent, Threads, TypeOK
<1> QED
  BY <1>1, <1>2, <1>3, <1>4 DEF IInv

LEMMA InvStutter ==
  ASSUME IInv, UNCHANGED <<pc, todo, queueVars, bhs, drain, batch, handed>>
  PROVE  IInv'
BY DEF IInv, HandlerOK, BatchOK, QueueFIFO, OneDrainOwed, Committed,
       NoStrandedEvent, queueVars

(* An accepted event goes to the end of both the queue and the history.    *)
LEMMA InvEnqueue ==
  ASSUME TypeOK, IInv, NEW t \in Threads, Enqueue(t)
  PROVE  IInv'
<1> DEFINE e == Head(todo[t])
<1>1. todo[t] \in Seq(Event) /\ todo[t] # <<>>
  BY DEF TypeOK, IInv, HandlerOK, Enqueue, EnqueueInto
<1>2. /\ e \in Event
      /\ Tail(todo[t]) \in Seq(Event)
      /\ Len(Tail(todo[t])) = Len(todo[t]) - 1
  BY <1>1, HeadTailProperties
<1>3. Tail(todo[t]) = <<>> <=> Len(todo[t]) = 1
  <2>1. Len(todo[t]) \in Nat
    BY <1>1, LenProperties
  <2>2. Tail(todo[t]) # <<>> => Len(Tail(todo[t])) # 0
    BY <1>2, EmptySeq
  <2>3. Tail(todo[t]) = <<>> => Len(Tail(todo[t])) = 0
    BY EmptySeq
  <2> HIDE DEF e
  <2> QED
    BY <1>2, <2>1, <2>2, <2>3
<1>4. HandlerOK'
  BY <1>3 DEF IInv, HandlerOK, Enqueue, EnqueueInto, TypeOK
<1>5. BatchOK'
  BY DEF IInv, BatchOK, Enqueue, EnqueueInto, loopVars
<1>6. QueueFIFO'
  <2>1. CASE UNCHANGED <<inQ, accepted>>
    BY <2>1 DEF IInv, QueueFIFO, Enqueue, EnqueueInto, loopVars, guestVars
  <2>2. CASE inQ' = Append(inQ, e) /\ accepted' = Append(accepted, e)
    <3>1. handed \o batch \in Seq(Event) /\ inQ \in Seq(Event)
      BY ConcatProperties DEF TypeOK
    <3>2. (handed \o batch) \o Append(inQ, e) = Append((handed \o batch) \o inQ, e)
      BY <1>2, <3>1
    <3> QED
      BY <2>2, <3>2 DEF IInv, QueueFIFO, Enqueue, EnqueueInto, loopVars, guestVars
  <2> QED
    BY <2>1, <2>2 DEF Enqueue, EnqueueInto
<1>7. OneDrainOwed'
  BY DEF IInv, OneDrainOwed, Committed, One, Enqueue, EnqueueInto, loopVars, Threads, TypeOK
<1>8. NoStrandedEvent'
  BY DEF NoStrandedEvent, Enqueue, EnqueueInto, Threads, TypeOK
<1> QED
  BY <1>4, <1>5, <1>6, <1>7, <1>8 DEF IInv

LEMMA InvFlush ==
  ASSUME TypeOK, IInv, NEW t \in Threads, Flush(t)
  PROVE  IInv'
<1> USE DEF Flush, FlushIf, loopVars, guestVars
<1>1. HandlerOK'
  BY DEF IInv, HandlerOK, TypeOK
<1>2. BatchOK' /\ QueueFIFO'
  BY DEF IInv, BatchOK, QueueFIFO
<1>3. OneDrainOwed'
  <2> USE DEF IInv, OneDrainOwed, Committed, One, Threads, TypeOK
  <2>1. CASE ~bhPending /\ inQ # <<>>
    <3>1. bhPending' = TRUE /\ pc' = [pc EXCEPT ![t] = "schedule"]
      BY <2>1
    <3>2. CASE t = "ui"
      BY <2>1, <3>1, <3>2
    <3>3. CASE t = "qemu"
      BY <2>1, <3>1, <3>3
    <3> QED
      BY <3>2, <3>3
  <2>2. CASE ~(~bhPending /\ inQ # <<>>)
    <3>1. bhPending' = bhPending /\ pc' = [pc EXCEPT ![t] = "idle"]
      BY <2>2
    <3> QED
      BY <3>1
  <2> QED
    BY <2>1, <2>2
<1>4. NoStrandedEvent'
  BY DEF IInv, NoStrandedEvent, Threads, TypeOK
<1> QED
  BY <1>1, <1>2, <1>3, <1>4 DEF IInv

(* A thread that schedules owes the drain, so the mark is set.             *)
LEMMA InvSchedule ==
  ASSUME TypeOK, IInv, NEW t \in Threads, Schedule(t)
  PROVE  IInv'
<1> USE DEF Schedule, queueVars, guestVars
<1>1. HandlerOK'
  BY DEF IInv, HandlerOK, TypeOK
<1>2. BatchOK' /\ QueueFIFO'
  BY DEF IInv, BatchOK, QueueFIFO
<1>3. OneDrainOwed'
  BY DEF IInv, OneDrainOwed, Committed, One, Threads, TypeOK
<1>4. NoStrandedEvent'
  BY DEF IInv, NoStrandedEvent, Threads, TypeOK, OneDrainOwed, Committed, One
<1> QED
  BY <1>1, <1>2, <1>3, <1>4 DEF IInv

LEMMA InvDrain ==
  ASSUME TypeOK, IInv, Drain
  PROVE  IInv'
<1>1. CASE DispatchDrain
  <2> USE <1>1 DEF DispatchDrain, queueVars, guestVars
  <2>1. HandlerOK' /\ BatchOK' /\ QueueFIFO' /\ NoStrandedEvent'
    BY DEF IInv, HandlerOK, BatchOK, QueueFIFO, NoStrandedEvent, LoopIdle
  <2>2. OneDrainOwed'
    BY DEF IInv, OneDrainOwed, Committed, One, LoopIdle, TypeOK
  <2> QED
    BY <2>1, <2>2 DEF IInv
<1>2. CASE DrainTake
  <2> USE <1>2 DEF DrainTake, TakeBatch, guestVars
  <2>1. HandlerOK' /\ BatchOK' /\ NoStrandedEvent'
    BY DEF IInv, HandlerOK, BatchOK, NoStrandedEvent
  <2>2. QueueFIFO'
    <3>1. batch = <<>>
      BY DEF IInv, BatchOK
    <3>2. /\ (handed \o batch) \o inQ = handed \o inQ
          /\ (handed \o inQ) \o <<>> = handed \o inQ
      BY <3>1, ConcatEmptySeq, ConcatProperties DEF TypeOK
    <3> QED
      BY <3>2 DEF IInv, QueueFIFO
  <2>3. OneDrainOwed'
    BY DEF IInv, OneDrainOwed, Committed, One, TypeOK
  <2> QED
    BY <2>1, <2>2, <2>3 DEF IInv
<1>3. CASE DrainDeliver
  <2> USE <1>3 DEF DrainDeliver, Deliver, queueVars
  <2>1. HandlerOK' /\ BatchOK' /\ NoStrandedEvent'
    BY DEF IInv, HandlerOK, BatchOK, NoStrandedEvent
  <2>2. QueueFIFO'
    <3>1. (handed \o batch) \o <<>> = handed \o batch
      BY ConcatEmptySeq, ConcatProperties DEF TypeOK
    <3> QED
      BY <3>1 DEF IInv, QueueFIFO
  <2>3. OneDrainOwed'
    BY DEF IInv, OneDrainOwed, Committed, One, TypeOK
  <2> QED
    BY <2>1, <2>2, <2>3 DEF IInv
<1> QED
  BY <1>1, <1>2, <1>3 DEF Drain

LEMMA InvNext == TypeOK /\ IInv /\ [Next]_vars => IInv'
<1> SUFFICES ASSUME TypeOK, IInv, [Next]_vars PROVE IInv'
  OBVIOUS
<1>1. CASE Ui
  <2>1. CASE ProduceNothing
    BY <2>1, InvStutter DEF ProduceNothing, loopVars, guestVars
  <2>2. CASE \E es \in Seq(Event) : Produce("ui", es)
    BY <2>2, InvProduce DEF Threads
  <2> QED
    BY <1>1, <2>1, <2>2, UiSteps DEF UiStart
<1>2. CASE Script
  BY <1>2, ScriptSteps, InvProduce DEF Threads
<1>3. ASSUME NEW t \in Threads, Handler(t) PROVE IInv'
  BY <1>3, InvEnqueue, InvFlush, InvSchedule DEF Handler
<1>4. CASE Drain
  BY <1>4, InvDrain
<1>5. CASE VmStart \/ VmPause \/ PointerModeChanges
  BY <1>5, InvStutter DEF VmStart, VmPause, PointerModeChanges, guestVars
<1>6. CASE UNCHANGED vars
  BY <1>6, InvStutter DEF vars, queueVars
<1> QED
  BY <1>1, <1>2, <1>3, <1>4, <1>5, <1>6 DEF Next

LEMMA Invariance == Spec => [](TypeOK /\ IInv)
<1>1. Init => TypeOK /\ IInv
  BY TypeInit, InvInit
<1>2. TypeOK /\ IInv /\ [Next]_vars => (TypeOK /\ IInv)'
  BY NextTyped, InvNext DEF IInv
<1> QED
  BY <1>1, <1>2, PTL DEF Spec

---------------------------------------------------------------------------
(* Every variable keeps its type; the queue never exceeds IN_QUEUE_LEN.    *)
THEOREM TypeCorrect == Spec => []TypeOK
BY Invariance, PTL

(* libqemu_embed.c 342-480: events leave the queue in the order they       *)
(* entered it, none lost and none twice.                                   *)
THEOREM Fifo == Spec => []QueueFIFO
<1>1. IInv => QueueFIFO
  BY DEF IInv
<1> QED
  BY <1>1, Invariance, PTL

(* libqemu_embed.c 402, 471-478: in_bh_pending counts the drains on their  *)
(* way, so there is never a second one.                                    *)
THEOREM DrainOwedOnce == Spec => []OneDrainOwed
<1>1. IInv => OneDrainOwed
  BY DEF IInv
<1> QED
  BY <1>1, Invariance, PTL

(* libqemu_embed.c 397-403, 471-479: an event in the queue is owed a       *)
(* drain, or its thread has still to flush.                                *)
THEOREM NoLostWakeup == Spec => []NoStrandedEvent
<1>1. IInv => NoStrandedEvent
  BY DEF IInv
<1> QED
  BY <1>1, Invariance, PTL

---------------------------------------------------------------------------
(* The keys.  Every event of a user key is on its way in one of three      *)
(* places: with its handler, in the queue, or in the batch.  The last one  *)
(* decides what the guest will hold, and the record already says so.       *)

(* What the handler still has to send agrees with the record. *)
UiTodo ==
  \A i \in DOMAIN todo["ui"] :
    todo["ui"][i].code \in UserKeys =>
      /\ todo["ui"][i].kind = "key"
      /\ todo["ui"][i].down <=> todo["ui"][i].code \in keysDown

(* The key script sends its own keys only. *)
ScriptTodo == \A i \in DOMAIN todo["qemu"] : todo["qemu"][i].code \in ScriptKeys

(* Whether the guest will hold k once the queue and the batch are through. *)
WillHold(k) ==
  IF Mentions(inQ, k) # {} THEN LeavesDown(inQ, k)
  ELSE IF Mentions(batch, k) # {} THEN LeavesDown(batch, k)
  ELSE k \in guestKeys

Agreement ==
  \A k \in UserKeys \ (ScriptKeys \cup lost) :
    Mentions(todo["ui"], k) = {} => (k \in keysDown <=> WillHold(k))

HeldInv == UiTodo /\ ScriptTodo /\ Agreement

(* The events es say of each user key what the record will say, and are    *)
(* about each key whose record changes.                                    *)
Reports(es) ==
  /\ \A i \in DOMAIN es : es[i].code \in UserKeys =>
       /\ es[i].kind = "key"
       /\ es[i].down <=> es[i].code \in keysDown'
  /\ \A k \in UserKeys : Mentions(es, k) = {} => (k \in keysDown' <=> k \in keysDown)

UiReported ==
  \/ ProduceNothing /\ keysDown' = keysDown
  \/ \E es \in Seq(Event) : Produce("ui", es) /\ Reports(es)

(* An event that is not about a user key reports nothing. *)
LEMMA NotAKey ==
  ASSUME NEW es \in Seq(Event), \A i \in DOMAIN es : es[i].code \notin UserKeys,
         keysDown' = keysDown
  PROVE  Reports(es)
BY DEF Reports

LEMMA KeyReports ==
  ASSUME NEW k \in UserKeys, NEW d \in BOOLEAN, NEW held,
         KeyInput(k, d, held), k \in held <=> d,
         \A x \in UserKeys : x # k => (x \in held <=> x \in keysDown)
  PROVE  UiReported
<1> DEFINE es == <<KeyEvent(k, d)>>
<1>1. KeyEvent(k, d) \in Event
  BY EventsAreTyped DEF Keys
<1>2. es \in Seq(Event) /\ DOMAIN es = {1} /\ es[1] = KeyEvent(k, d)
  BY <1>1
<1>3. es[1].kind = "key" /\ es[1].code = k /\ es[1].down = d
  BY <1>2 DEF KeyEvent
<1>4. keysDown' = held /\ Produce("ui", es)
  BY DEF KeyInput
<1>5. Mentions(es, k) # {}
  BY <1>2, <1>3 DEF Mentions
<1> HIDE DEF es
<1>6. Reports(es)
  BY <1>2, <1>3, <1>4, <1>5 DEF Reports
<1> QED
  BY <1>2, <1>4, <1>6 DEF UiReported

(* The releases of lift_all_keys are about every recorded key. *)
LEMMA LiftReports ==
  ASSUME TypeOK, FocusLost
  PROVE  UiReported
<1>1. CASE keysDown = {} /\ ProduceNothing /\ UNCHANGED keysDown
  BY <1>1 DEF UiReported
<1>2. CASE /\ keysDown' = {}
           /\ \E o \in Orders(keysDown) :
                Produce("ui", [i \in DOMAIN o |-> KeyEvent(o[i], FALSE)])
  <2>1. PICK o \in Orders(keysDown) :
               Produce("ui", [i \in DOMAIN o |-> KeyEvent(o[i], FALSE)])
    BY <1>2
  <2> DEFINE es == [i \in DOMAIN o |-> KeyEvent(o[i], FALSE)]
  <2>2. keysDown \in SUBSET UserKeys
    BY DEF TypeOK
  <2>3. es \in Seq(Event)
    BY <2>2, OrdersAreTyped
  <2>4. \A k \in keysDown : \E i \in DOMAIN o : o[i] = k
    BY DEF Orders
  <2>5. DOMAIN es = DOMAIN o
        /\ \A i \in DOMAIN es : es[i].kind = "key" /\ es[i].code = o[i] /\ es[i].down = FALSE
    BY DEF KeyEvent
  <2> HIDE DEF es
  <2>6. \A k \in keysDown : Mentions(es, k) # {}
    BY <2>4, <2>5 DEF Mentions
  <2>7. Reports(es)
    BY <1>2, <2>5, <2>6 DEF Reports
  <2> QED
    BY <2>1, <2>3, <2>7 DEF UiReported, es
<1> QED
  BY <1>1, <1>2 DEF FocusLost, LiftAllKeys

LEMMA UiReports == ASSUME TypeOK, Ui PROVE UiReported
<1>1. ASSUME NEW k \in UserKeys, KeyPressed(k) PROVE UiReported
  BY <1>1, KeyReports DEF KeyPressed
<1>2. ASSUME NEW k \in UserKeys, KeyReleased(k) PROVE UiReported
  BY <1>2, KeyReports DEF KeyReleased
<1>3. CASE GrabHotkey \/ FocusGained
  BY <1>3 DEF GrabHotkey, FocusGained, UiReported
<1>4. CASE FocusLost
  BY <1>4, LiftReports
<1>5. ASSUME NEW m \in {"rel", "abs"}, Produce("ui", <<Motion(m)>>), keysDown' = keysDown
      PROVE  UiReported
  <2>1. Motion(m) \in Event
    BY EventsAreTyped
  <2>2. <<Motion(m)>> \in Seq(Event) /\ DOMAIN <<Motion(m)>> = {1}
        /\ <<Motion(m)>>[1].code = Nothing
    BY <2>1 DEF Motion
  <2>3. Nothing \notin UserKeys
    BY CodesApart DEF Keys
  <2> QED
    BY <1>5, <2>2, <2>3, NotAKey DEF UiReported
<1>6. CASE CursorMoved
  BY <1>6, <1>5 DEF CursorMoved, UiReported
<1>7. CASE DeviceMoved
  BY <1>7, <1>5 DEF DeviceMoved, uiVars
<1>8. CASE MouseWheel
  <2> DEFINE es == <<ButtonEvent(Wheel, TRUE), ButtonEvent(Wheel, FALSE)>>
  <2>1. ButtonEvent(Wheel, TRUE) \in Event /\ ButtonEvent(Wheel, FALSE) \in Event
    BY EventsAreTyped
  <2>2. es \in Seq(Event)
    BY <2>1, PairIsSequence
  <2>3. DOMAIN es = {1, 2} /\ es[1].code = Wheel /\ es[2].code = Wheel
    BY DEF ButtonEvent
  <2>4. Wheel \notin UserKeys
    BY CodesApart DEF Keys
  <2>5. Produce("ui", es) /\ keysDown' = keysDown
    BY <1>8 DEF MouseWheel, uiVars
  <2> HIDE DEF es
  <2> QED
    BY <2>2, <2>3, <2>4, <2>5, NotAKey DEF UiReported
<1>9. ASSUME NEW d \in BOOLEAN, MouseButton(d) PROVE UiReported
  <2>1. keysDown' = keysDown
    BY <1>9 DEF MouseButton
  <2>2. ASSUME NEW b \in Buttons, Produce("ui", <<ButtonEvent(b, d)>>) PROVE UiReported
    <3>1. ButtonEvent(b, d) \in Event
      BY EventsAreTyped
    <3>2. <<ButtonEvent(b, d)>> \in Seq(Event) /\ DOMAIN <<ButtonEvent(b, d)>> = {1}
          /\ <<ButtonEvent(b, d)>>[1].code = b
      BY <3>1 DEF ButtonEvent
    <3>3. b \notin UserKeys
      BY CodesApart DEF Keys
    <3> QED
      BY <2>1, <2>2, <3>2, <3>3, NotAKey DEF UiReported
  <2> QED
    BY <1>9, <2>1, <2>2 DEF MouseButton, UiReported
<1> QED
  BY <1>1, <1>2, <1>3, <1>4, <1>6, <1>7, <1>8, <1>9 DEF Ui

(* A chord sends script keys. *)
LEMMA ScriptReports ==
  ASSUME TypeOK, Script
  PROVE  \E es \in Seq(Event) : /\ Produce("qemu", es)
                                /\ \A i \in DOMAIN es : es[i].code \in ScriptKeys
<1>1. PICK c \in Chords, d \in BOOLEAN : ScriptStep(c, d)
  BY DEF Script
<1> DEFINE at(i) == IF d THEN i ELSE Len(c) + 1 - i
           es    == [i \in 1..Len(c) |-> KeyEvent(c[at(i)], d)]
<1>2. es \in Seq(Event)
  BY ChordsAreTyped
<1>3. c \in Seq(ScriptKeys) /\ Len(c) \in Nat
  BY ChordsAssumption, LenProperties
<1>4. \A i \in 1..Len(c) : c[at(i)] \in ScriptKeys
  BY <1>3, ElementOfSeq
<1>5. \A i \in DOMAIN es : es[i].code \in ScriptKeys
  BY <1>4 DEF KeyEvent
<1>6. Produce("qemu", es)
  BY <1>1 DEF ScriptStep
<1> QED
  BY <1>2, <1>5, <1>6

(* What one more event at the end says of a key. *)
LEMMA MentionsAppend ==
  ASSUME NEW s \in Seq(Event), NEW e \in Event, NEW k
  PROVE  IF e.kind = "key" /\ e.code = k
         THEN Mentions(Append(s, e), k) # {} /\ (LeavesDown(Append(s, e), k) <=> e.down)
         ELSE /\ Mentions(Append(s, e), k) = Mentions(s, k)
              /\ LeavesDown(Append(s, e), k) <=> LeavesDown(s, k)
<1> DEFINE a == Append(s, e)
           n == Len(s) + 1
<1>1. /\ Len(s) \in Nat /\ DOMAIN s = 1..Len(s) /\ DOMAIN a = 1..n
      /\ a[n] = e /\ \A i \in 1..Len(s) : a[i] = s[i]
  BY AppendProperties, LenProperties
<1> HIDE DEF a
<1>2. \A i \in DOMAIN a : i = n \/ i \in 1..Len(s)
  BY <1>1
<1>3. CASE e.kind = "key" /\ e.code = k
  <2>1. n \in Mentions(a, k) /\ \A j \in Mentions(a, k) : j <= n /\ j \in Int
    BY <1>1, <1>3 DEF Mentions
  <2>2. ASSUME NEW i \in Mentions(a, k), \A j \in Mentions(a, k) : j <= i PROVE i = n
    BY <2>1, <2>2, <1>1
  <2> QED
    BY <1>1, <1>3, <2>1, <2>2 DEF LeavesDown, a
<1>4. CASE ~(e.kind = "key" /\ e.code = k)
  <2>1. Mentions(a, k) = Mentions(s, k)
    BY <1>1, <1>2, <1>4 DEF Mentions
  <2>2. \A i \in Mentions(s, k) : a[i] = s[i]
    BY <1>1 DEF Mentions
  <2> QED
    BY <1>4, <2>1, <2>2 DEF LeavesDown, a
<1> QED
  BY <1>3, <1>4

LEMMA NoMentions == ASSUME NEW k PROVE Mentions(<<>>, k) = {}
BY DEF Mentions

LEMMA HeldInit == Init => HeldInv
<1> SUFFICES ASSUME Init PROVE HeldInv
  OBVIOUS
<1>1. todo["ui"] = <<>> /\ todo["qemu"] = <<>>
  BY DEF Init, Threads
<1>2. keysDown = {} /\ guestKeys = {} /\ inQ = <<>> /\ batch = <<>>
  BY DEF Init
<1>3. UiTodo /\ ScriptTodo
  BY <1>1 DEF UiTodo, ScriptTodo
<1>4. Agreement
  BY <1>2, NoMentions DEF Agreement, WillHold
<1> QED
  BY <1>3, <1>4 DEF HeldInv

(* A handler that has sent everything before says what the record says. *)
LEMMA HeldUi ==
  ASSUME TypeOK, HandlerOK, HeldInv, Ui
  PROVE  HeldInv'
<1>1. CASE ProduceNothing /\ keysDown' = keysDown
  BY <1>1 DEF ProduceNothing, queueVars, loopVars, guestVars, HeldInv, UiTodo, ScriptTodo,
              Agreement, WillHold
<1>2. CASE \E es \in Seq(Event) : Produce("ui", es) /\ Reports(es)
  <2>1. PICK es \in Seq(Event) : Produce("ui", es) /\ Reports(es)
    BY <1>2
  <2>2. /\ todo["ui"] = <<>> /\ todo'["ui"] = es /\ todo'["qemu"] = todo["qemu"]
        /\ UNCHANGED <<inQ, batch, guestKeys, lost>>
    BY <2>1 DEF Produce, TypeOK, HandlerOK, Threads, queueVars, loopVars, guestVars
  <2>3. UiTodo' /\ ScriptTodo'
    BY <2>1, <2>2 DEF Reports, UiTodo, HeldInv, ScriptTodo
  <2>4. ASSUME NEW k \in UserKeys \ (ScriptKeys \cup lost), Mentions(es, k) = {}
        PROVE  k \in keysDown' <=> WillHold(k)'
    <3>1. k \in keysDown <=> WillHold(k)
      BY <2>2, <2>4, NoMentions DEF HeldInv, Agreement
    <3>2. WillHold(k)' <=> WillHold(k)
      BY <2>2 DEF WillHold
    <3> QED
      BY <2>1, <2>4, <3>1, <3>2 DEF Reports
  <2>5. Agreement'
    BY <2>2, <2>4 DEF Agreement
  <2> QED
    BY <2>3, <2>5 DEF HeldInv
<1> QED
  BY <1>1, <1>2, UiReports DEF UiReported

LEMMA HeldScript ==
  ASSUME TypeOK, HeldInv, Script
  PROVE  HeldInv'
<1>1. PICK es \in Seq(Event) : /\ Produce("qemu", es)
                               /\ \A i \in DOMAIN es : es[i].code \in ScriptKeys
  BY ScriptReports
<1>2. /\ todo'["qemu"] = es /\ todo'["ui"] = todo["ui"]
      /\ UNCHANGED <<keysDown, inQ, batch, guestKeys, lost>>
  BY <1>1, ScriptSteps DEF Produce, TypeOK, Threads, queueVars, loopVars, guestVars, uiVars
<1> QED
  BY <1>1, <1>2 DEF HeldInv, UiTodo, ScriptTodo, Agreement, WillHold

(* The tail of what a handler has to send. *)
LEMMA TailOf ==
  ASSUME NEW s \in Seq(Event), s # <<>>
  PROVE  /\ Head(s) \in Event /\ Tail(s) \in Seq(Event)
         /\ Head(s) = s[1] /\ 1 \in DOMAIN s
         /\ \A i \in DOMAIN Tail(s) : i + 1 \in DOMAIN s /\ Tail(s)[i] = s[i + 1]
         /\ \A i \in DOMAIN s : i = 1 \/ (i - 1 \in DOMAIN Tail(s) /\ s[i] = Tail(s)[i - 1])
<1>1. /\ Head(s) \in Event /\ Tail(s) \in Seq(Event) /\ Len(Tail(s)) = Len(s) - 1
      /\ \A i \in 1..Len(Tail(s)) : Tail(s)[i] = s[i + 1]
  BY HeadTailProperties
<1>2. Len(s) \in Nat /\ Len(s) # 0 /\ DOMAIN s = 1..Len(s)
  BY EmptySeq, LenProperties
<1>3. DOMAIN Tail(s) = 1..(Len(s) - 1)
  BY <1>1, <1>2, LenProperties
<1>4. Head(s) = s[1]
  BY <1>2 DEF Head
<1> QED
  BY <1>1, <1>2, <1>3, <1>4

(* An event that enters the queue is the last of its key, and what follows *)
(* it says the same; one that is dropped is lost.                          *)
LEMMA HeldEnqueue ==
  ASSUME TypeOK, HandlerOK, HeldInv, NEW t \in Threads, Enqueue(t)
  PROVE  HeldInv'
<1> DEFINE e == Head(todo[t])
<1>1. todo[t] \in Seq(Event) /\ todo[t] # <<>>
  BY DEF TypeOK, HandlerOK, Enqueue, EnqueueInto
<1>2. /\ e \in Event /\ Tail(todo[t]) \in Seq(Event)
      /\ e = todo[t][1] /\ 1 \in DOMAIN todo[t]
      /\ \A i \in DOMAIN Tail(todo[t]) : i + 1 \in DOMAIN todo[t]
                                         /\ Tail(todo[t])[i] = todo[t][i + 1]
      /\ \A i \in DOMAIN todo[t] :
           i = 1 \/ (i - 1 \in DOMAIN Tail(todo[t]) /\ todo[t][i] = Tail(todo[t])[i - 1])
  BY <1>1, TailOf
<1>3. /\ todo'[t] = Tail(todo[t]) /\ \A u \in Threads \ {t} : todo'[u] = todo[u]
      /\ UNCHANGED <<keysDown, batch, guestKeys>>
  BY DEF Enqueue, EnqueueInto, TypeOK, uiVars, loopVars, guestVars
<1>4. \/ inQ' = Append(inQ, e) /\ lost' = lost \ {e.code}
      \/ inQ' = inQ /\ lost' = lost \cup {e.code}
  BY DEF Enqueue, EnqueueInto
<1>5. inQ \in Seq(Event)
  BY DEF TypeOK
<1> HIDE DEF e
<1>6. UiTodo'
  <2>1. CASE t = "ui"
    <3>1. ASSUME NEW i \in DOMAIN todo'["ui"]
          PROVE  i + 1 \in DOMAIN todo["ui"] /\ todo'["ui"][i] = todo["ui"][i + 1]
      BY <1>2, <1>3, <2>1
    <3> QED
      BY <1>3, <3>1 DEF HeldInv, UiTodo
  <2>2. CASE t = "qemu"
    BY <1>3, <2>2 DEF HeldInv, UiTodo, Threads
  <2> QED
    BY <2>1, <2>2 DEF Threads
<1>7. ScriptTodo'
  <2>1. CASE t = "qemu"
    <3>1. ASSUME NEW i \in DOMAIN todo'["qemu"]
          PROVE  i + 1 \in DOMAIN todo["qemu"] /\ todo'["qemu"][i] = todo["qemu"][i + 1]
      BY <1>2, <1>3, <2>1
    <3> QED
      BY <1>3, <3>1 DEF HeldInv, ScriptTodo
  <2>2. CASE t = "ui"
    BY <1>3, <2>2 DEF HeldInv, ScriptTodo, Threads
  <2> QED
    BY <2>1, <2>2 DEF Threads
<1>8. ASSUME NEW k \in UserKeys \ (ScriptKeys \cup lost'), Mentions(todo'["ui"], k) = {}
      PROVE  k \in keysDown <=> WillHold(k)'
  <2>1. CASE e.code = k
    <3>1. t = "ui"
      BY <1>2, <1>8, <2>1 DEF HeldInv, ScriptTodo, Threads
    <3>2. e.kind = "key" /\ (e.down <=> k \in keysDown)
      BY <1>2, <1>8, <2>1, <3>1 DEF HeldInv, UiTodo
    <3>3. inQ' = Append(inQ, e)
      BY <1>4, <1>8, <2>1
    <3>4. Mentions(inQ', k) # {} /\ (LeavesDown(inQ', k) <=> e.down)
      BY <1>2, <1>5, <2>1, <3>2, <3>3, MentionsAppend
    <3> QED
      BY <3>2, <3>4 DEF WillHold
  <2>2. CASE e.code # k
    <3>1. k \notin lost
      BY <1>4, <1>8, <2>2
    <3>2. Mentions(todo["ui"], k) = {}
      <4>1. CASE t = "ui"
        <5>1. ASSUME NEW i \in Mentions(todo["ui"], k) PROVE FALSE
          <6>1. i \in DOMAIN todo["ui"] /\ todo["ui"][i].kind = "key" /\ todo["ui"][i].code = k
            BY <5>1 DEF Mentions
          <6>2. i # 1
            BY <1>2, <2>2, <4>1, <6>1
          <6>3. i - 1 \in Mentions(Tail(todo["ui"]), k)
            BY <1>2, <4>1, <6>1, <6>2 DEF Mentions
          <6> QED
            BY <1>3, <1>8, <4>1, <6>3
        <5> QED
          BY <5>1
      <4>2. CASE t = "qemu"
        BY <1>3, <1>8, <4>2 DEF Threads
      <4> QED
        BY <4>1, <4>2 DEF Threads
    <3>3. k \in keysDown <=> WillHold(k)
      BY <1>8, <3>1, <3>2 DEF HeldInv, Agreement
    <3>4. Mentions(inQ', k) = Mentions(inQ, k) /\ (LeavesDown(inQ', k) <=> LeavesDown(inQ, k))
      <4>1. CASE inQ' = inQ
        BY <4>1 DEF LeavesDown
      <4>2. CASE inQ' = Append(inQ, e)
        BY <1>2, <1>5, <2>2, <4>2, MentionsAppend
      <4> QED
        BY <1>4, <4>1, <4>2
    <3>5. WillHold(k)' <=> WillHold(k)
      BY <1>3, <3>4 DEF WillHold, LeavesDown
    <3> QED
      BY <3>3, <3>5
  <2> QED
    BY <2>1, <2>2
<1>9. Agreement'
  BY <1>3, <1>8 DEF Agreement
<1> QED
  BY <1>6, <1>7, <1>9 DEF HeldInv

(* The queue becomes the batch, which was empty. *)
LEMMA HeldTake ==
  ASSUME TypeOK, BatchOK, HeldInv, DrainTake
  PROVE  HeldInv'
<1>1. batch = <<>> /\ batch' = inQ /\ inQ' = <<>>
      /\ UNCHANGED <<todo, keysDown, guestKeys, lost>>
  BY DEF BatchOK, DrainTake, TakeBatch, uiVars, guestVars
<1>2. \A k : WillHold(k)' <=> WillHold(k)
  BY <1>1, NoMentions DEF WillHold, LeavesDown
<1> QED
  BY <1>1, <1>2 DEF HeldInv, UiTodo, ScriptTodo, Agreement

(* A batch that is ignored loses the keys it is about. *)
LEMMA HeldDeliver ==
  ASSUME TypeOK, HeldInv, DrainDeliver
  PROVE  HeldInv'
<1>1. batch' = <<>> /\ UNCHANGED <<todo, keysDown, inQ>>
  BY DEF DrainDeliver, Deliver, uiVars, queueVars
<1>2. UiTodo' /\ ScriptTodo'
  BY <1>1 DEF HeldInv, UiTodo, ScriptTodo
<1>3. ASSUME NEW k \in UserKeys \ (ScriptKeys \cup lost') PROVE k \notin lost /\ (WillHold(k)' <=> WillHold(k))
  <2>1. CASE running
    <3>1. guestKeys' = HeldAfter(guestKeys, batch) /\ lost' = lost
      BY <2>1 DEF DrainDeliver, Deliver
    <3>2. k \in guestKeys' <=> IF Mentions(batch, k) = {} THEN k \in guestKeys
                                ELSE LeavesDown(batch, k)
      BY <1>3, <3>1 DEF HeldAfter, Keys
    <3>3. WillHold(k)' <=> WillHold(k)
      BY <1>1, <3>2, NoMentions DEF WillHold, LeavesDown
    <3> QED
      BY <1>3, <3>1, <3>3
  <2>2. CASE ~running
    <3>1. guestKeys' = guestKeys /\ lost' = lost \cup {batch[i].code : i \in DOMAIN batch}
      BY <2>2 DEF DrainDeliver, Deliver
    <3>2. Mentions(batch, k) = {}
      BY <1>3, <3>1 DEF Mentions
    <3>3. WillHold(k)' <=> WillHold(k)
      BY <1>1, <3>1, <3>2, NoMentions DEF WillHold, LeavesDown
    <3> QED
      BY <1>3, <3>1, <3>3
  <2> QED
    BY <2>1, <2>2
<1>4. Agreement'
  BY <1>1, <1>3 DEF HeldInv, Agreement
<1> QED
  BY <1>2, <1>4 DEF HeldInv

LEMMA HeldStutter ==
  ASSUME HeldInv, UNCHANGED <<todo, keysDown, inQ, batch, guestKeys, lost>>
  PROVE  HeldInv'
BY DEF HeldInv, UiTodo, ScriptTodo, Agreement, WillHold, LeavesDown

LEMMA HeldNext == TypeOK /\ IInv /\ HeldInv /\ [Next]_vars => HeldInv'
<1> SUFFICES ASSUME TypeOK, IInv, HeldInv, [Next]_vars PROVE HeldInv'
  OBVIOUS
<1>1. HandlerOK /\ BatchOK
  BY DEF IInv
<1>2. CASE Ui
  BY <1>1, <1>2, HeldUi
<1>3. CASE Script
  BY <1>3, HeldScript
<1>4. ASSUME NEW t \in Threads, Handler(t) PROVE HeldInv'
  <2>1. CASE Enqueue(t)
    BY <1>1, <2>1, HeldEnqueue
  <2>2. CASE Flush(t) \/ Schedule(t)
    BY <2>2, HeldStutter DEF Flush, FlushIf, Schedule, uiVars, queueVars, loopVars, guestVars
  <2> QED
    BY <1>4, <2>1, <2>2 DEF Handler
<1>5. CASE Drain
  <2>1. CASE DispatchDrain
    BY <2>1, HeldStutter DEF DispatchDrain, uiVars, queueVars, guestVars
  <2> QED
    BY <1>1, <1>5, <2>1, HeldTake, HeldDeliver DEF Drain
<1>6. CASE VmStart \/ VmPause \/ PointerModeChanges
  BY <1>6, HeldStutter DEF VmStart, VmPause, PointerModeChanges, uiVars, queueVars, guestVars
<1>7. CASE UNCHANGED vars
  BY <1>7, HeldStutter DEF vars
<1> QED
  BY <1>2, <1>3, <1>4, <1>5, <1>6, <1>7 DEF Next

(* main.rs 1183-1190, 927-938: the player's record of held keys is what    *)
(* the guest holds, whenever the input is through.                         *)
THEOREM RecordIsTrue == Spec => []HeldKeysAgree
<1>1. TypeOK /\ IInv /\ HeldInv => HeldKeysAgree
  <2> SUFFICES ASSUME TypeOK, IInv, HeldInv, Quiet,
                      NEW k \in UserKeys \ (ScriptKeys \cup lost)
               PROVE  k \in keysDown <=> k \in guestKeys
    BY DEF HeldKeysAgree
  <2>1. todo["ui"] = <<>> /\ inQ = <<>> /\ batch = <<>>
    BY DEF Quiet, IInv, HandlerOK, Threads
  <2> QED
    BY <2>1, NoMentions DEF HeldInv, Agreement, WillHold
<1> QED
  BY <1>1, HeldInit, HeldNext, Invariance, PTL DEF Spec

---------------------------------------------------------------------------
(* Taking a part off the start of a sequence. *)
LEMMA FrontOfConcat ==
  ASSUME NEW S, NEW s \in Seq(S), NEW u \in Seq(S)
  PROVE  /\ s = SubSeq(s \o u, 1, Len(s))
         /\ Len(s) \in Len(s)..Len(s \o u)
<1>1. /\ s \o u \in Seq(S)
      /\ Len(s \o u) = Len(s) + Len(u)
      /\ \A i \in 1..Len(s) + Len(u) :
           (s \o u)[i] = IF i <= Len(s) THEN s[i] ELSE u[i - Len(s)]
  BY ConcatProperties
<1>2. Len(s) \in Nat /\ Len(u) \in Nat
  BY LenProperties
<1> DEFINE start == SubSeq(s \o u, 1, Len(s))
<1>3. \A i \in 1..Len(s) : (s \o u)[i] \in S
  BY <1>1, <1>2, ElementOfSeq
<1>4. /\ start \in Seq(S)
      /\ Len(start) = Len(s)
      /\ \A i \in 1..Len(s) : start[i] = (s \o u)[i]
  <2>1. /\ start \in Seq(S)
        /\ Len(start) = IF 1 <= Len(s) THEN Len(s) - 1 + 1 ELSE 0
        /\ \A i \in 1..Len(s) - 1 + 1 : start[i] = (s \o u)[1 + i - 1]
    BY <1>2, <1>3, SubSeqProperties
  <2> QED
    BY <1>2, <2>1
<1>5. \A i \in 1..Len(s) : s[i] = start[i]
  BY <1>1, <1>2, <1>4
<1>6. s = start
  BY <1>4, <1>5, SeqEqual
<1> QED
  BY <1>1, <1>2, <1>6

(* The queue refines the channel step by step: an accepted event is        *)
(* Accept, a delivered batch is Hand, everything else stutters.            *)
LEMMA ChannelStep ==
  TypeOK /\ IInv /\ [Next]_vars => [Channel!Next]_<<accepted, handed>>
<1> SUFFICES ASSUME TypeOK, IInv, [Next]_vars
             PROVE  [Channel!Next]_<<accepted, handed>>
  OBVIOUS
<1>1. CASE Ui
  BY <1>1, UiSteps DEF UiStart, ProduceNothing, Produce, queueVars, guestVars
<1>2. CASE Script
  BY <1>2, ScriptSteps DEF Produce, queueVars, guestVars
<1>3. ASSUME NEW t \in Threads, Enqueue(t)
      PROVE  [Channel!Next]_<<accepted, handed>>
  <2>1. todo[t] \in Seq(Event) /\ todo[t] # <<>>
    BY <1>3 DEF TypeOK, IInv, HandlerOK, Enqueue, EnqueueInto
  <2>2. Head(todo[t]) \in Event
    BY <2>1, HeadTailProperties
  <2> QED
    BY <1>3, <2>2 DEF Enqueue, EnqueueInto, guestVars, Channel!Next, Channel!Accept
<1>4. ASSUME NEW t \in Threads, Flush(t) \/ Schedule(t)
      PROVE  [Channel!Next]_<<accepted, handed>>
  BY <1>4 DEF Flush, FlushIf, Schedule, queueVars, guestVars
<1>5. CASE DispatchDrain \/ DrainTake
  BY <1>5 DEF DispatchDrain, DrainTake, TakeBatch, queueVars, guestVars
<1>6. CASE DrainDeliver
  <2> DEFINE s == handed \o batch
  <2>1. s \in Seq(Event) /\ handed \in Seq(Event) /\ batch \in Seq(Event) /\ inQ \in Seq(Event)
    BY ConcatProperties DEF TypeOK
  <2>2. accepted = s \o inQ
    BY DEF IInv, QueueFIFO
  <2>3. s = SubSeq(accepted, 1, Len(s)) /\ Len(s) \in Len(s)..Len(accepted)
    BY <2>1, <2>2, FrontOfConcat
  <2>4. Len(handed) \in Nat /\ Len(s) \in Nat /\ Len(s) >= Len(handed)
    BY <2>1, ConcatProperties, LenProperties
  <2>5. Len(accepted) \in Nat
    BY LenProperties DEF TypeOK
  <2>6. Len(s) \in Len(handed)..Len(accepted)
    BY <2>3, <2>4, <2>5
  <2>7. handed' = s /\ accepted' = accepted
    BY <1>6 DEF DrainDeliver, Deliver, queueVars
  <2> HIDE DEF s
  <2>8. Channel!Hand
    BY <2>3, <2>6, <2>7 DEF Channel!Hand
  <2> QED
    BY <2>8 DEF Channel!Next
<1>7. CASE VmStart \/ VmPause \/ PointerModeChanges
  BY <1>7 DEF VmStart, VmPause, PointerModeChanges, queueVars, guestVars
<1>8. CASE UNCHANGED vars
  BY <1>8 DEF vars
<1> QED
  BY <1>1, <1>2, <1>3, <1>4, <1>5, <1>6, <1>7, <1>8 DEF Next, Handler, Drain

(* The input functions are the FIFO channel their header promises.         *)
THEOREM Refinement == Spec => ImplementsChannel
<1>1. Init => Channel!Init
  BY DEF Init, Channel!Init
<1> QED
  BY <1>1, ChannelStep, Invariance, PTL DEF Spec, ImplementsChannel, Channel!Spec

---------------------------------------------------------------------------
(* The audio ring. *)

(* The locals of get_buffer_out never exceed what is owed and what the mix *)
(* buffer holds.                                                           *)
Locals ==
  /\ audioPc = "due" => due <= owed
  /\ audioPc \in {"room", "put"} => amount <= owed /\ amount <= live

(* What is about to be published is in place, after what may be read.      *)
InFlight ==
  audioPc = "put" /\ ~drop =>
    /\ amount <= Free /\ amount <= Size - wr
    /\ \A j \in 0..amount - 1 : buf[wr + j] = written + j

(* The bound, counting what is chosen but not yet published. *)
Bound ==
  /\ Fill <= Target + 2 * Slack
  /\ audioPc \in {"room", "put"} /\ ~drop => Fill + amount <= Target + 2 * Slack

AudioIInv == AudioTypeOK /\ InOrder /\ Locals /\ InFlight /\ Bound

---------------------------------------------------------------------------
LEMMA Sizes ==
  /\ Size \in Nat /\ Size > 0 /\ Slack \in Nat /\ CatchUp \in Nat
  /\ MaxStep \in Nat
BY AudioAssumption

LEMMA WholeFramesBound ==
  ASSUME NEW n \in Nat PROVE WholeFrames(n) \in Nat /\ WholeFrames(n) <= n
<1>1. n % FrameLen \in Nat /\ n % FrameLen <= n
  BY AudioAssumption, SMT
<1> QED
  BY <1>1 DEF WholeFrames

LEMMA TargetType == Target \in Nat
<1>1. Size \div 2 \in Nat
  BY AudioAssumption
<1> QED
  BY <1>1, WholeFramesBound, AudioAssumption DEF Target

LEMMA LessType == ASSUME NEW a \in Nat, NEW b \in Nat
                  PROVE Less(a, b) \in Nat /\ Less(a, b) <= a /\ Less(a, b) <= b
BY DEF Less

(* The two masked operations stay in the ring. *)
LEMMA IndexType == ASSUME NEW a \in AudioSlots, NEW b \in AudioSlots
                   PROVE Plus(a, b) \in AudioSlots /\ Minus(a, b) \in AudioSlots
BY Sizes DEF Plus, Minus, AudioSlots

(* wr may be advanced by a whole stretch up to the end of the ring. *)
LEMMA PlusType == ASSUME NEW a \in AudioSlots, NEW b \in 0..Size PROVE Plus(a, b) \in AudioSlots
BY Sizes DEF Plus, AudioSlots

(* The integers of a state, and their bounds. *)
LEMMA IntTypes ==
  AudioTypeOK => /\ wr \in Nat /\ wr < Size /\ rd \in Nat /\ rd < Size
                 /\ owed \in Nat /\ due \in Nat
                 /\ live \in Nat /\ live <= Target
                 /\ amount \in Nat /\ amount <= Target
                 /\ written \in Nat /\ popped \in Nat
                 /\ drained \in Nat /\ drained <= Target
<1> SUFFICES ASSUME AudioTypeOK
             PROVE  /\ wr \in Nat /\ wr < Size /\ rd \in Nat /\ rd < Size
                    /\ owed \in Nat /\ due \in Nat
                    /\ live \in Nat /\ live <= Target
                    /\ amount \in Nat /\ amount <= Target
                    /\ written \in Nat /\ popped \in Nat
                    /\ drained \in Nat /\ drained <= Target
  OBVIOUS
<1>1. /\ wr \in AudioSlots /\ rd \in AudioSlots /\ owed \in Nat /\ due \in Nat
      /\ live \in 0..Target /\ amount \in 0..Target /\ drained \in 0..Target
      /\ written \in Nat /\ popped \in Nat
  BY Zenon DEF AudioTypeOK
<1> QED
  BY <1>1, Sizes, TargetType DEF AudioSlots

LEMMA FillType == AudioTypeOK => Fill \in 0..Size - 1 /\ Free \in 0..Size - 1
BY IntTypes, Sizes DEF Fill, Free, Minus

LEMMA ChargedType == AudioTypeOK => Charged \in Nat /\ Resynced \in Nat
<1> SUFFICES ASSUME AudioTypeOK PROVE Charged \in Nat /\ Resynced \in Nat
  OBVIOUS
<1>1. Resynced \in Nat
  BY LessType, Sizes DEF AudioTypeOK, Resynced
<1>2. WholeFrames(Resynced) \in Nat
  BY <1>1, WholeFramesBound
<1> DEFINE want == IF Fill < Target THEN Target - Fill ELSE 0
<1>3. want \in Nat
  BY FillType, TargetType, Sizes
<1> HIDE DEF want
<1>4. want > WholeFrames(Resynced) + Slack => Resynced + (want - WholeFrames(Resynced)) \in Nat
  BY <1>1, <1>2, <1>3, Sizes
<1>5. Charged = IF want > WholeFrames(Resynced) + Slack
                THEN Resynced + (want - WholeFrames(Resynced)) ELSE Resynced
  BY DEF Charged, want
<1> QED
  BY <1>1, <1>4, <1>5

LEMMA InitInv == AudioInit => AudioIInv
<1> SUFFICES ASSUME AudioInit PROVE AudioIInv
  OBVIOUS
<1>1. 0 \in AudioSlots /\ 0 \in 0..Target /\ buf \in [AudioSlots -> Int]
  BY Sizes, TargetType DEF AudioInit, AudioSlots, NoSample
<1>2. AudioTypeOK
  BY <1>1, Zenon DEF AudioInit, AudioTypeOK, Places
<1>3. Fill = 0
  BY Sizes DEF AudioInit, Fill, Minus
<1> QED
  BY <1>2, <1>3, TargetType, Sizes DEF AudioInit, AudioIInv, InOrder, Locals, InFlight, Bound

---------------------------------------------------------------------------
(* A step that leaves the ring alone keeps its contents in order. *)
LEMMA SameRing ==
  ASSUME InOrder, UNCHANGED <<audioRing, written, popped>>
  PROVE  InOrder' /\ Fill' = Fill /\ Free' = Free
BY DEF InOrder, audioRing, Fill, Free, Minus, Plus

LEMMA EnableOutInv == ASSUME AudioIInv, NEW on \in BOOLEAN, EnableOut(on) PROVE AudioIInv'
<1>1. UNCHANGED <<audioRing, live, audioPc, due, amount, drop, written, popped, drained>>
      /\ audioPc = "idle" /\ enabled' = on /\ owed' \in {0, owed} /\ fed' = FALSE
  BY DEF EnableOut
<1>2. InOrder' /\ Fill' = Fill
  BY <1>1, SameRing DEF AudioIInv
<1>3. owed' \in Nat
  BY <1>1 DEF AudioIInv, AudioTypeOK
<1>4. AudioTypeOK'
  BY <1>1, <1>3, Zenon DEF AudioIInv, AudioTypeOK, audioRing
<1> QED
  BY <1>1, <1>2, <1>4 DEF AudioIInv, Locals, InFlight, Bound

LEMMA GetFreeInv == ASSUME AudioIInv, GetFree PROVE AudioIInv'
<1> DEFINE free == Less(WholeFrames(Less(Charged, CatchUp)), Target)
<1>1. Less(Charged, CatchUp) \in Nat
  BY ChargedType, LessType, Sizes DEF AudioIInv
<1>2. free \in Nat /\ free <= Target
  BY <1>1, WholeFramesBound, LessType, TargetType
<1> HIDE DEF free
<1>3. /\ UNCHANGED <<audioRing, enabled, due, amount, drop, written, popped>>
      /\ owed' = Less(Charged, CatchUp) /\ drained' = 0 /\ audioPc' = "mix"
      /\ fed' = (live' >= free)
      /\ \E given \in 0..Target : (given = 0 \/ live + given <= free) /\ live' = live + given
  BY DEF GetFree, BeginTick, free
<1>4. live' \in 0..Target
  BY <1>2, <1>3, TargetType DEF AudioIInv, AudioTypeOK
<1>5. InOrder' /\ Fill' = Fill
  BY <1>3, SameRing DEF AudioIInv
<1>6. AudioTypeOK'
  BY <1>1, <1>3, <1>4, TargetType DEF AudioIInv, AudioTypeOK, audioRing, Places
<1> QED
  BY <1>3, <1>5, <1>6 DEF AudioIInv, Locals, InFlight, Bound

LEMMA EndTickInv == ASSUME AudioIInv, EndTick PROVE AudioIInv'
<1>1. UNCHANGED <<audioRing, enabled, owed, live, due, amount, drop, history>> /\ audioPc' = "idle"
  BY DEF EndTick
<1>2. InOrder' /\ Fill' = Fill
  BY <1>1, SameRing DEF AudioIInv, history
<1>3. AudioTypeOK'
  BY <1>1 DEF AudioIInv, AudioTypeOK, audioRing, history, Places
<1> QED
  BY <1>1, <1>2, <1>3 DEF AudioIInv, Locals, InFlight, Bound

LEMMA TakeNowInv == ASSUME AudioIInv, TakeNow PROVE AudioIInv'
<1>1. /\ UNCHANGED <<audioRing, enabled, live, amount, drop, history>> /\ audioPc' = "due"
      /\ owed' = Less(Charged, CatchUp) /\ due' = WholeFrames(owed')
  BY DEF TakeNow
<1>2. owed' \in Nat
  BY <1>1, ChargedType, LessType, Sizes DEF AudioIInv
<1>3. due' \in Nat /\ due' <= owed'
  BY <1>1, <1>2, WholeFramesBound
<1>4. InOrder' /\ Fill' = Fill
  BY <1>1, SameRing DEF AudioIInv, history
<1>5. AudioTypeOK'
  BY <1>1, <1>2, <1>3 DEF AudioIInv, AudioTypeOK, audioRing, history, Places
<1> QED
  BY <1>1, <1>3, <1>4, <1>5 DEF AudioIInv, Locals, InFlight, Bound

(* Within the slack, twice. *)
LEMMA SlackTwice ==
  ASSUME NEW a \in Nat, NEW f \in Nat, NEW t \in Nat, NEW s \in Nat, a <= s, f <= t + s
  PROVE  f + a <= t + 2 * s
OBVIOUS

(* The two ways to put something into the ring: to fill it up to the       *)
(* target, or, at the target, no more than the slack.                      *)
LEMMA ChooseInv == ASSUME AudioIInv, Choose PROVE AudioIInv'
<1> DEFINE n    == Less(live, due)
           room == IF Fill < Target THEN Target - Fill ELSE 0
<1>1. n \in Nat /\ n <= live /\ n <= due
  BY LessType, TargetType DEF AudioIInv, AudioTypeOK
<1>2. room \in Nat /\ Fill \in Nat /\ (room > 0 => Fill + room = Target)
  BY FillType, TargetType, Sizes DEF AudioIInv
<1>3. Less(n, room) \in Nat /\ Less(n, room) <= n /\ Less(n, room) <= room
  BY <1>1, <1>2, LessType
<1>4. /\ UNCHANGED <<audioRing, enabled, owed, live, history>> /\ due' = 0 /\ audioPc = "due"
      /\ \/ n = 0 /\ audioPc' = "idle" /\ UNCHANGED <<amount, drop>>
         \/ /\ audioPc' = "room"
            /\ amount' = IF room > 0 THEN Less(n, room) ELSE n
            /\ drop' = (room = 0 /\ (due > Slack \/ Fill > Target + Slack))
  BY DEF Choose, ChooseIf
<1> HIDE DEF n, room
<1>5. InOrder' /\ Fill' = Fill
  BY <1>4, SameRing DEF AudioIInv, history
<1>6. due <= owed
  BY <1>4 DEF AudioIInv, Locals
<1>7. CASE audioPc' = "idle"
  <2>1. UNCHANGED <<amount, drop>>
    BY <1>4, <1>7
  <2>2. AudioTypeOK'
    BY <1>4, <1>7, <2>1 DEF AudioIInv, AudioTypeOK, audioRing, history, Places
  <2> QED
    BY <1>5, <1>7, <2>2 DEF AudioIInv, Locals, InFlight, Bound
<1>8. CASE audioPc' = "room"
  <2>1. /\ amount' = IF room > 0 THEN Less(n, room) ELSE n
        /\ drop' = (room = 0 /\ (due > Slack \/ Fill > Target + Slack))
    BY <1>4, <1>8
  <2>2. amount' \in Nat /\ amount' <= live /\ amount' <= due
    BY <1>1, <1>3, <2>1, TargetType DEF AudioIInv, AudioTypeOK
  <2>3. amount' <= owed'
    BY <1>4, <1>6, <2>2 DEF AudioIInv, AudioTypeOK
  <2>4. drop' \in BOOLEAN
    BY <2>1
  <2>5. AudioTypeOK'
    BY <1>4, <1>8, <2>2, <2>4, TargetType DEF AudioIInv, AudioTypeOK, audioRing, history, Places
  <2>6. ASSUME ~drop' PROVE Fill + amount' <= Target + 2 * Slack
    <3>1. CASE room > 0
      BY <1>2, <1>3, <2>1, <3>1, TargetType, Sizes
    <3>2. CASE room = 0
      <4>1. amount' <= Slack /\ Fill <= Target + Slack
        <5>1. ~(due > Slack) /\ ~(Fill > Target + Slack)
          BY <2>1, <2>6, <3>2, Zenon
        <5>2. due \in Nat /\ Fill \in Nat /\ Target \in Nat /\ Slack \in Nat
          BY <1>2, IntTypes, Sizes, TargetType DEF AudioIInv
        <5> QED
          BY <2>2, <5>1, <5>2
      <4>2. amount' \in Nat /\ Fill \in Nat /\ Target \in Nat /\ Slack \in Nat
        BY <1>2, <2>2, Sizes, TargetType
      <4> QED
        BY <4>1, <4>2, SlackTwice
    <3> QED
      BY <1>2, <3>1, <3>2
  <2> QED
    BY <1>4, <1>5, <1>8, <2>2, <2>3, <2>5, <2>6 DEF AudioIInv, Locals, InFlight, Bound
<1> QED
  BY <1>4, <1>7, <1>8

(* The stretch that is filled cannot be read yet. *)
LEMMA ClaimInv == ASSUME AudioIInv, Claim PROVE AudioIInv'
<1> DEFINE m == WholeFrames(Less(amount, Less(Free, Size - wr)))
<1>1. Less(Free, Size - wr) \in Nat /\ Less(Free, Size - wr) <= Free /\ Less(Free, Size - wr) <= Size - wr
  <2>1. Size - wr \in Nat /\ Free \in Nat
    BY IntTypes, FillType, Sizes DEF AudioIInv
  <2> QED
    BY <2>1, LessType
<1>2. m \in Nat /\ m <= amount /\ m <= Free /\ m <= Size - wr
  <2>1. Less(amount, Less(Free, Size - wr)) \in Nat /\ Less(amount, Less(Free, Size - wr)) <= amount
        /\ Less(amount, Less(Free, Size - wr)) <= Less(Free, Size - wr)
    BY <1>1, LessType, IntTypes DEF AudioIInv
  <2>2. m \in Nat /\ m <= Less(amount, Less(Free, Size - wr))
    BY <2>1, WholeFramesBound
  <2> QED
    BY <1>1, <2>1, <2>2, FillType, IntTypes, Sizes DEF AudioIInv
<1>3. WholeFrames(amount) \in Nat /\ WholeFrames(amount) <= amount
  BY WholeFramesBound, TargetType DEF AudioIInv, AudioTypeOK
<1>4. /\ UNCHANGED <<wr, rd, enabled, owed, live, due, history>> /\ audioPc = "room" /\ audioPc' = "put"
      /\ \/ /\ ~drop /\ amount' = m /\ drop' = drop
            /\ buf' = [i \in AudioSlots |-> IF i >= wr /\ i < wr + m THEN written + (i - wr) ELSE buf[i]]
         \/ amount' = WholeFrames(amount) /\ drop' = TRUE /\ buf' = buf
  BY DEF Claim, ClaimOf
<1> HIDE DEF m
<1>5. Fill' = Fill /\ Free' = Free
  BY <1>4 DEF Fill, Free, Minus
<1>6. amount' \in Nat /\ amount' <= amount /\ amount <= owed /\ amount <= live
  BY <1>2, <1>3, <1>4 DEF AudioIInv, Locals
<1>7. Fill + amount <= Target + 2 * Slack \/ drop'
  BY <1>4 DEF AudioIInv, Bound, AudioTypeOK
<1>8. AudioTypeOK'
  <2>1. buf' \in [AudioSlots -> Int]
    BY <1>4 DEF AudioIInv, AudioTypeOK, AudioSlots
  <2>2. drop' \in BOOLEAN /\ amount' \in 0..Target
    <3>1. amount' \in 0..Target
      BY <1>6, IntTypes, TargetType DEF AudioIInv
    <3> QED
      BY <1>4, <3>1, Zenon DEF AudioIInv, AudioTypeOK
  <2> QED
    BY <1>4, <2>1, <2>2, Zenon DEF AudioIInv, AudioTypeOK, history, Places
<1>9. InOrder'
  <2>1. ASSUME NEW i \in 0..Fill - 1 PROVE buf'[Plus(rd, i)] = popped + i
    <3>1. Plus(rd, i) \in AudioSlots /\ buf[Plus(rd, i)] = popped + i
      <4>1. i \in 0..Size /\ rd \in AudioSlots
        BY FillType, IntTypes, Sizes DEF AudioIInv, AudioSlots
      <4> QED
        BY <4>1, PlusType DEF AudioIInv, InOrder
    <3>2. ~(Plus(rd, i) >= wr /\ Plus(rd, i) < wr + m)
      BY <1>2, Sizes DEF AudioIInv, AudioTypeOK, AudioSlots, Plus, Fill, Free, Minus
    <3> QED
      BY <1>4, <3>1, <3>2
  <2> QED
    BY <1>4, <1>5, <2>1 DEF AudioIInv, InOrder, history, Plus
<1>10. InFlight'
  <2> SUFFICES ASSUME ~drop'
               PROVE /\ amount' <= Free /\ amount' <= Size - wr
                     /\ \A j \in 0..amount' - 1 : buf'[wr + j] = written + j
    BY <1>4, <1>5 DEF InFlight, history
  <2>1. amount' = m
        /\ buf' = [i \in AudioSlots |-> IF i >= wr /\ i < wr + m THEN written + (i - wr) ELSE buf[i]]
    BY <1>4
  <2>2. ASSUME NEW j \in 0..m - 1 PROVE buf'[wr + j] = written + j
    <3>1. wr + j \in AudioSlots /\ wr + j >= wr /\ wr + j < wr + m /\ (wr + j) - wr = j
      BY <1>2, Sizes DEF AudioIInv, AudioTypeOK, AudioSlots
    <3> QED
      BY <2>1, <3>1
  <2> QED
    BY <1>2, <2>1, <2>2
<1>11. Locals' /\ Bound'
  <2>1. ~drop' => Fill + amount' <= Target + 2 * Slack
    BY <1>2, <1>6, <1>7, FillType, TargetType, Sizes DEF AudioIInv, AudioTypeOK
  <2> QED
    BY <1>4, <1>5, <1>6, <2>1, TargetType DEF AudioIInv, AudioTypeOK, Locals, Bound
<1> QED
  BY <1>8, <1>9, <1>10, <1>11 DEF AudioIInv

(* Publishing a stretch appends it to what may be read. *)
LEMMA PutInv == ASSUME AudioIInv, Put PROVE AudioIInv'
<1>1. /\ audioPc = "put" /\ audioPc' = "mix" /\ owed' = owed - amount /\ live' = live - amount
      /\ amount' = 0 /\ drop' = FALSE
      /\ UNCHANGED <<buf, rd, enabled, due, popped, fed, drained>>
      /\ \/ drop /\ UNCHANGED <<wr, written>>
         \/ ~drop /\ wr' = Plus(wr, amount) /\ written' = written + amount
  BY DEF Put, PublishSamples
<1>2. amount \in Nat /\ amount <= owed /\ amount <= live
  BY <1>1, TargetType DEF AudioIInv, AudioTypeOK, Locals
<1>3. owed' \in Nat /\ live' \in 0..Target /\ amount' \in 0..Target
  BY <1>1, <1>2, TargetType DEF AudioIInv, AudioTypeOK
<1>4. CASE drop
  <2>1. UNCHANGED <<wr, written>>
    BY <1>1, <1>4
  <2>2. InOrder' /\ Fill' = Fill
    BY <1>1, <2>1, SameRing DEF AudioIInv, audioRing
  <2>3. AudioTypeOK'
    BY <1>1, <1>3, <2>1 DEF AudioIInv, AudioTypeOK, Places
  <2> QED
    BY <1>1, <2>2, <2>3 DEF AudioIInv, Locals, InFlight, Bound
<1>5. CASE ~drop
  <2>1. wr' = Plus(wr, amount) /\ written' = written + amount
    BY <1>1, <1>5
  <2>2. amount <= Free /\ amount <= Size - wr
        /\ \A j \in 0..amount - 1 : buf[wr + j] = written + j
    BY <1>1, <1>5 DEF AudioIInv, InFlight
  <2>3. wr' \in AudioSlots
    <3>1. amount \in 0..Size /\ wr \in AudioSlots
      BY <1>2, <2>2, IntTypes, Sizes DEF AudioIInv, AudioSlots
    <3> QED
      BY <2>1, <3>1, PlusType
  <2>4. Fill' = Fill + amount
    BY <1>1, <1>2, <2>1, <2>2, Sizes
    DEF AudioIInv, AudioTypeOK, AudioSlots, Fill, Free, Minus, Plus
  <2>5. AudioTypeOK'
    <3>1. written' \in Nat /\ FALSE \in BOOLEAN
      BY <1>2, <2>1, IntTypes DEF AudioIInv
    <3> QED
      BY <1>1, <1>3, <2>3, <3>1, Zenon DEF AudioIInv, AudioTypeOK, Places
  <2>6. ASSUME NEW i \in 0..(Fill + amount) - 1 PROVE buf[Plus(rd, i)] = popped + i
    <3>1. CASE i < Fill
      BY <3>1, FillType DEF AudioIInv, InOrder
    <3>2. CASE i >= Fill
      <4>1. i - Fill \in 0..amount - 1
        BY <1>2, <3>2, FillType DEF AudioIInv
      <4>2. Plus(rd, i) = wr + (i - Fill)
        BY <1>2, <2>2, <3>2, Sizes DEF AudioIInv, AudioTypeOK, AudioSlots, Fill, Free, Minus, Plus
      <4>3. written + (i - Fill) = popped + i
        BY FillType DEF AudioIInv, InOrder, AudioTypeOK
      <4> QED
        BY <2>2, <4>1, <4>2, <4>3
    <3> QED
      BY <3>1, <3>2, FillType DEF AudioIInv
  <2>7. InOrder'
    <3>1. written' = popped + Fill'
      BY <1>2, <2>1, <2>4, FillType DEF AudioIInv, InOrder, AudioTypeOK
    <3> QED
      <4>1. rd' = rd /\ buf' = buf /\ popped' = popped
        BY <1>1
      <4>2. 0..Fill' - 1 = 0..(Fill + amount) - 1
        BY <2>4, Zenon
      <4>3. \A i \in 0..Fill' - 1 : buf'[Plus(rd', i)] = popped' + i
        BY <2>6, <4>1, <4>2, Zenon
      <4> QED
        BY <3>1, <4>1, <4>3 DEF InOrder, Plus
  <2>8. Fill' <= Target + 2 * Slack
    BY <1>1, <1>5, <2>4 DEF AudioIInv, Bound
  <2> QED
    BY <1>1, <2>5, <2>7, <2>8 DEF AudioIInv, Locals, InFlight, Bound
<1> QED
  BY <1>4, <1>5

(* The audio thread only makes room. *)
LEMMA PopInv == ASSUME AudioIInv, NEW n \in Nat, Pop(n) PROVE AudioIInv'
<1> DEFINE got == Less(Fill, n)
<1>1. got \in Nat /\ got <= Fill
  BY FillType, LessType, Sizes DEF AudioIInv
<1>2. /\ rd' = Plus(rd, got) /\ popped' = popped + got
      /\ drained' = Less(drained + got, Target)
      /\ UNCHANGED <<buf, wr, producer, written, fed>>
  BY DEF Pop
<1> HIDE DEF got
<1>3. rd' \in AudioSlots
  BY <1>1, <1>2, FillType, PlusType, Sizes DEF AudioIInv, AudioTypeOK
<1>4. Fill' = Fill - got /\ Free' = Free + got
  BY <1>1, <1>2, Sizes DEF AudioIInv, AudioTypeOK, AudioSlots, Fill, Free, Minus, Plus
<1>5. AudioTypeOK'
  <2>1. drained' \in 0..Target
    <3>1. drained + got \in Nat
      BY <1>1, IntTypes DEF AudioIInv
    <3>2. Less(drained + got, Target) \in Nat /\ Less(drained + got, Target) <= Target
      BY <3>1, TargetType, LessType
    <3> QED
      BY <1>2, <3>2, TargetType
  <2> QED
    BY <1>1, <1>2, <1>3, <2>1 DEF AudioIInv, AudioTypeOK, producer
<1>6. InOrder'
  <2>1. ASSUME NEW i \in 0..Fill - got - 1 PROVE buf[Plus(rd', i)] = popped + got + i
    <3>1. i + got \in 0..Fill - 1
      BY <1>1, FillType DEF AudioIInv
    <3>2. Plus(rd', i) = Plus(rd, i + got)
      BY <1>1, <1>2, Sizes DEF AudioIInv, AudioTypeOK, AudioSlots, Fill, Minus, Plus
    <3> QED
      BY <1>1, <3>1, <3>2 DEF AudioIInv, InOrder, AudioTypeOK
  <2>2. written = popped + got + (Fill - got)
    BY <1>1, FillType DEF AudioIInv, InOrder, AudioTypeOK
  <2> QED
    BY <1>2, <1>4, <2>1, <2>2 DEF InOrder, Plus
<1>7. UNCHANGED <<audioPc, due, owed, amount, live, drop, wr, buf, written>>
  BY <1>2 DEF producer
<1>8. Locals'
  BY <1>7 DEF AudioIInv, Locals
<1>9. InFlight'
  BY <1>1, <1>4, <1>7, FillType, TargetType DEF AudioIInv, InFlight, AudioTypeOK
<1>10. Bound'
  BY <1>1, <1>4, <1>7, FillType, TargetType, Sizes DEF AudioIInv, Bound, AudioTypeOK
<1> QED
  BY <1>5, <1>6, <1>8, <1>9, <1>10 DEF AudioIInv

LEMMA WaitInv == ASSUME AudioIInv, NEW d \in Nat, Wait(d) PROVE AudioIInv'
<1>1. owed' = owed + d /\ UNCHANGED <<audioRing, enabled, live, audioPc, due, amount, drop, history>>
  BY DEF Wait
<1>2. InOrder' /\ Fill' = Fill /\ Free' = Free
  BY <1>1, SameRing DEF AudioIInv, history
<1>3. AudioTypeOK'
  BY <1>1 DEF AudioIInv, AudioTypeOK, audioRing, history
<1>4. Locals'
  BY <1>1, TargetType DEF AudioIInv, Locals, AudioTypeOK
<1> QED
  BY <1>1, <1>2, <1>3, <1>4 DEF AudioIInv, InFlight, Bound, audioRing, history

LEMMA StutterInv == ASSUME AudioIInv, UNCHANGED audioVars PROVE AudioIInv'
<1>1. UNCHANGED <<audioRing, producer, history>>
  BY DEF audioVars
<1> QED
  BY <1>1 DEF AudioIInv, AudioTypeOK, InOrder, Locals, InFlight, Bound, audioRing, producer, history,
              Fill, Free, Minus, Plus

THEOREM Inductive == AudioSpec => []AudioIInv
<1>1. ASSUME AudioIInv, [AudioNext]_audioVars PROVE AudioIInv'
  <2>1. CASE UNCHANGED audioVars
    BY <1>1, <2>1, StutterInv
  <2>2. CASE \E on \in BOOLEAN : EnableOut(on)
    BY <1>1, <2>2, EnableOutInv
  <2>3. CASE \E n \in {FrameLen * k : k \in 1..Size \div FrameLen} : Pop(n)
    <3>1. PICK k \in 1..Size \div FrameLen : Pop(FrameLen * k)
      BY <2>3
    <3>2. k \in Nat /\ FrameLen \in Nat
      BY AudioAssumption
    <3>3. FrameLen * k \in Nat
      BY <3>2
    <3> QED
      BY <1>1, <3>1, <3>3, PopInv
  <2>4. CASE \E d \in 1..MaxStep : Wait(d)
    BY <1>1, <2>4, WaitInv, Sizes
  <2> QED
    BY <1>1, <2>1, <2>2, <2>3, <2>4, GetFreeInv, EndTickInv, TakeNowInv, ChooseInv,
       ClaimInv, PutInv DEF AudioNext
<1> QED
  BY <1>1, InitInv, PTL DEF AudioSpec

(* Indices stay in the ring, and the guest is never drained of more than   *)
(* wall time, brought forward to fill the cushion, owes (owed is in Nat).  *)
THEOREM AudioTypeCorrect == AudioSpec => []AudioTypeOK
BY Inductive, PTL DEF AudioIInv

(* The lock-free ring hands the samples on in order, for every size.       *)
THEOREM RingInOrder == AudioSpec => []InOrder
BY Inductive, PTL DEF AudioIInv

(* A stall of any length never makes the latency exceed the cushion and    *)
(* twice the slack.                                                        *)
THEOREM LatencyIsBounded == AudioSpec => []LatencyBounded
<1>1. AudioIInv => LatencyBounded
  BY FillType, TargetType, Sizes DEF AudioIInv, Bound, LatencyBounded, AudioTypeOK
<1> QED
  BY <1>1, Inductive, PTL

---------------------------------------------------------------------------
(***************************************************************************)
(* The cushion.  Kept(x) says that the ring, what was played since the     *)
(* tick began and x more samples are the cushion, but for the slack and a  *)
(* part of a frame.  A tick holds it for what the mix buffer still has to  *)
(* give, and where it discards samples, or finds nothing to take, for the  *)
(* ring alone.                                                             *)
(***************************************************************************)
Kept(x) == drained = Target \/ Fill + drained + x + Slack + FrameLen > Target

Tick ==
  /\ audioPc = "due" => live > 0
  /\ fed => Kept(IF audioPc = "idle" THEN 0 ELSE live)
  /\ audioPc = "due" /\ due = 0 => Kept(0)
  /\ audioPc = "room" /\ drop => Kept(0)
  /\ audioPc = "put" /\ drop /\ amount > 0 => Kept(0)

(* Stretches are whole frames, so wr is at the start of one. *)
Whole(n) == \E k \in Nat : n = k * FrameLen

Framed == Whole(wr) /\ (audioPc = "put" /\ ~drop => Whole(amount))

CInv == Tick /\ Framed

---------------------------------------------------------------------------
LEMMA FrameLenType == FrameLen \in Nat /\ FrameLen >= 1 /\ Slack \in Nat /\ Slack >= FrameLen
BY AudioAssumption

LEMMA WholeFramesWhole ==
  ASSUME NEW n \in Nat
  PROVE  Whole(WholeFrames(n)) /\ WholeFrames(n) > n - FrameLen
<1> DEFINE q == n \div FrameLen
           r == n % FrameLen
<1>1. q \in Nat /\ n = FrameLen * q + r
  BY FrameLenType, SMT
<1>2. r \in Nat /\ r < FrameLen
  BY FrameLenType, SMT
<1>3. WholeFrames(n) = n - r
  BY DEF WholeFrames
<1> HIDE DEF q, r
<1>4. n - r = q * FrameLen
  BY <1>1, <1>2, FrameLenType
<1>5. Whole(WholeFrames(n))
  BY <1>1, <1>3, <1>4 DEF Whole
<1>6. n - r > n - FrameLen
  BY <1>2, FrameLenType
<1> QED
  BY <1>3, <1>5, <1>6

(* Two whole numbers of frames differ by a frame or more. *)
LEMMA WholeApart ==
  ASSUME NEW a \in Nat, NEW b \in Nat, Whole(a), Whole(b), a < b
  PROVE  b - a >= FrameLen
<1>1. PICK j \in Nat : a = j * FrameLen
  BY DEF Whole
<1>2. PICK k \in Nat : b = k * FrameLen
  BY DEF Whole
<1>3. j < k
  <2>1. CASE j >= k
    <3>1. j * FrameLen >= k * FrameLen
      BY <2>1, FrameLenType
    <3>2. FALSE
      BY <1>1, <1>2, <3>1
    <3> QED
      BY <3>2
  <2> QED
    BY <2>1
<1>4. k - j \in Nat /\ k - j >= 1
  BY <1>3
<1>5. b - a = (k - j) * FrameLen
  BY <1>1, <1>2, FrameLenType
<1>6. (k - j) * FrameLen >= FrameLen
  BY <1>4, FrameLenType
<1> QED
  BY <1>5, <1>6

LEMMA WholeSum ==
  ASSUME NEW a, NEW b, Whole(a), Whole(b) PROVE Whole(a + b)
<1>1. PICK j \in Nat : a = j * FrameLen
  BY DEF Whole
<1>2. PICK k \in Nat : b = k * FrameLen
  BY DEF Whole
<1>3. a + b = (j + k) * FrameLen /\ j + k \in Nat
  BY <1>1, <1>2, FrameLenType
<1> QED
  BY <1>3 DEF Whole

LEMMA WholeZero == Whole(0)
BY FrameLenType DEF Whole

LEMMA WholeSize == Whole(Size)
<1>1. Size % FrameLen = 0 /\ Size \in Nat
  BY AudioAssumption
<1>2. WholeFrames(Size) = Size
  BY <1>1 DEF WholeFrames
<1> QED
  BY <1>1, <1>2, WholeFramesWhole

(* The cushion is at most half of the ring. *)
LEMMA TargetHalf == Target + Target <= Size
<1>1. Size \div 2 \in Nat /\ Size \div 2 + Size \div 2 <= Size
  BY Sizes, SMT
<1>2. WholeFrames(Size \div 2) \in Nat /\ WholeFrames(Size \div 2) <= Size \div 2
  BY <1>1, WholeFramesBound
<1>3. Cushion \in Nat
  BY AudioAssumption
<1> QED
  BY <1>1, <1>2, <1>3, Sizes DEF Target

(* What the clock is charged covers what the cushion lacks. *)
LEMMA ChargeEnough ==
  ASSUME AudioTypeOK
  PROVE  /\ Less(Charged, CatchUp) \in Nat
         /\ WholeFrames(Less(Charged, CatchUp)) \in Nat
         /\ Fill + WholeFrames(Less(Charged, CatchUp)) + Slack + FrameLen > Target
<1> DEFINE want  == IF Fill < Target THEN Target - Fill ELSE 0
           first == WholeFrames(Resynced)
           c     == Less(Charged, CatchUp)
<1>1. want \in Nat /\ want <= Target /\ want + Fill >= Target /\ Fill \in Nat
  BY FillType, TargetType, Sizes
<1>2. Charged \in Nat /\ Resynced \in Nat /\ CatchUp \in Nat
  BY ChargedType, Sizes
<1>3. Resynced <= CatchUp
  BY LessType, IntTypes, Sizes DEF Resynced
<1>4. c \in Nat /\ c <= Charged /\ c <= CatchUp
  BY <1>2, LessType
<1>5. WholeFrames(c) \in Nat /\ WholeFrames(c) > c - FrameLen
  BY <1>4, WholeFramesWhole, WholeFramesBound
<1>6. first \in Nat /\ first <= Resynced
  BY <1>2, WholeFramesBound
<1>7. Charged = IF want > first + Slack THEN Resynced + (want - first) ELSE Resynced
  BY DEF Charged
<1>8. c = IF Charged <= CatchUp THEN Charged ELSE CatchUp
  BY DEF Less
<1>9. CASE want > first + Slack
  <2>1. Charged >= want
    BY <1>1, <1>2, <1>6, <1>7, <1>9, FrameLenType
  <2>2. CatchUp >= want
    BY <1>1, <1>2, CatchUpAssumption, TargetType
  <2>3. c >= want
    BY <1>8, <2>1, <2>2
  <2> HIDE DEF c, want, first
  <2>4. WholeFrames(c) + Slack + FrameLen > want
    BY <1>1, <1>4, <1>5, <2>3, FrameLenType
  <2> QED
    BY <1>1, <1>4, <1>5, <2>4, FrameLenType, TargetType DEF c
<1>10. CASE ~(want > first + Slack)
  <2>1. Charged = Resynced
    BY <1>7, <1>10
  <2>2. c = Resynced
    BY <1>3, <1>8, <2>1
  <2>3. WholeFrames(c) = first
    BY <2>2
  <2>4. first + Slack + FrameLen > want
    BY <1>1, <1>6, <1>10, FrameLenType
  <2> HIDE DEF c, want, first
  <2> QED
    BY <1>1, <1>4, <1>5, <1>6, <2>3, <2>4, FrameLenType, TargetType DEF c
<1> QED
  BY <1>9, <1>10
LEMMA LargerSum ==
  ASSUME NEW f \in Nat, NEW d \in Nat, NEW x \in Nat, NEW y \in Nat, NEW s \in Nat,
         NEW l \in Nat, NEW t \in Nat, y >= x, f + d + x + s + l > t
  PROVE  f + d + y + s + l > t
OBVIOUS

(* With nothing played, and what lacks still to come. *)
LEMMA FreshSum ==
  ASSUME NEW f \in Nat, NEW y \in Nat, NEW w \in Nat, NEW s \in Nat, NEW l \in Nat,
         NEW t \in Nat, l >= 1, f + w + s + l > t, y >= w \/ y >= t
  PROVE  f + 0 + y + s + l > t
OBVIOUS

(* More samples to come keep the cushion as well. *)
LEMMA KeptMore ==
  ASSUME AudioTypeOK, NEW x \in Nat, NEW y \in Nat, x <= y, Kept(x) PROVE Kept(y)
BY IntTypes, FillType, TargetType, FrameLenType, Sizes DEF Kept

(* A full cushion is kept. *)
LEMMA KeptFull ==
  ASSUME AudioTypeOK, NEW x \in Nat, Fill + x + Slack + FrameLen > Target PROVE Kept(x)
BY IntTypes, FillType, TargetType, FrameLenType, Sizes DEF Kept

(* Kept is about the ring and what was played. *)
LEMMA SameKept ==
  ASSUME UNCHANGED <<wr, rd, drained>>, NEW x, Kept(x) PROVE Kept(x)'
BY DEF Kept, Fill, Minus

LEMMA InitKept == ASSUME AudioInit PROVE CInv
BY WholeZero DEF AudioInit, CInv, Tick, Framed

LEMMA EnableOutKept == ASSUME CInv, NEW on \in BOOLEAN, EnableOut(on) PROVE CInv'
<1>1. UNCHANGED <<audioRing, audioPc, due, amount, drop>> /\ audioPc = "idle" /\ ~fed'
  BY DEF EnableOut
<1> QED
  BY <1>1 DEF CInv, Tick, Framed, Whole, audioRing

LEMMA GetFreeKept == ASSUME AudioTypeOK, AudioTypeOK', CInv, GetFree PROVE CInv'
<1> DEFINE w == WholeFrames(Less(Charged, CatchUp))
           free == Less(w, Target)
<1>1. /\ UNCHANGED <<audioRing, due, amount, drop>>
      /\ drained' = 0 /\ audioPc' = "mix"
      /\ fed' = (live' >= free)
  BY DEF GetFree, BeginTick
<1>2. w \in Nat /\ Fill + w + Slack + FrameLen > Target
  BY ChargeEnough
<1>3. free = w \/ free = Target
  BY DEF Less
<1>4. Fill' = Fill /\ Fill \in Nat /\ live' \in Nat
  <2>1. live' \in Nat
    BY TargetType DEF AudioTypeOK
  <2> QED
    BY <1>1, <2>1, FillType, Sizes DEF audioRing, Fill, Minus
<1> HIDE DEF w, free
<1>5. ASSUME live' >= free PROVE Kept(live)'
  <2>1. live' >= w \/ live' >= Target
    BY <1>3, <1>5
  <2>2. Fill + 0 + live' + Slack + FrameLen > Target
    BY <1>2, <1>4, <2>1, FrameLenType, TargetType, FreshSum
  <2>3. Fill' = Fill /\ drained' = 0
    BY <1>1, <1>4
  <2> QED
    BY <2>2, <2>3, Zenon DEF Kept
<1>6. fed' => Kept(live)'
  BY <1>1, <1>5, Zenon
<1> QED
  BY <1>1, <1>6 DEF CInv, Tick, Framed, Whole, audioRing

LEMMA EndTickKept == ASSUME CInv, EndTick PROVE CInv'
<1>1. UNCHANGED <<audioRing, live, due, amount, drop, fed, drained>> /\ live = 0
      /\ audioPc = "mix" /\ audioPc' = "idle"
  BY DEF EndTick, history
<1>2. fed' => Kept(0)'
  BY <1>1, SameKept DEF CInv, Tick, audioRing
<1> QED
  BY <1>1, <1>2 DEF CInv, Tick, Framed, Whole, audioRing

LEMMA TakeNowKept == ASSUME AudioTypeOK, CInv, TakeNow PROVE CInv'
<1>1. /\ UNCHANGED <<audioRing, live, amount, drop, fed, drained>> /\ audioPc = "mix" /\ audioPc' = "due"
      /\ live > 0 /\ due' = WholeFrames(Less(Charged, CatchUp))
  BY DEF TakeNow, history
<1>2. due' = 0 => Kept(0)
  <2>1. ASSUME due' = 0 PROVE Fill + 0 + Slack + FrameLen > Target
    BY <1>1, <2>1, ChargeEnough
  <2> QED
    BY <2>1, KeptFull
<1>3. (due' = 0 => Kept(0)') /\ (fed' => Kept(live)')
  BY <1>1, <1>2, SameKept DEF CInv, Tick, audioRing
<1> QED
  BY <1>1, <1>3 DEF CInv, Tick, Framed, Whole, audioRing

LEMMA ChooseKept == ASSUME AudioTypeOK, CInv, Choose PROVE CInv'
<1> DEFINE n    == Less(live, due)
           room == IF Fill < Target THEN Target - Fill ELSE 0
<1>1. /\ UNCHANGED <<audioRing, live, fed, drained>> /\ due' = 0 /\ audioPc = "due"
      /\ \/ n = 0 /\ audioPc' = "idle"
         \/ audioPc' = "room" /\ (drop' => room = 0)
  BY DEF Choose, ChooseIf, history
<1>2. fed => Kept(live)
  BY <1>1 DEF CInv, Tick
<1>3. CASE n = 0 /\ audioPc' = "idle"
  <2>1. due = 0
    BY <1>1, <1>3, IntTypes DEF CInv, Tick, Less
  <2>2. Kept(0)
    BY <1>1, <2>1 DEF CInv, Tick
  <2>3. Kept(0)'
    BY <1>1, <2>2, SameKept DEF audioRing
  <2> QED
    BY <1>1, <1>3, <2>3 DEF CInv, Tick, Framed, Whole, audioRing
<1>4. CASE audioPc' = "room" /\ (drop' => room = 0)
  <2>1. room = 0 => Fill >= Target
    BY FillType, TargetType, Sizes
  <2>2. room = 0 => Kept(0)
    <3>1. ASSUME room = 0 PROVE Fill + 0 + Slack + FrameLen > Target
      BY <2>1, <3>1, FillType, TargetType, FrameLenType, Sizes
    <3> QED
      BY <3>1, KeptFull
  <2> HIDE DEF room
  <2>3. (drop' => Kept(0)') /\ (fed' => Kept(live)')
    BY <1>1, <1>2, <1>4, <2>2, SameKept DEF audioRing
  <2> QED
    BY <1>1, <1>4, <2>3 DEF CInv, Tick, Framed, Whole, audioRing
<1> QED
  BY <1>1, <1>3, <1>4

(* Whole frames that find no stretch find the ring full. *)
LEMMA ClaimKept == ASSUME AudioTypeOK, CInv, Claim PROVE CInv'
<1> DEFINE contiguous == Less(Free, Size - wr)
           m == WholeFrames(Less(amount, contiguous))
<1>1. /\ UNCHANGED <<wr, rd, live, due, fed, drained>> /\ audioPc = "room" /\ audioPc' = "put"
      /\ \/ ~drop /\ m > 0 /\ amount' = m /\ ~drop'
         \/ (drop \/ ~(m > 0)) /\ amount' = WholeFrames(amount) /\ drop'
  BY DEF Claim, ClaimOf, history
<1>2. contiguous \in Nat /\ (contiguous = Free \/ contiguous = Size - wr)
  BY IntTypes, FillType, Sizes DEF Less
<1>3. Less(amount, contiguous) \in Nat
      /\ (Less(amount, contiguous) = amount \/ Less(amount, contiguous) = contiguous)
  BY <1>2, IntTypes, LessType DEF Less
<1>4. Size - wr >= FrameLen
  <2>1. Whole(wr) /\ wr \in Nat /\ Size \in Nat /\ wr < Size
    BY IntTypes, Sizes DEF CInv, Framed
  <2> QED
    BY <2>1, WholeSize, WholeApart
<1>5. m = 0 /\ WholeFrames(amount) > 0 => Kept(0)
  <2> SUFFICES ASSUME m = 0, WholeFrames(amount) > 0 PROVE Kept(0)
    OBVIOUS
  <2>1. m > Less(amount, contiguous) - FrameLen
    BY <1>3, WholeFramesWhole
  <2>2. amount # Less(amount, contiguous)
    OBVIOUS
  <2>3. contiguous < FrameLen
    BY <1>2, <1>3, <2>1, <2>2, FrameLenType
  <2>4. Free < FrameLen
    BY <1>2, <1>4, <2>3, FillType, Sizes, FrameLenType
  <2>5. Fill + FrameLen >= Size
    BY <2>4, FillType, Sizes, FrameLenType DEF Free
  <2>6. amount >= FrameLen /\ amount <= Target /\ amount \in Nat
    <3>1. Whole(WholeFrames(amount)) /\ WholeFrames(amount) \in Nat /\ WholeFrames(amount) <= amount
      BY IntTypes, WholeFramesWhole, WholeFramesBound
    <3>2. WholeFrames(amount) - 0 >= FrameLen
      BY <3>1, WholeZero, WholeApart
    <3> QED
      BY <3>1, <3>2, IntTypes, FrameLenType, TargetType
  <2>7. Fill + 0 + Slack + FrameLen > Target
    BY <2>5, <2>6, TargetHalf, FillType, TargetType, FrameLenType, Sizes
  <2> QED
    BY <2>7, KeptFull
<1>6. m \in Nat /\ Whole(m) /\ WholeFrames(amount) \in Nat
  BY <1>3, WholeFramesWhole, WholeFramesBound, IntTypes
<1>7. Tick => (fed => Kept(live)) /\ (drop => Kept(0))
  BY <1>1 DEF Tick
<1> HIDE DEF m
<1>8. drop' /\ amount' > 0 => Kept(0)
  BY <1>1, <1>5, <1>6, <1>7 DEF CInv
<1>9. (drop' /\ amount' > 0 => Kept(0)') /\ (fed' => Kept(live)')
  BY <1>1, <1>7, <1>8, SameKept DEF CInv
<1>10. Framed'
  BY <1>1, <1>6 DEF CInv, Framed, Whole
<1> QED
  BY <1>1, <1>9, <1>10 DEF CInv, Tick

LEMMA PutKept == ASSUME AudioIInv, CInv, Put, AudioTypeOK' PROVE CInv'
<1>1. /\ audioPc = "put" /\ audioPc' = "mix" /\ live' = live - amount
      /\ UNCHANGED <<rd, fed, drained>>
      /\ \/ drop /\ UNCHANGED wr
         \/ ~drop /\ wr' = Plus(wr, amount)
  BY DEF Put, PublishSamples
<1>2. live \in Nat /\ amount \in Nat /\ live' \in Nat /\ drained \in Nat /\ drained' = drained
  BY <1>1, IntTypes, TargetType DEF AudioIInv, AudioTypeOK
<1>3. fed => Kept(live)
  BY <1>1 DEF CInv, Tick
<1>4. CASE drop /\ UNCHANGED wr
  <2>1. amount > 0 => Kept(0)
    BY <1>1, <1>4 DEF CInv, Tick
  <2>2. CASE amount = 0
    <3>1. live' = live
      BY <1>1, <1>2, <2>2
    <3>2. fed' => Kept(live)'
      BY <1>1, <1>3, <1>4, <3>1, SameKept
    <3> QED
      BY <1>1, <1>4, <3>2 DEF CInv, Tick, Framed, Whole
  <2>3. CASE amount > 0
    <3>1. Kept(0)'
      BY <1>1, <1>4, <2>1, <2>3, SameKept
    <3>2. Fill' = Fill /\ Fill \in Nat
      BY <1>1, <1>4, FillType, Sizes DEF AudioIInv, Fill, Minus
    <3>3. drained = Target \/ Fill + drained + 0 + Slack + FrameLen > Target
      BY <1>2, <3>1, <3>2, Zenon DEF Kept
    <3>4. drained = Target \/ Fill + drained + live' + Slack + FrameLen > Target
      <4>1. live' >= 0 /\ 0 \in Nat
        BY <1>2
      <4> QED
        BY <1>2, <3>2, <3>3, <4>1, TargetType, FrameLenType, LargerSum
    <3>5. Kept(live)'
      BY <1>2, <3>2, <3>4, Zenon DEF Kept
    <3> QED
      BY <1>1, <1>4, <3>5 DEF CInv, Tick, Framed, Whole
  <2> QED
    BY <1>2, <2>2, <2>3
<1>5. CASE ~drop /\ wr' = Plus(wr, amount)
  <2>1. amount <= Free /\ amount <= Size - wr
    BY <1>1, <1>5 DEF AudioIInv, InFlight
  <2>2. Fill' = Fill + amount
    BY <1>1, <1>2, <1>5, <2>1, Sizes
    DEF AudioIInv, AudioTypeOK, AudioSlots, Fill, Free, Minus, Plus
  <2>3. Fill \in Nat /\ Fill' \in Nat
    BY <1>2, <2>2, FillType, Sizes DEF AudioIInv
  <2>4. fed' => Kept(live)'
    BY <1>1, <1>2, <1>3, <2>2, <2>3, TargetType, FrameLenType DEF Kept
  <2>5. Whole(wr)'
    <3>1. Whole(wr) /\ Whole(amount)
      BY <1>1, <1>5 DEF CInv, Framed
    <3>2. wr' = 0 \/ wr' = wr + amount
      BY <1>2, <1>5, <2>1, IntTypes, Sizes DEF AudioIInv, Plus
    <3>3. Whole(wr')
      BY <3>1, <3>2, WholeZero, WholeSum
    <3> QED
      BY <3>3 DEF Whole
  <2> QED
    BY <1>1, <2>4, <2>5 DEF CInv, Tick, Framed
<1> QED
  BY <1>1, <1>4, <1>5

(* What leaves the ring is counted. *)
LEMMA PopKept == ASSUME AudioTypeOK, CInv, NEW n \in Nat, Pop(n) PROVE CInv'
<1> DEFINE got == Less(Fill, n)
<1>1. got \in Nat /\ got <= Fill
  BY FillType, LessType, Sizes
<1>2. /\ rd' = Plus(rd, got) /\ drained' = Less(drained + got, Target)
      /\ UNCHANGED <<wr, producer, fed>>
  BY DEF Pop
<1> HIDE DEF got
<1>3. Fill' = Fill - got
  BY <1>1, <1>2, Sizes DEF AudioTypeOK, AudioSlots, Fill, Minus, Plus
<1>4. drained' = drained + got \/ drained' = Target
  BY <1>2 DEF Less
<1>5. ASSUME NEW x \in Nat, Kept(x) PROVE Kept(x)'
  <2>1. drained = Target => drained' = Target
    BY <1>1, <1>2, IntTypes, TargetType DEF Less
  <2> QED
    BY <1>1, <1>3, <1>4, <1>5, <2>1, IntTypes, FillType, TargetType, FrameLenType, Sizes DEF Kept
<1>6. UNCHANGED <<audioPc, live, due, amount, drop, fed, wr>>
  BY <1>2 DEF producer
<1>7. live \in Nat
  BY IntTypes
<1> QED
  BY <1>5, <1>6, <1>7 DEF CInv, Tick, Framed, Whole

LEMMA WaitKept == ASSUME CInv, NEW d, Wait(d) PROVE CInv'
BY DEF Wait, CInv, Tick, Framed, Whole, Kept, Fill, Minus, audioRing, history

LEMMA StutterKept == ASSUME CInv, UNCHANGED audioVars PROVE CInv'
BY DEF audioVars, CInv, Tick, Framed, Whole, Kept, Fill, Minus, audioRing, producer, history

(* A guest that delivers what it is asked for never leaves the ring with   *)
(* less than the cushion but for the slack, whatever the main loop missed  *)
(* before: take_now asks for enough, and nothing is discarded below the    *)
(* target but what finds the ring full.                                    *)
THEOREM CushionIsKept == AudioSpec => []CushionKept
<1>1. ASSUME AudioIInv, AudioIInv', CInv, [AudioNext]_audioVars PROVE CInv'
  <2>1. CASE UNCHANGED audioVars
    BY <1>1, <2>1, StutterKept
  <2>2. CASE \E on \in BOOLEAN : EnableOut(on)
    BY <1>1, <2>2, EnableOutKept
  <2>3. CASE \E n \in {FrameLen * k : k \in 1..Size \div FrameLen} : Pop(n)
    <3>1. PICK k \in 1..Size \div FrameLen : Pop(FrameLen * k)
      BY <2>3
    <3>2. k \in Nat /\ FrameLen \in Nat
      BY AudioAssumption
    <3>3. FrameLen * k \in Nat
      BY <3>2
    <3> QED
      BY <1>1, <3>1, <3>3, PopKept DEF AudioIInv
  <2>4. CASE \E d \in 1..MaxStep : Wait(d)
    BY <1>1, <2>4, WaitKept
  <2>5. CASE Put
    BY <1>1, <2>5, PutKept DEF AudioIInv
  <2>6. CASE GetFree
    BY <1>1, <2>6, GetFreeKept DEF AudioIInv
  <2> QED
    BY <1>1, <2>1, <2>2, <2>3, <2>4, <2>5, <2>6, EndTickKept, TakeNowKept, ChooseKept,
       ClaimKept DEF AudioNext, AudioIInv
<1>2. AudioIInv /\ CInv => CushionKept
  <2> SUFFICES ASSUME AudioTypeOK, CInv, audioPc = "idle", fed
                    PROVE Fill + drained + Slack + FrameLen > Target
    BY DEF CushionKept, AudioIInv
  <2>1. Kept(0)
    BY DEF CInv, Tick
  <2> QED
    BY <2>1, IntTypes, FillType, TargetType, FrameLenType, Sizes DEF Kept
<1> QED
  BY <1>1, <1>2, Inductive, InitKept, PTL DEF AudioSpec

---------------------------------------------------------------------------
(* The ring of frames. *)

(* Whatever the UI knows of a slot was allocated before. *)
Allocated ==
  /\ \A i \in DOMAIN offers : offers[i].gen <= gen[offers[i].slot]
  /\ \A s \in Slots : ext[s] <= gen[s]
  /\ \A s \in Slots : fit[s] => gen[s] >= 1
  /\ blit => gen[zcNext] >= 1

(* Only the slot at zcNext is ever being drawn. *)
OnlyNextDrawn ==
  \A s \in Slots : \A g \in 1..gen[s] :
    tex[s][g] = Garbage => blit /\ s = zcNext /\ g = gen[s]

(* n slots after slot s comes slot t. *)
After(s, n, t) == t = s + n \/ t = s + n - ZC_SLOTS

(* The published slot is the one before zcNext, the slot on screen is as   *)
(* far behind as there were frames since it was taken.                     *)
Behind ==
  /\ front.slot # NoSlot => After(front.slot, 1, zcNext)
  /\ extCurrent # NoSlot /\ lapped < ZC_SLOTS - 1 => After(extCurrent, lapped + 1, zcNext)

(* A handler that will draw nothing leaves no broken picture behind. *)
Rendering ==
  ui = "render" /\ extCurrent # NoSlot /\ ext[extCurrent] = NoGen /\ shown = Garbage
    => lapped >= ZC_SLOTS - 1

FrameIInv == FrameTypeOK /\ Allocated /\ OnlyNextDrawn /\ Behind /\ IntactUnlessLapped /\ Rendering

---------------------------------------------------------------------------
LEMMA RingType == ZC_SLOTS \in Nat /\ ZC_SLOTS >= 1 /\ MaxGen \in Nat /\ MaxFrames \in Nat
                  /\ MaxFrames >= 1
BY RingAssumption, BoundAssumption

(* The next slot of the ring. *)
LEMMA NextSlot ==
  ASSUME NEW s \in Slots
  PROVE  (s + 1) % ZC_SLOTS \in Slots /\ After(s, 1, (s + 1) % ZC_SLOTS)
<1> DEFINE N == ZC_SLOTS
<1>1. N \in Nat /\ N >= 1 /\ s \in Nat /\ s < N
  BY RingType DEF Slots
<1>2. CASE s + 1 = N
  <2>1. (s + 1) % N = 0
    BY <1>1, <1>2, SMT
  <2> QED
    BY <2>1, <1>1, <1>2 DEF Slots, After
<1>3. CASE s + 1 < N
  <2>1. (s + 1) % N = s + 1
    BY <1>1, <1>3, SMT
  <2> QED
    BY <2>1, <1>1, <1>3 DEF Slots, After
<1> QED
  BY <1>1, <1>2, <1>3

(* A non-empty set of places in a sequence has a last one. *)
LEMMA LastExists ==
  ASSUME NEW n \in Nat, NEW S \in SUBSET (1..n), S # {}
  PROVE  \E i \in S : \A j \in S : j <= i
<1> DEFINE T == {n - i : i \in S}
<1>0. \A i \in S : i \in Nat /\ n - i \in Nat
  OBVIOUS
<1>1. T \subseteq Nat /\ T # {}
  BY <1>0
<1>2. PICK x \in T : \A y \in T : ~ (<<y, x>> \in OpToRel(<, Nat))
  BY <1>1, WFMin, NatLessThanWellFounded
<1>3. \A y \in T : ~ (y < x)
  BY <1>1, <1>2 DEF OpToRel
<1>4. PICK i \in S : x = n - i
  OBVIOUS
<1>5. ASSUME NEW j \in S PROVE j <= i
  <2>1. n - j \in T
    OBVIOUS
  <2> QED
    BY <2>1, <1>3, <1>4
<1> QED
  BY <1>5

OfferSet == [slot : Slots, gen : 1..MaxGen]

(* Imports leave a slot as it was, without an import, or with one of the   *)
(* allocations that were offered.                                          *)
LEMMA ImportsEffect ==
  ASSUME FrameTypeOK, NEW failing, Imports(offers, failing)
  PROVE  /\ ext' \in [Slots -> 0..MaxGen]
         /\ refused' \in SUBSET Slots
         /\ \A s \in Slots : \/ ext'[s] = ext[s]
                             \/ ext'[s] = NoGen
                             \/ \E i \in DOMAIN offers : /\ offers[i].slot = s
                                                         /\ ext'[s] = offers[i].gen
<1>1. offers \in Seq(OfferSet) /\ ext \in [Slots -> 0..MaxGen]
  BY DEF FrameTypeOK, OfferSet
<1>2. Len(offers) \in Nat /\ DOMAIN offers = 1..Len(offers)
      /\ \A i \in DOMAIN offers : offers[i] \in OfferSet
  BY <1>1
<1>3. ASSUME NEW s \in Slots, OffersOf(offers, s) # {}
      PROVE  /\ LastOffer(offers, s) \in DOMAIN offers
             /\ offers[LastOffer(offers, s)].slot = s
             /\ offers[LastOffer(offers, s)].gen \in 1..MaxGen
  <2>1. OffersOf(offers, s) \in SUBSET (1..Len(offers))
    BY <1>2 DEF OffersOf
  <2>2. \E i \in OffersOf(offers, s) : \A j \in OffersOf(offers, s) : j <= i
    BY <2>1, <1>2, <1>3, LastExists
  <2>3. LastOffer(offers, s) \in OffersOf(offers, s)
    BY <2>2 DEF LastOffer
  <2>4. /\ LastOffer(offers, s) \in DOMAIN offers
        /\ offers[LastOffer(offers, s)].slot = s
    BY <2>3 DEF OffersOf
  <2> QED
    BY <2>4, <1>2 DEF OfferSet
<1>4. ext' = [s \in Slots |-> IF OffersOf(offers, s) = {} THEN ext[s]
                              ELSE IF s \in failing THEN NoGen
                              ELSE offers[LastOffer(offers, s)].gen]
  BY DEF Imports
<1>5. ASSUME NEW s \in Slots
      PROVE  /\ ext'[s] \in 0..MaxGen
             /\ \/ ext'[s] = ext[s]
                \/ ext'[s] = NoGen
                \/ \E i \in DOMAIN offers : offers[i].slot = s /\ ext'[s] = offers[i].gen
  <2>1. CASE OffersOf(offers, s) = {}
    BY <2>1, <1>1, <1>4
  <2>2. CASE OffersOf(offers, s) # {} /\ s \in failing
    BY <2>2, <1>4, RingType DEF NoGen
  <2>3. CASE OffersOf(offers, s) # {} /\ s \notin failing
    <3>1. ext'[s] = offers[LastOffer(offers, s)].gen
      BY <2>3, <1>4
    <3> QED
      BY <3>1, <2>3, <1>3, RingType
  <2> QED
    BY <2>1, <2>2, <2>3
<1>6. ext' \in [Slots -> 0..MaxGen]
  BY <1>4, <1>5
<1>7. refused' \in SUBSET Slots
  BY DEF Imports
<1> QED
  BY <1>5, <1>6, <1>7

(* ... so nothing is imported that was not allocated. *)
LEMMA ImportsAllocated ==
  ASSUME FrameTypeOK, Allocated, NEW failing, Imports(offers, failing)
  PROVE  \A s \in Slots : ext'[s] <= gen[s]
<1> SUFFICES ASSUME NEW s \in Slots PROVE ext'[s] <= gen[s]
  OBVIOUS
<1>1. ext[s] <= gen[s] /\ gen[s] \in Nat /\ NoGen <= gen[s]
  BY DEF Allocated, FrameTypeOK, NoGen
<1>2. CASE \E i \in DOMAIN offers : offers[i].slot = s /\ ext'[s] = offers[i].gen
  BY <1>2 DEF Allocated
<1> QED
  BY <1>1, <1>2, ImportsEffect

---------------------------------------------------------------------------
THEOREM InitInvariant == FrameInit => FrameIInv
<1> SUFFICES ASSUME FrameInit PROVE FrameIInv
  OBVIOUS
<1> USE RingType DEF FrameInit
<1>1. FrameTypeOK
  <2>1. /\ zcNext \in Slots /\ fit \in [Slots -> BOOLEAN] /\ gen \in [Slots -> 0..MaxGen]
        /\ ext \in [Slots -> 0..MaxGen] /\ lapped \in 0..ZC_SLOTS
    BY DEF Slots, NoGen
  <2>2. /\ Garbage \in Garbage..MaxFrames /\ NoPicture \in Garbage..MaxFrames
        /\ NoPicture \in 0..MaxFrames /\ 1 \in 1..MaxFrames
    BY DEF Garbage, NoPicture
  <2>3. tex \in [Slots -> [1..MaxGen -> Garbage..MaxFrames]]
    BY <2>2
  <2>4. front \in [pic : 1..MaxFrames, slot : Slots \cup {NoSlot}]
    BY <2>2
  <2> QED
    BY <2>1, <2>2, <2>3, <2>4 DEF FrameTypeOK
<1>2. Allocated
  BY DEF Allocated, NoGen
<1>3. OnlyNextDrawn
  BY DEF OnlyNextDrawn, NoGen
<1>4. Behind /\ IntactUnlessLapped /\ Rendering
  BY DEF Behind, IntactUnlessLapped, Rendering, NoSlot, NoPicture, Garbage
<1> QED
  BY <1>1, <1>2, <1>3, <1>4 DEF FrameIInv

(* What a frame in front leaves as it is. *)
LEMMA PublishType ==
  ASSUME FrameTypeOK, NEW slot \in Slots \cup {NoSlot}, Publish(slot)
  PROVE  /\ frames' \in 1..MaxFrames /\ frames' # Garbage
         /\ front' \in [pic : 1..MaxFrames, slot : Slots \cup {NoSlot}]
         /\ front'.slot = slot /\ fresh' \in BOOLEAN
BY RingType DEF Publish, FrameTypeOK, Garbage

(* The ring's part of the types. *)
LEMMA RingFacts ==
  FrameTypeOK => /\ zcNext \in Slots /\ fit \in [Slots -> BOOLEAN]
                 /\ gen \in [Slots -> 0..MaxGen]
                 /\ tex \in [Slots -> [1..MaxGen -> Garbage..MaxFrames]]
                 /\ \A s \in Slots : gen[s] \in Nat /\ gen[s] <= MaxGen
                                     /\ 1..gen[s] \subseteq 1..MaxGen
                 /\ Garbage \in Garbage..MaxFrames
                 /\ 1..MaxFrames \subseteq Garbage..MaxFrames
<1> SUFFICES ASSUME FrameTypeOK
             PROVE  /\ \A s \in Slots : gen[s] \in Nat /\ gen[s] <= MaxGen
                                         /\ 1..gen[s] \subseteq 1..MaxGen
                    /\ Garbage \in Garbage..MaxFrames
                    /\ 1..MaxFrames \subseteq Garbage..MaxFrames
  BY DEF FrameTypeOK
<1>1. gen \in [Slots -> 0..MaxGen]
  BY DEF FrameTypeOK
<1>2. \A s \in Slots : gen[s] \in Nat /\ gen[s] <= MaxGen
  BY <1>1, RingType
<1>3. \A s \in Slots : 1..gen[s] \subseteq 1..MaxGen
  BY <1>2, RingType
<1> QED
  BY <1>2, <1>3, RingType DEF Garbage

(* One allocation of one slot is drawn or finished. *)
LEMMA TexUpdate ==
  ASSUME NEW V, NEW f \in [Slots -> [1..MaxGen -> V]], NEW s \in Slots,
         NEW g \in 1..MaxGen, NEW v \in V
  PROVE  /\ [f EXCEPT ![s][g] = v] \in [Slots -> [1..MaxGen -> V]]
         /\ \A t \in Slots : \A h \in 1..MaxGen :
              [f EXCEPT ![s][g] = v][t][h] = IF t = s /\ h = g THEN v ELSE f[t][h]
OBVIOUS

LEMMA CopyFrameKeeps ==
  ASSUME FrameIInv, CopyFrame PROVE FrameIInv'
<1> USE DEF FrameIInv, CopyFrame, ring, window
<1>1. FrameTypeOK'
  BY PublishType DEF FrameTypeOK
<1>2. Allocated' /\ OnlyNextDrawn' /\ IntactUnlessLapped' /\ Rendering'
  BY DEF Allocated, OnlyNextDrawn, IntactUnlessLapped, Rendering
<1>3. Behind'
  BY PublishType DEF Behind, After
<1> QED
  BY <1>1, <1>2, <1>3

LEMMA LoseDrawableKeeps ==
  ASSUME FrameIInv, LoseDrawable PROVE FrameIInv'
<1> USE DEF FrameIInv, LoseDrawable, mailbox, window
<1>1. FrameTypeOK'
  BY DEF FrameTypeOK
<1>2. Allocated' /\ OnlyNextDrawn' /\ IntactUnlessLapped' /\ Rendering' /\ Behind'
  BY DEF Allocated, OnlyNextDrawn, IntactUnlessLapped, Rendering, Behind, After
<1> QED
  BY <1>1, <1>2

LEMMA NoZeroCopyKeeps ==
  ASSUME FrameIInv, NoZeroCopy PROVE FrameIInv'
<1> USE DEF FrameIInv, NoZeroCopy, window
<1>1. FrameTypeOK'
  BY PublishType DEF FrameTypeOK
<1>2. Allocated' /\ OnlyNextDrawn' /\ IntactUnlessLapped' /\ Rendering'
  BY DEF Allocated, OnlyNextDrawn, IntactUnlessLapped, Rendering
<1>3. Behind'
  BY PublishType DEF Behind, After
<1> QED
  BY <1>1, <1>2, <1>3

LEMMA BlitIntoSlotKeeps ==
  ASSUME FrameIInv, BlitIntoSlot PROVE FrameIInv'
<1> USE DEF FrameIInv, BlitIntoSlot, mailbox, window
<1>1. /\ zcNext \in Slots /\ gen[zcNext] \in 1..MaxGen /\ Garbage \in Garbage..MaxFrames
      /\ tex \in [Slots -> [1..MaxGen -> Garbage..MaxFrames]]
      /\ \A s \in Slots : 1..gen[s] \subseteq 1..MaxGen
  <2>1. gen[zcNext] >= 1
    BY RingFacts DEF Allocated
  <2> QED
    BY <2>1, RingFacts, RingType
<1>2. /\ tex' \in [Slots -> [1..MaxGen -> Garbage..MaxFrames]]
      /\ \A s \in Slots : \A g \in 1..MaxGen :
           tex'[s][g] = IF s = zcNext /\ g = gen[zcNext] THEN Garbage ELSE tex[s][g]
  BY <1>1, TexUpdate
<1>3. FrameTypeOK'
  BY <1>2 DEF FrameTypeOK
<1>4. Allocated'
  BY <1>1 DEF Allocated
<1>5. OnlyNextDrawn'
  BY <1>1, <1>2 DEF OnlyNextDrawn
<1>6. IntactUnlessLapped' /\ Rendering' /\ Behind'
  BY DEF IntactUnlessLapped, Rendering, Behind, After
<1> QED
  BY <1>3, <1>4, <1>5, <1>6

LEMMA OfferSlotKeeps ==
  ASSUME FrameIInv, OfferSlot PROVE FrameIInv'
<1> USE DEF FrameIInv, OfferSlot, window
<1> DEFINE o == [slot |-> zcNext, gen |-> gen[zcNext] + 1]
<1>0. /\ gen[zcNext] + 1 \in 1..MaxGen /\ zcNext \in Slots
      /\ gen \in [Slots -> 0..MaxGen] /\ fit \in [Slots -> BOOLEAN]
      /\ gen' = [gen EXCEPT ![zcNext] = gen[zcNext] + 1]
      /\ fit' = [fit EXCEPT ![zcNext] = TRUE]
  <2>1. gen[zcNext] < MaxGen /\ gen[zcNext] \in Nat
    BY RingFacts
  <2> QED
    BY <2>1, RingFacts, RingType
<1>1. /\ gen[zcNext] + 1 \in 1..MaxGen /\ zcNext \in Slots
      /\ gen \in [Slots -> 0..MaxGen] /\ o \in OfferSet
      /\ gen'[zcNext] = gen[zcNext] + 1
      /\ \A s \in Slots : gen'[s] >= gen[s] /\ (s # zcNext => gen'[s] = gen[s])
  <2>1. gen'[zcNext] = gen[zcNext] + 1 /\ \A s \in Slots : s # zcNext => gen'[s] = gen[s]
    BY <1>0
  <2>2. \A s \in Slots : gen[s] \in Nat
    BY <1>0, RingType
  <2> QED
    BY <1>0, <2>1, <2>2 DEF OfferSet
<1>2. /\ offers' = Append(offers, o) /\ offers \in Seq(OfferSet)
      /\ offers' \in Seq(OfferSet)
      /\ DOMAIN offers' = 1..Len(offers) + 1 /\ DOMAIN offers = 1..Len(offers)
      /\ \A i \in DOMAIN offers' : offers'[i] = IF i \in DOMAIN offers THEN offers[i] ELSE o
  <2>1. offers \in Seq(OfferSet) /\ offers' = Append(offers, o)
    BY <1>1 DEF FrameTypeOK, OfferSet
  <2> QED
    BY <2>1, <1>1
<1>3. FrameTypeOK'
  <2>0. gen[zcNext] + 1 \in 0..MaxGen
    BY <1>0, RingType
  <2>1. gen' \in [Slots -> 0..MaxGen] /\ fit' \in [Slots -> BOOLEAN]
    BY <1>0, <2>0
  <2>2. offers' \in Seq([slot : Slots, gen : 1..MaxGen])
    BY <1>2 DEF OfferSet
  <2> QED
    BY <2>1, <2>2 DEF FrameTypeOK
<1>4. Allocated'
  <2>1. \A i \in DOMAIN offers' : offers'[i].gen <= gen'[offers'[i].slot]
    <3> SUFFICES ASSUME NEW i \in DOMAIN offers'
                 PROVE  offers'[i].gen <= gen'[offers'[i].slot]
      OBVIOUS
    <3>1. CASE i \in DOMAIN offers
      <4>1. offers[i] \in OfferSet
        BY <3>1, <1>2
      <4>2. offers[i].slot \in Slots /\ offers[i].gen \in Nat
        BY <4>1 DEF OfferSet
      <4>3. offers[i].gen <= gen[offers[i].slot] /\ gen[offers[i].slot] \in Nat
            /\ gen'[offers[i].slot] \in Nat
        <5>1. offers[i].gen <= gen[offers[i].slot]
          BY <3>1 DEF Allocated
        <5>2. gen \in [Slots -> 0..MaxGen] /\ gen' \in [Slots -> 0..MaxGen]
          BY <1>3 DEF FrameTypeOK
        <5> QED
          BY <5>1, <5>2, <4>2, RingType
      <4> QED
        BY <4>2, <4>3, <3>1, <1>1, <1>2
    <3>2. CASE i \notin DOMAIN offers
      BY <3>2, <1>1, <1>2
    <3> QED
      BY <3>1, <3>2
  <2>2. \A s \in Slots : ext'[s] <= gen'[s]
    BY <1>1, <1>3 DEF Allocated, FrameTypeOK
  <2>3. \A s \in Slots : fit'[s] => gen'[s] >= 1
    BY <1>1, <1>3 DEF Allocated, FrameTypeOK
  <2> QED
    BY <2>1, <2>2, <2>3, <1>1 DEF Allocated
<1>5. OnlyNextDrawn'
  <2> SUFFICES ASSUME NEW s \in Slots, NEW g \in 1..gen'[s], tex[s][g] = Garbage
               PROVE  s = zcNext /\ g = gen'[s]
    BY DEF OnlyNextDrawn
  <2>1. ~ (g \in 1..gen[s])
    BY DEF OnlyNextDrawn
  <2> QED
    BY <2>1, <1>1, <1>3 DEF FrameTypeOK
<1>6. IntactUnlessLapped' /\ Rendering' /\ Behind'
  BY DEF IntactUnlessLapped, Rendering, Behind, After
<1> QED
  BY <1>3, <1>4, <1>5, <1>6

LEMMA FrameReadyKeeps ==
  ASSUME FrameIInv, FrameReady PROVE FrameIInv'
<1> USE DEF FrameIInv, FrameReady, FrameReadyThen, window
<1>1. /\ zcNext \in Slots /\ zcNext' \in Slots /\ After(zcNext, 1, zcNext')
      /\ gen[zcNext] \in 1..MaxGen
  BY NextSlot, RingType DEF FrameTypeOK, Allocated
<1>2. /\ frames' \in 1..MaxFrames /\ frames' # Garbage /\ front'.slot = zcNext
      /\ front' \in [pic : 1..MaxFrames, slot : Slots \cup {NoSlot}] /\ fresh' \in BOOLEAN
  BY <1>1, PublishType
<1>3. lapped \in 0..ZC_SLOTS /\ lapped' \in 0..ZC_SLOTS /\ lapped' >= lapped
      /\ (lapped' < ZC_SLOTS - 1 => lapped' = lapped + 1)
  BY RingType DEF FrameTypeOK
<1>10. /\ tex' \in [Slots -> [1..MaxGen -> Garbage..MaxFrames]]
       /\ \A s \in Slots : \A g \in 1..MaxGen :
            tex'[s][g] = IF s = zcNext /\ g = gen[zcNext] THEN frames' ELSE tex[s][g]
  <2>1. tex \in [Slots -> [1..MaxGen -> Garbage..MaxFrames]] /\ frames' \in Garbage..MaxFrames
    BY <1>2, RingFacts
  <2> QED
    BY <2>1, <1>1, TexUpdate
<1>11. \A s \in Slots : 1..gen[s] \subseteq 1..MaxGen
  BY RingType DEF FrameTypeOK
<1>4. FrameTypeOK'
  BY <1>1, <1>2, <1>3, <1>10 DEF FrameTypeOK
<1>5. Allocated'
  BY DEF Allocated
<1>6. OnlyNextDrawn'
  BY <1>1, <1>2, <1>10, <1>11 DEF OnlyNextDrawn
<1>7. Behind'
  <2>1. ASSUME extCurrent # NoSlot, lapped' < ZC_SLOTS - 1
        PROVE  After(extCurrent, lapped' + 1, zcNext')
    <3>1. lapped' = lapped + 1 /\ lapped < ZC_SLOTS - 1
      BY <2>1, <1>3, RingType
    <3>2. extCurrent \in 0..ZC_SLOTS - 1 /\ zcNext \in 0..ZC_SLOTS - 1
          /\ zcNext' \in 0..ZC_SLOTS - 1
      BY <2>1, <1>1 DEF FrameTypeOK, Slots
    <3>3. After(extCurrent, lapped + 1, zcNext)
      BY <2>1, <3>1 DEF Behind
    <3> QED
      BY <3>1, <3>2, <3>3, <1>1, <1>3, RingType DEF After
  <2> QED
    BY <2>1, <1>1, <1>2 DEF Behind, After
<1>8. IntactUnlessLapped' /\ Rendering'
  BY <1>3, RingType DEF IntactUnlessLapped, Rendering
<1> QED
  BY <1>4, <1>5, <1>6, <1>7, <1>8

(* A step that takes the offers. *)
LEMMA TakeOffersKeeps ==
  ASSUME FrameIInv, TakeOffers(offers), ui = "idle",
         UNCHANGED <<frames, blit, ring, front, fresh, extCurrent, fb, shown, taken,
                     missed, lapped>>,
         ui' \in {"idle", "frame"}
  PROVE  FrameIInv'
<1> USE DEF FrameIInv, ring
<1>1. PICK failing : Imports(offers, failing) /\ offers' = <<>>
  BY DEF TakeOffers
<1>2. ext' \in [Slots -> 0..MaxGen] /\ refused' \in SUBSET Slots
  BY <1>1, ImportsEffect
<1>3. \A s \in Slots : ext'[s] <= gen[s]
  BY <1>1, ImportsAllocated
<1>4. FrameTypeOK'
  <2>1. offers' \in Seq([slot : Slots, gen : 1..MaxGen])
    BY <1>1
  <2> QED
    BY <2>1, <1>2 DEF FrameTypeOK
<1>5. Allocated'
  BY <1>1, <1>3 DEF Allocated
<1>6. OnlyNextDrawn' /\ Behind' /\ IntactUnlessLapped' /\ Rendering'
  BY DEF OnlyNextDrawn, Behind, IntactUnlessLapped, Rendering, After
<1> QED
  BY <1>4, <1>5, <1>6

LEMMA TakeFrameKeeps ==
  ASSUME FrameIInv, TakeFrame PROVE FrameIInv'
<1> USE DEF FrameIInv, TakeFrame, TakeFrameWith, ring
<1>1. CASE ~fresh
  <2>1. UNCHANGED <<fresh, lapped, taken, missed, extCurrent, fb>>
    BY <1>1
  <2>2. FrameTypeOK'
    BY <2>1 DEF FrameTypeOK
  <2>3. Allocated' /\ OnlyNextDrawn' /\ Behind'
    BY <2>1 DEF Allocated, OnlyNextDrawn, Behind, After
  <2>4. IntactUnlessLapped' /\ Rendering'
    BY <2>1 DEF IntactUnlessLapped, Rendering
  <2> QED
    BY <2>2, <2>3, <2>4
<1>2. CASE fresh
  <2>1. /\ lapped' = 0 /\ fresh' = FALSE /\ taken' = front.pic
        /\ front.slot \in Slots \cup {NoSlot} /\ front.pic \in 1..MaxFrames
        /\ fb' \in {fb, front.pic} /\ missed' \in BOOLEAN
        /\ extCurrent' \in {NoSlot, front.slot}
    BY <1>2 DEF FrameTypeOK
  <2>2. extCurrent' # NoSlot => ext[extCurrent'] # NoGen
    BY <1>2
  <2>3. FrameTypeOK'
    <3>1. /\ lapped' \in 0..ZC_SLOTS /\ taken' \in 0..MaxFrames
          /\ extCurrent' \in Slots \cup {NoSlot}
      BY <2>1, RingType DEF FrameTypeOK
    <3>2. fb' \in 0..MaxFrames
      BY <2>1, RingType DEF FrameTypeOK
    <3> QED
      BY <2>1, <3>1, <3>2 DEF FrameTypeOK
  <2>4. Allocated' /\ OnlyNextDrawn'
    BY DEF Allocated, OnlyNextDrawn
  <2>5. Behind'
    BY <2>1 DEF Behind, After
  <2>6. IntactUnlessLapped' /\ Rendering'
    BY <2>2 DEF IntactUnlessLapped, Rendering
  <2> QED
    BY <2>3, <2>4, <2>5, <2>6
<1> QED
  BY <1>1, <1>2 DEF FrameTypeOK

LEMMA RenderKeeps ==
  ASSUME FrameIInv, Render PROVE FrameIInv'
<1> USE DEF FrameIInv, Render, ring, mailbox
<1>1. shown' = Garbage => lapped >= ZC_SLOTS - 1
  <2> SUFFICES ASSUME shown' = Garbage, lapped < ZC_SLOTS - 1 PROVE FALSE
    BY RingType DEF FrameTypeOK
  <2>1. CASE extCurrent = NoSlot
    BY <2>1 DEF FrameTypeOK, Garbage
  <2>2. CASE extCurrent # NoSlot /\ ext[extCurrent] = NoGen
    BY <2>2, RingType DEF Rendering, FrameTypeOK
  <2>3. CASE extCurrent # NoSlot /\ ext[extCurrent] # NoGen
    <3>1. extCurrent \in Slots /\ ext[extCurrent] \in 1..gen[extCurrent]
      BY <2>3 DEF FrameTypeOK, Allocated, NoGen
    <3>2. tex[extCurrent][ext[extCurrent]] = Garbage
      BY <2>3
    <3>3. extCurrent = zcNext
      BY <3>1, <3>2 DEF OnlyNextDrawn
    <3>4. After(extCurrent, lapped + 1, extCurrent)
      BY <3>3, <2>3 DEF Behind
    <3> QED
      BY <3>1, <3>4, RingType DEF After, FrameTypeOK, Slots
  <2> QED
    BY <2>1, <2>2, <2>3
<1>2. FrameTypeOK'
  <2>1. shown' \in Garbage..MaxFrames
    <3>1. CASE extCurrent = NoSlot
      BY <3>1, RingType DEF FrameTypeOK, Garbage
    <3>2. CASE extCurrent # NoSlot /\ ext[extCurrent] = NoGen
      BY <3>2 DEF FrameTypeOK
    <3>3. CASE extCurrent # NoSlot /\ ext[extCurrent] # NoGen
      <4>1. extCurrent \in Slots /\ ext[extCurrent] \in 1..MaxGen
        BY <3>3 DEF FrameTypeOK, NoGen
      <4>2. tex \in [Slots -> [1..MaxGen -> Garbage..MaxFrames]]
        BY DEF FrameTypeOK
      <4>3. shown' = tex[extCurrent][ext[extCurrent]]
        BY <3>3
      <4> QED
        BY <4>1, <4>2, <4>3
    <3> QED
      BY <3>1, <3>2, <3>3
  <2> QED
    BY <2>1 DEF FrameTypeOK
<1>3. Allocated' /\ OnlyNextDrawn' /\ Behind'
  BY DEF Allocated, OnlyNextDrawn, Behind, After
<1>4. IntactUnlessLapped' /\ Rendering'
  BY <1>1 DEF IntactUnlessLapped, Rendering
<1> QED
  BY <1>2, <1>3, <1>4

THEOREM NextInvariant == FrameIInv /\ [FrameNext]_frameVars => FrameIInv'
<1> SUFFICES ASSUME FrameIInv, [FrameNext]_frameVars PROVE FrameIInv'
  OBVIOUS
<1>1. CASE Qemu
  BY <1>1, CopyFrameKeeps, LoseDrawableKeeps, BlitIntoSlotKeeps, OfferSlotKeeps,
     NoZeroCopyKeeps, FrameReadyKeeps DEF Qemu
<1>2. CASE ImportOffers
  BY <1>2, TakeOffersKeeps DEF ImportOffers, ImportOffersOf
<1>3. CASE RedrawImports
  BY <1>3, TakeOffersKeeps DEF RedrawImports
<1>4. CASE TakeFrame \/ Render
  BY <1>4, TakeFrameKeeps, RenderKeeps
<1>5. CASE UNCHANGED frameVars
  <2> USE <1>5 DEF frameVars, ring, mailbox, window, FrameIInv
  <2>1. FrameTypeOK'
    BY DEF FrameTypeOK
  <2>2. Allocated' /\ OnlyNextDrawn'
    BY DEF Allocated, OnlyNextDrawn
  <2>3. Behind' /\ IntactUnlessLapped' /\ Rendering'
    BY DEF Behind, IntactUnlessLapped, Rendering, After
  <2> QED
    BY <2>1, <2>2, <2>3
<1> QED
  BY <1>1, <1>2, <1>3, <1>4, <1>5 DEF FrameNext, FrameUi

THEOREM FrameInvariance == FrameSpec => []FrameIInv
BY InitInvariant, NextInvariant, PTL DEF FrameSpec

(* Every variable keeps its type. *)
THEOREM FrameTypeCorrect == FrameSpec => []FrameTypeOK
<1>1. FrameIInv => FrameTypeOK
  BY DEF FrameIInv
<1> QED
  BY <1>1, FrameInvariance, PTL

(* mglcntx_embed.c 992-1020, whatever ZC_SLOTS is: a frame on screen is    *)
(* intact until ZC_SLOTS - 1 more frames were put into the ring.           *)
THEOREM SlotsStayIntact == FrameSpec => []IntactUnlessLapped
<1>1. FrameIInv => IntactUnlessLapped
  BY DEF FrameIInv
<1> QED
  BY <1>1, FrameInvariance, PTL
(***************************************************************************)
(* The window never goes back.  A picture that is not being drawn is at    *)
(* least as new as the frame it is shown for: of a slot the UI can get to  *)
(* no allocation but the imported one and those still on offer, which are  *)
(* newer, and what is drawn into them is newer than every frame taken.     *)
(***************************************************************************)
NotOlder(picture, frame) == picture = Garbage \/ picture >= frame

(* The allocations of a slot that the UI has, or is going to have. *)
Known(s, g) ==
  g = ext[s] \/ \E i \in DOMAIN offers : offers[i].slot = s /\ offers[i].gen = g

Dated ==
  /\ taken <= frames /\ front.pic <= frames
  /\ \A s \in Slots : \A g \in 1..MaxGen : g > gen[s] => tex[s][g] = Garbage
  /\ \A i \in DOMAIN offers : offers[i].gen > ext[offers[i].slot]
  /\ front.slot # NoSlot =>
       gen[front.slot] >= 1 /\ NotOlder(tex[front.slot][gen[front.slot]], front.pic)

(* What the UI is going to render. *)
Selected ==
  ~missed => IF extCurrent = NoSlot THEN fb >= taken
             ELSE \A g \in 1..MaxGen :
                    Known(extCurrent, g) => NotOlder(tex[extCurrent][g], taken)

(* What is on screen, unless something else is about to be. *)
OnScreen ==
  ui # "render" \/ (extCurrent # NoSlot /\ ext[extCurrent] = NoGen) =>
    shown >= taken \/ missed \/ shown = Garbage

DInv == Dated /\ Selected /\ OnScreen

LEMMA DatedInit == FrameInit => DInv
BY RingType DEF FrameInit, DInv, Dated, Selected, OnScreen, NoSlot, NoPicture, NoGen

LEMMA PublishDates ==
  ASSUME FrameTypeOK, NEW slot, Publish(slot)
  PROVE  frames' = frames + 1 /\ front'.pic = frames' /\ front'.slot = slot
BY DEF Publish

(* A frame without a slot. *)
LEMMA CopyDated ==
  ASSUME FrameIInv, DInv, Publish(NoSlot), UNCHANGED <<gen, tex, offers, window>>
  PROVE  DInv'
<1>1. frames' = frames + 1 /\ front'.pic = frames' /\ front'.slot = NoSlot
  BY PublishDates DEF FrameIInv
<1>2. frames \in Nat /\ taken \in Nat
  BY RingType DEF FrameIInv, FrameTypeOK
<1>3. Dated'
  BY <1>1, <1>2 DEF DInv, Dated, window
<1>4. Selected' /\ OnScreen'
  BY DEF DInv, Selected, OnScreen, Known, window
<1> QED
  BY <1>3, <1>4 DEF DInv

(* Nothing but the sizes changes, or nothing at all. *)
LEMMA DatedStutter ==
  ASSUME DInv, UNCHANGED <<frames, gen, tex, front, offers, window>>
  PROVE  DInv'
BY DEF DInv, Dated, Selected, OnScreen, Known, NotOlder, window

(* One allocation gets a picture that is not older than any. *)
LEMMA DrawnDated ==
  ASSUME FrameIInv, DInv, NEW v \in Garbage..MaxFrames, v = Garbage \/ v > frames,
         gen[zcNext] \in 1..MaxGen,
         tex' = [tex EXCEPT ![zcNext][gen[zcNext]] = v],
         UNCHANGED <<gen, offers, window>>
  PROVE  /\ \A s \in Slots : \A g \in 1..MaxGen : g > gen[s] => tex'[s][g] = Garbage
         /\ \A s \in Slots : \A g \in 1..MaxGen : \A p \in 0..frames :
              NotOlder(tex[s][g], p) => NotOlder(tex'[s][g], p)
         /\ Selected'
<1>1. zcNext \in Slots /\ tex \in [Slots -> [1..MaxGen -> Garbage..MaxFrames]]
      /\ frames \in Nat /\ v \in Int /\ taken \in 0..frames
      /\ gen \in [Slots -> 0..MaxGen]
  <2>1. zcNext \in Slots /\ tex \in [Slots -> [1..MaxGen -> Garbage..MaxFrames]]
        /\ gen \in [Slots -> 0..MaxGen]
    BY DEF FrameIInv, FrameTypeOK
  <2>2. frames \in 1..MaxFrames /\ taken \in 0..MaxFrames /\ taken <= frames
    BY DEF FrameIInv, FrameTypeOK, DInv, Dated
  <2>3. v \in Int
    BY RingType DEF Garbage
  <2> QED
    BY <2>1, <2>2, <2>3, RingType
<1>2. \A s \in Slots : \A g \in 1..MaxGen :
        tex'[s][g] = IF s = zcNext /\ g = gen[zcNext] THEN v ELSE tex[s][g]
  <2> DEFINE V == Garbage..MaxFrames
             g == gen[zcNext]
  <2>1. tex \in [Slots -> [1..MaxGen -> V]] /\ zcNext \in Slots /\ g \in 1..MaxGen /\ v \in V
    BY <1>1
  <2>2. tex' = [tex EXCEPT ![zcNext][g] = v]
    OBVIOUS
  <2> HIDE DEF V, g
  <2>3. \A s \in Slots : \A h \in 1..MaxGen :
          [tex EXCEPT ![zcNext][g] = v][s][h] = IF s = zcNext /\ h = g THEN v ELSE tex[s][h]
    BY <2>1, TexUpdate
  <2> QED
    BY <2>2, <2>3 DEF g
<1>3. \A s \in Slots : \A g \in 1..MaxGen : g > gen[s] => tex'[s][g] = Garbage
  <2>1. \A s \in Slots : gen[s] \in Int
    BY <1>1, RingType
  <2> QED
    BY <1>2, <2>1 DEF DInv, Dated
<1>4. \A s \in Slots : \A g \in 1..MaxGen : \A p \in 0..frames :
        NotOlder(tex[s][g], p) => NotOlder(tex'[s][g], p)
  BY <1>1, <1>2 DEF NotOlder
<1>5. extCurrent = NoSlot \/ extCurrent \in Slots
  BY DEF FrameIInv, FrameTypeOK
<1>6. Selected'
  BY <1>1, <1>4, <1>5 DEF DInv, Selected, Known, window
<1> QED
  BY <1>3, <1>4, <1>6

LEMMA NextAllocated ==
  ASSUME FrameIInv, blit \/ fit[zcNext]
  PROVE  zcNext \in Slots /\ gen[zcNext] \in 1..MaxGen
BY RingType DEF FrameIInv, FrameTypeOK, Allocated

LEMMA BlitIntoSlotDated ==
  ASSUME FrameIInv, DInv, BlitIntoSlot PROVE DInv'
<1> USE DEF BlitIntoSlot, mailbox, window
<1>1. gen[zcNext] \in 1..MaxGen /\ Garbage \in Garbage..MaxFrames
  BY NextAllocated, RingFacts DEF FrameIInv
<1>2. /\ \A s \in Slots : \A g \in 1..MaxGen : g > gen[s] => tex'[s][g] = Garbage
      /\ \A s \in Slots : \A g \in 1..MaxGen : \A p \in 0..frames :
           NotOlder(tex[s][g], p) => NotOlder(tex'[s][g], p)
      /\ Selected'
  BY <1>1, DrawnDated
<1>3. front.slot \in Slots \cup {NoSlot} /\ front.pic \in 0..frames /\ frames \in Nat
      /\ gen \in [Slots -> 0..MaxGen]
  BY RingType DEF FrameIInv, FrameTypeOK, DInv, Dated
<1>4. front.slot # NoSlot => gen[front.slot] \in 1..MaxGen
  BY <1>3, RingType DEF DInv, Dated
<1>5. Dated'
  BY <1>2, <1>3, <1>4 DEF DInv, Dated
<1>6. OnScreen'
  BY DEF DInv, OnScreen
<1> QED
  BY <1>2, <1>5, <1>6 DEF DInv

LEMMA FrameReadyDated ==
  ASSUME FrameIInv, DInv, FrameReady PROVE DInv'
<1> USE DEF FrameReady, FrameReadyThen, window
<1>1. zcNext \in Slots /\ gen[zcNext] \in 1..MaxGen
  BY NextAllocated
<1>2. /\ frames' = frames + 1 /\ front'.pic = frames' /\ front'.slot = zcNext
      /\ frames \in Nat /\ frames' \in Garbage..MaxFrames /\ taken <= frames
      /\ taken \in Nat
  <2>1. frames' = frames + 1 /\ front'.pic = frames' /\ front'.slot = zcNext
    BY PublishDates DEF FrameIInv
  <2>2. frames' \in 1..MaxFrames
    BY <1>1, PublishType DEF FrameIInv
  <2>3. frames \in Nat /\ taken \in Nat /\ taken <= frames
    BY RingType DEF FrameIInv, FrameTypeOK, DInv, Dated
  <2> QED
    BY <2>1, <2>2, <2>3, RingType DEF Garbage
<1>3. /\ \A s \in Slots : \A g \in 1..MaxGen : g > gen[s] => tex'[s][g] = Garbage
      /\ Selected'
  <2>1. tex' = [tex EXCEPT ![zcNext][gen[zcNext]] = frames']
    OBVIOUS
  <2>2. frames' \in Garbage..MaxFrames /\ (frames' = Garbage \/ frames' > frames)
    BY <1>2
  <2>3. UNCHANGED <<gen, offers, window>>
    OBVIOUS
  <2> QED
    BY <1>1, <2>1, <2>2, <2>3, DrawnDated
<1>4. tex'[zcNext][gen[zcNext]] = frames'
  BY <1>1, <1>2, TexUpdate, RingFacts DEF FrameIInv
<1>5. Dated'
  BY <1>1, <1>2, <1>3, <1>4 DEF DInv, Dated, NotOlder
<1>6. OnScreen'
  BY DEF DInv, OnScreen
<1> QED
  BY <1>3, <1>5, <1>6 DEF DInv

(* A new allocation was never drawn, and is newer than what is imported.   *)
LEMMA OfferSlotDated ==
  ASSUME FrameIInv, FrameIInv', DInv, OfferSlot PROVE DInv'
<1> USE DEF OfferSlot, window
<1> DEFINE o == [slot |-> zcNext, gen |-> gen[zcNext] + 1]
<1>1. /\ zcNext \in Slots /\ gen \in [Slots -> 0..MaxGen] /\ gen' \in [Slots -> 0..MaxGen]
      /\ gen[zcNext] \in Nat /\ gen[zcNext] < MaxGen
      /\ ext \in [Slots -> 0..MaxGen]
  <2>1. /\ zcNext \in Slots /\ gen \in [Slots -> 0..MaxGen] /\ ext \in [Slots -> 0..MaxGen]
        /\ gen' \in [Slots -> 0..MaxGen]
    BY DEF FrameIInv, FrameTypeOK
  <2> QED
    BY <2>1, RingType
<1>2. gen'[zcNext] = gen[zcNext] + 1 /\ \A s \in Slots : s # zcNext => gen'[s] = gen[s]
  BY <1>1
<1>3. \A s \in Slots : gen[s] \in Nat /\ gen'[s] \in Nat /\ gen'[s] >= gen[s]
  BY <1>1, <1>2, RingType
<1>4. /\ offers' = Append(offers, o) /\ offers \in Seq(OfferSet) /\ o \in OfferSet
      /\ DOMAIN offers' = 1..Len(offers) + 1 /\ DOMAIN offers = 1..Len(offers)
      /\ \A i \in DOMAIN offers' : offers'[i] = IF i \in DOMAIN offers THEN offers[i] ELSE o
  <2>1. offers \in Seq(OfferSet) /\ offers' = Append(offers, o)
    BY <1>2 DEF FrameIInv, FrameTypeOK, OfferSet
  <2>2. o \in OfferSet
    BY <1>1, RingType DEF OfferSet
  <2> QED
    BY <2>1, <2>2
<1>5. tex[zcNext][gen[zcNext] + 1] = Garbage
  BY <1>1, RingType DEF DInv, Dated
<1>6. \A s \in Slots : \A g \in 1..MaxGen : g > gen'[s] => tex[s][g] = Garbage
  BY <1>3 DEF DInv, Dated
<1>7. \A i \in DOMAIN offers' : offers'[i].gen > ext[offers'[i].slot]
  <2>1. ext[zcNext] <= gen[zcNext] /\ ext[zcNext] \in Nat
    BY <1>1, RingType DEF FrameIInv, Allocated
  <2>2. o.gen > ext[o.slot]
    BY <1>1, <2>1
  <2> HIDE DEF o
  <2> QED
    BY <1>4, <2>2 DEF DInv, Dated
<1>8. front'.slot # NoSlot =>
        gen'[front.slot] >= 1 /\ NotOlder(tex[front.slot][gen'[front.slot]], front.pic)
  <2>1. front.slot \in Slots \cup {NoSlot}
    BY DEF FrameIInv, FrameTypeOK
  <2> QED
    BY <1>1, <1>2, <1>3, <1>5, <2>1 DEF DInv, Dated, NotOlder
<1>9. Dated'
  BY <1>6, <1>7, <1>8 DEF DInv, Dated
<1>10. \A s \in Slots : \A g \in 1..MaxGen : Known(s, g)' => Known(s, g) \/ tex[s][g] = Garbage
  <2> SUFFICES ASSUME NEW s \in Slots, NEW g \in 1..MaxGen, Known(s, g)', ~Known(s, g)
               PROVE  tex[s][g] = Garbage
    OBVIOUS
  <2>1. PICK i \in DOMAIN offers' : offers'[i].slot = s /\ offers'[i].gen = g
    BY DEF Known
  <2>2. i \notin DOMAIN offers
    BY <1>4, <2>1 DEF Known
  <2>3. s = zcNext /\ g = gen[zcNext] + 1
    BY <1>4, <2>1, <2>2
  <2> QED
    BY <1>5, <2>3
<1>11. Selected'
  <2>1. extCurrent = NoSlot \/ extCurrent \in Slots
    BY DEF FrameIInv, FrameTypeOK
  <2> QED
    BY <1>10, <2>1 DEF DInv, Selected, NotOlder
<1>12. OnScreen'
  BY DEF DInv, OnScreen
<1> QED
  BY <1>9, <1>11, <1>12 DEF DInv

(* What is imported was known. *)
LEMMA TakeOffersDated ==
  ASSUME FrameIInv, DInv, TakeOffers(offers), ui = "idle",
         UNCHANGED <<frames, gen, tex, front, extCurrent, fb, shown, taken, missed>>
  PROVE  DInv'
<1>1. PICK failing : Imports(offers, failing) /\ offers' = <<>>
  BY DEF TakeOffers
<1>2. \A s \in Slots : \/ ext'[s] = ext[s]
                       \/ ext'[s] = NoGen
                       \/ \E i \in DOMAIN offers : /\ offers[i].slot = s
                                                   /\ ext'[s] = offers[i].gen
  BY <1>1, ImportsEffect DEF FrameIInv
<1>3. \A s \in Slots : \A g \in 1..MaxGen : Known(s, g)' => Known(s, g)
  BY <1>1, <1>2, RingType DEF Known, NoGen
<1>4. Dated'
  BY <1>1 DEF DInv, Dated
<1>5. extCurrent = NoSlot \/ extCurrent \in Slots
  BY DEF FrameIInv, FrameTypeOK
<1>6. Selected'
  BY <1>3, <1>5 DEF DInv, Selected
<1>7. OnScreen'
  BY DEF DInv, OnScreen
<1> QED
  BY <1>4, <1>6, <1>7 DEF DInv

(* The frame's slot, if it is imported as it is, has no newer offer. *)
LEMMA TakeFrameDated ==
  ASSUME FrameIInv, DInv, TakeFrame PROVE DInv'
<1> USE DEF TakeFrame, TakeFrameWith
<1>1. UNCHANGED <<frames, gen, tex, front, offers, ext, shown>>
  BY DEF ring
<1>2. CASE ~fresh
  <2>1. UNCHANGED <<taken, missed, extCurrent, fb>>
    BY <1>2
  <2>2. Dated' /\ Selected'
    BY <1>1, <2>1 DEF DInv, Dated, Selected, Known
  <2>3. OnScreen'
    BY <1>1, <2>1 DEF DInv, OnScreen
  <2> QED
    BY <2>2, <2>3 DEF DInv
<1>3. CASE fresh
  <2> DEFINE s == front.slot
  <2>1. /\ s \in Slots \cup {NoSlot} /\ front.pic \in 1..MaxFrames /\ NoSlot \notin Slots
        /\ ext \in [Slots -> 0..MaxGen] /\ gen \in [Slots -> 0..MaxGen]
    <3>1. /\ front \in [pic : 1..MaxFrames, slot : Slots \cup {NoSlot}]
          /\ ext \in [Slots -> 0..MaxGen] /\ gen \in [Slots -> 0..MaxGen]
      BY DEF FrameIInv, FrameTypeOK
    <3>2. NoSlot \notin Slots
      BY RingType DEF Slots, NoSlot
    <3> QED
      BY <3>1, <3>2
  <2>2. /\ taken' = front.pic /\ missed' = (s # NoSlot /\ ext[s] # gen[s])
        /\ fb' = IF s = NoSlot THEN front.pic ELSE fb
        /\ extCurrent' = IF s = NoSlot THEN NoSlot
                         ELSE IF ext[s] = NoGen THEN NoSlot ELSE s
        /\ ui' = "render"
    BY <1>3
  <2>3. Dated'
    BY <1>1, <2>2 DEF DInv, Dated
  <2>4. CASE s = NoSlot
    BY <1>1, <2>1, <2>2, <2>4 DEF DInv, Dated, Selected, OnScreen
  <2>5. CASE s # NoSlot
    <3>1. gen[s] >= 1 /\ NotOlder(tex[s][gen[s]], front.pic) /\ gen[s] \in Nat
      BY <2>1, <2>5, RingType DEF DInv, Dated
    <3>2. ASSUME ~missed' PROVE ext[s] = gen[s] /\ extCurrent' = s
      <4>1. ext[s] = gen[s]
        BY <2>2, <2>5, <3>2
      <4>2. ext[s] # NoGen
        BY <3>1, <4>1 DEF NoGen
      <4> QED
        BY <2>2, <2>5, <4>1, <4>2
    <3>3. ASSUME ext[s] = gen[s], NEW g \in 1..MaxGen, Known(s, g) PROVE g = gen[s]
      <4>1. ASSUME NEW i \in DOMAIN offers, offers[i].slot = s PROVE FALSE
        <5>1. offers[i].gen > ext[s] /\ offers[i].gen <= gen[s]
          BY <4>1 DEF DInv, Dated, FrameIInv, Allocated
        <5>2. offers[i].gen \in Nat
          <6>1. offers \in Seq(OfferSet)
            BY DEF FrameIInv, FrameTypeOK, OfferSet
          <6>2. offers[i] \in OfferSet
            BY <6>1
          <6> QED
            BY <6>2 DEF OfferSet
        <5> QED
          BY <3>1, <3>3, <5>1, <5>2
      <4> QED
        BY <3>3, <4>1 DEF Known
    <3>4. Selected'
      BY <1>1, <2>2, <2>5, <3>1, <3>2, <3>3 DEF Selected, Known
    <3>5. OnScreen'
      BY <1>1, <2>2, <2>5, <3>1 DEF OnScreen, NoGen
    <3> QED
      BY <2>3, <3>4, <3>5 DEF DInv
  <2> QED
    BY <2>4, <2>5, <2>3 DEF DInv
<1> QED
  BY <1>2, <1>3 DEF FrameIInv, FrameTypeOK

LEMMA RenderDated ==
  ASSUME FrameIInv, DInv, Render PROVE DInv'
<1> USE DEF Render, ring, mailbox
<1>1. UNCHANGED <<frames, gen, tex, front, offers, ext, extCurrent, fb, taken, missed>>
  OBVIOUS
<1>2. Dated' /\ Selected'
  BY <1>1 DEF DInv, Dated, Selected, Known
<1>3. shown' >= taken \/ missed \/ shown' = Garbage
  <2>1. CASE extCurrent = NoSlot
    BY <2>1 DEF DInv, Selected, FrameIInv, FrameTypeOK
  <2>2. CASE extCurrent # NoSlot /\ ext[extCurrent] = NoGen
    BY <2>2 DEF DInv, OnScreen
  <2>3. CASE extCurrent # NoSlot /\ ext[extCurrent] # NoGen
    <3>1. extCurrent \in Slots /\ ext[extCurrent] \in 1..MaxGen
      BY <2>3, RingType DEF FrameIInv, FrameTypeOK, NoGen
    <3>2. missed \/ NotOlder(tex[extCurrent][ext[extCurrent]], taken)
      BY <2>3, <3>1 DEF DInv, Selected, Known, FrameIInv, FrameTypeOK
    <3> QED
      BY <2>3, <3>2 DEF NotOlder
  <2> QED
    BY <2>1, <2>2, <2>3
<1>4. OnScreen'
  BY <1>1, <1>3 DEF OnScreen
<1> QED
  BY <1>2, <1>4 DEF DInv

LEMMA DatedNext == FrameIInv /\ FrameIInv' /\ DInv /\ [FrameNext]_frameVars => DInv'
<1> SUFFICES ASSUME FrameIInv, FrameIInv', DInv, [FrameNext]_frameVars PROVE DInv'
  OBVIOUS
<1>1. CASE CopyFrame
  BY <1>1, CopyDated DEF CopyFrame, ring
<1>2. CASE NoZeroCopy
  BY <1>2, CopyDated DEF NoZeroCopy
<1>3. CASE LoseDrawable
  BY <1>3, DatedStutter DEF LoseDrawable, mailbox
<1>4. CASE BlitIntoSlot \/ OfferSlot \/ FrameReady
  BY <1>4, BlitIntoSlotDated, OfferSlotDated, FrameReadyDated
<1>5. CASE ImportOffers
  BY <1>5, TakeOffersDated DEF ImportOffers, ImportOffersOf, ring
<1>6. CASE RedrawImports
  BY <1>6, TakeOffersDated DEF RedrawImports, ring
<1>7. CASE TakeFrame \/ Render
  BY <1>7, TakeFrameDated, RenderDated
<1>8. CASE UNCHANGED frameVars
  BY <1>8, DatedStutter DEF frameVars, ring, mailbox
<1> QED
  BY <1>1, <1>2, <1>3, <1>4, <1>5, <1>6, <1>7, <1>8 DEF FrameNext, Qemu, FrameUi

(* main.rs 854-880: between redraws the window shows the frame taken last  *)
(* or a later picture, however buffers are offered, imported, refused and  *)
(* replaced in between.                                                    *)
THEOREM WindowNeverGoesBack == FrameSpec => []NeverOlder
<1>1. DInv => NeverOlder
  BY DEF DInv, OnScreen, NeverOlder
<1>2. FrameSpec => [](FrameIInv /\ DInv)
  <2>1. FrameInit => FrameIInv /\ DInv
    BY InitInvariant, DatedInit
  <2>2. FrameIInv /\ DInv /\ [FrameNext]_frameVars => (FrameIInv /\ DInv)'
    BY NextInvariant, DatedNext
  <2> QED
    BY <2>1, <2>2, PTL DEF FrameSpec
<1> QED
  BY <1>1, <1>2, PTL
=============================================================================
