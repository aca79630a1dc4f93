---------------------------- MODULE InputQueue ----------------------------
(***************************************************************************)
(* The path of a key press or a pointer event from the player's window to  *)
(* the guest:                                                              *)
(*                                                                         *)
(*   player/src/main.rs        window_event, device_event (UI thread)      *)
(*   player/src/qemu_vm.rs     the key script (QEMU thread)                *)
(*   embed/libqemu_embed.c     enqueue / input_flush / bh_input_drain      *)
(*   QEMU's input layer        external: hands an event to the guest's     *)
(*                             keyboard or pointer, or ignores it while    *)
(*                             the VM is paused                            *)
(*                                                                         *)
(* Two threads produce events and one of them, the QEMU main loop, also    *)
(* consumes them in a bottom half (BH).  Every critical section of in_lock *)
(* is one action, so the model interleaves the two threads exactly where   *)
(* the lock lets them.                                                     *)
(***************************************************************************)
EXTENDS Integers, Sequences, FiniteSets

CONSTANTS
  UserKeys,     \* qcodes the keyboard of the host can produce
  ScriptKeys,   \* qcodes the key script presses
  Chords,       \* the chords of the key script: sequences of ScriptKeys
  Buttons,      \* pointer buttons that button_map knows
  Wheel,        \* a wheel direction, a button too
  Nothing,      \* the code of an event that has none (motion)
  QueueLen,     \* IN_QUEUE_LEN
  MaxEvents     \* bound of the model: how many events are ever produced

Keys    == UserKeys \cup ScriptKeys
Codes   == Keys \cup Buttons \cup {Wheel, Nothing}
Kinds   == {"key", "rel", "abs", "btn"}
Event   == [kind : Kinds, code : Codes, down : BOOLEAN]
Threads == {"ui", "qemu"}

ASSUME QueueLenAssumption == QueueLen \in Nat \ {0}
ASSUME MaxEventsAssumption == MaxEvents \in Nat
ASSUME ChordsAssumption == Chords \subseteq Seq(ScriptKeys)
ASSUME UserKeysFinite == IsFiniteSet(UserKeys)
ASSUME CodesApart == Keys \cap (Buttons \cup {Wheel, Nothing}) = {}

VARIABLES
  \* the UI thread (struct App) and what the desktop tells it
  keysDown,     \* keys_down: keys the player believes the guest sees held
  grabbed,      \* grabbed: the pointer is locked to the window
  focused,      \* the window has the keyboard focus (external)
  \* one event handler of each thread, running
  pc,           \* "idle", "enqueue", "flush" or "schedule"
  todo,         \* the events the handler has not enqueued yet
  \* qemu_embed
  inQ,          \* in_q[0 .. in_n)
  bhPending,    \* in_bh_pending
  \* the main loop
  bhs,          \* bottom halves scheduled and not dispatched (external)
  drain,        \* "off", or where bh_input_drain is: "take", "deliver"
  batch,        \* the local copy bh_input_drain works on
  running,      \* runstate_is_running()
  absolute,     \* the guest's active pointer is absolute (external)
  \* the guest
  guestKeys,    \* keys its keyboard reports as held
  \* history
  accepted,     \* every event that entered in_q, oldest first
  handed,       \* every event given to QEMU's input layer, oldest first
  produced,     \* how many events the handlers have produced
  lost          \* codes whose latest event never took effect in the guest

uiVars    == <<keysDown, grabbed, focused>>
queueVars == <<inQ, bhPending, accepted>>
loopVars  == <<bhs, drain, batch, running, absolute>>
guestVars == <<guestKeys, handed>>
vars == <<keysDown, grabbed, focused, pc, todo, inQ, bhPending, bhs, drain,
          batch, running, absolute, guestKeys, accepted, handed, produced,
          lost>>

TypeOK ==
  /\ keysDown \in SUBSET UserKeys
  /\ grabbed \in BOOLEAN
  /\ focused \in BOOLEAN
  /\ pc \in [Threads -> {"idle", "enqueue", "flush", "schedule"}]
  /\ todo \in [Threads -> Seq(Event)]
  /\ inQ \in Seq(Event) /\ Len(inQ) <= QueueLen
  /\ bhPending \in BOOLEAN
  /\ bhs \in Nat
  /\ drain \in {"off", "take", "deliver"}
  /\ batch \in Seq(Event)
  /\ running \in BOOLEAN
  /\ absolute \in BOOLEAN
  /\ guestKeys \in SUBSET Keys
  /\ accepted \in Seq(Event)
  /\ handed \in Seq(Event)
  /\ produced \in Nat
  /\ lost \in SUBSET Codes

Init ==
  /\ keysDown = {} /\ grabbed = FALSE /\ focused = TRUE
  /\ pc = [t \in Threads |-> "idle"]
  /\ todo = [t \in Threads |-> <<>>]
  /\ inQ = <<>> /\ bhPending = FALSE
  /\ bhs = 0 /\ drain = "off" /\ batch = <<>>
  /\ running \in BOOLEAN          \* -S is forced; vm_start's BH starts it
  /\ absolute \in BOOLEAN
  /\ guestKeys = {}
  /\ accepted = <<>> /\ handed = <<>> /\ produced = 0 /\ lost = {}

KeyEvent(k, d)    == [kind |-> "key", code |-> k, down |-> d]
ButtonEvent(b, d) == [kind |-> "btn", code |-> b, down |-> d]
Motion(kind)      == [kind |-> kind, code |-> Nothing, down |-> FALSE]

---------------------------------------------------------------------------
(* A handler starts: it has the events es to enqueue, then it flushes.     *)
Produce(t, es) ==
  /\ pc[t] = "idle"
  /\ produced + Len(es) <= MaxEvents
  /\ produced' = produced + Len(es)
  /\ todo' = [todo EXCEPT ![t] = es]
  /\ pc' = [pc EXCEPT ![t] = IF es = <<>> THEN "flush" ELSE "enqueue"]
  /\ UNCHANGED <<queueVars, loopVars, guestVars, lost>>

(* A handler of the UI thread that sends nothing. *)
ProduceNothing ==
  /\ pc["ui"] = "idle"
  /\ UNCHANGED <<pc, todo, produced, queueVars, loopVars, guestVars, lost>>

(* KeyboardInput: the event is sent, and the record becomes held. *)
KeyInput(k, down, held) ==
  /\ focused
  /\ Produce("ui", <<KeyEvent(k, down)>>)
  /\ keysDown' = held
  /\ UNCHANGED <<grabbed, focused>>

(* KeyboardInput, pressed.  The key is recorded after the flush; no other  *)
(* handler of the UI thread runs in between.                               *)
KeyPressed(k) == KeyInput(k, TRUE, keysDown \cup {k})

(* A mutant: the release is sent and the record kept. *)
KeyReleasedStillRecorded(k) == KeyInput(k, FALSE, keysDown)

(* KeyboardInput, released.  A release of a key that is not recorded is    *)
(* sent all the same (the release of G after Ctrl+Alt+G).                  *)
KeyReleased(k) == KeyInput(k, FALSE, keysDown \ {k})

(* Ctrl+Alt+G: the press of G stays in the host. *)
GrabHotkey ==
  /\ focused /\ grabbed
  /\ ProduceNothing
  /\ grabbed' = FALSE
  /\ UNCHANGED <<keysDown, focused>>

(* The orders in which a set of held keys can be listed, each once. *)
Orders(S) ==
  {o \in [1..Cardinality(S) -> S] : \A k \in S : \E i \in DOMAIN o : o[i] = k}

(* A mutant: the record is taken and nothing is sent. *)
LiftNothing == ProduceNothing /\ keysDown' = {}

(* lift_all_keys: releases every recorded key, in the order of the Vec. *)
LiftAllKeys ==
  \/ /\ keysDown = {} /\ ProduceNothing
     /\ UNCHANGED keysDown
  \/ /\ keysDown # {}
     /\ \E o \in Orders(keysDown) :
          Produce("ui", [i \in DOMAIN o |-> KeyEvent(o[i], FALSE)])
     /\ keysDown' = {}

FocusLost ==
  /\ focused /\ focused' = FALSE
  /\ grabbed' = FALSE
  /\ LiftAllKeys

FocusGained ==
  /\ ~focused /\ focused' = TRUE
  /\ ProduceNothing
  /\ UNCHANGED <<keysDown, grabbed>>

(* CursorMoved.  A guest that switched to a tablet ends a relative grab;   *)
(* a position outside the image sends nothing.                             *)
CursorMoved ==
  /\ absolute
  /\ grabbed' = FALSE
  /\ \/ Produce("ui", <<Motion("abs")>>)
     \/ grabbed /\ ProduceNothing
  /\ UNCHANGED <<keysDown, focused>>

(* DeviceEvent::MouseMotion. *)
DeviceMoved ==
  /\ grabbed /\ ~absolute
  /\ Produce("ui", <<Motion("rel")>>)
  /\ UNCHANGED uiVars

(* MouseInput.  A press grabs a relative pointer, also the press of a      *)
(* button the guest has no name for, which then sends nothing.             *)
MouseButton(down) ==
  /\ grabbed' = (grabbed \/ (down /\ ~absolute))
  /\ \/ \E b \in Buttons : Produce("ui", <<ButtonEvent(b, down)>>)
     \/ down /\ ~grabbed /\ ~absolute /\ ProduceNothing
  /\ UNCHANGED <<keysDown, focused>>

(* MouseWheel: a click of the wheel's button. *)
MouseWheel ==
  /\ Produce("ui", <<ButtonEvent(Wheel, TRUE), ButtonEvent(Wheel, FALSE)>>)
  /\ UNCHANGED uiVars

(* One step of the key script, in the refresh callback of the main loop:   *)
(* a chord goes down in its order and up in the reverse one.               *)
ScriptStep(chord, down) ==
  /\ drain = "off"
  /\ Produce("qemu", [i \in 1..Len(chord) |->
                        KeyEvent(chord[IF down THEN i ELSE Len(chord) + 1 - i], down)])
  /\ UNCHANGED uiVars

---------------------------------------------------------------------------
(* One event into a queue that holds room events, under in_lock. *)
EnqueueInto(t, room) ==
  /\ pc[t] = "enqueue"
  /\ LET e == Head(todo[t])
     IN  IF Len(inQ) < room
         THEN /\ inQ' = Append(inQ, e)
              /\ accepted' = Append(accepted, e)
              /\ lost' = lost \ {e.code}
         ELSE /\ lost' = lost \cup {e.code}
              /\ UNCHANGED <<inQ, accepted>>
  /\ todo' = [todo EXCEPT ![t] = Tail(todo[t])]
  /\ pc' = [pc EXCEPT ![t] = IF Len(todo[t]) = 1 THEN "flush" ELSE "enqueue"]
  /\ UNCHANGED <<uiVars, bhPending, loopVars, guestVars, produced>>

(* enqueue: a full queue drops the new event. *)
Enqueue(t) == EnqueueInto(t, QueueLen)

(* The critical section of a flush that has to schedule if owed. *)
FlushIf(t, owed) ==
  /\ pc[t] = "flush"
  /\ bhPending' = (bhPending \/ owed)
  /\ pc' = [pc EXCEPT ![t] = IF owed THEN "schedule" ELSE "idle"]
  /\ UNCHANGED <<uiVars, todo, inQ, accepted, loopVars, guestVars, produced, lost>>

(* qemu_embed_input_flush, the part under in_lock. *)
Flush(t) == FlushIf(t, ~bhPending /\ inQ # <<>>)

(* qemu_embed_input_flush, after the unlock. *)
Schedule(t) ==
  /\ pc[t] = "schedule"
  /\ bhs' = bhs + 1
  /\ pc' = [pc EXCEPT ![t] = "idle"]
  /\ UNCHANGED <<uiVars, todo, queueVars, drain, batch, running, absolute,
                 guestVars, produced, lost>>

---------------------------------------------------------------------------
(* The main loop runs one thing at a time: a BH, the key script, or the    *)
(* monitor's stop and cont.                                                *)
LoopIdle == drain = "off" /\ pc["qemu"] = "idle"

DispatchDrain ==
  /\ LoopIdle
  /\ bhs > 0 /\ bhs' = bhs - 1
  /\ drain' = "take"
  /\ UNCHANGED <<uiVars, pc, todo, queueVars, batch, running, absolute,
                 guestVars, produced, lost>>

(* The critical section of bh_input_drain, leaving in_bh_pending at p. *)
TakeBatch(p) ==
  /\ drain = "take" /\ drain' = "deliver"
  /\ batch' = inQ /\ inQ' = <<>>
  /\ bhPending' = p
  /\ UNCHANGED <<uiVars, pc, todo, accepted, bhs, running, absolute,
                 guestVars, produced, lost>>

(* A mutant: in_bh_pending is not cleared. *)
DrainTakeStaysPending == TakeBatch(TRUE)

(* bh_input_drain, under in_lock: copy the queue, empty it, and let the    *)
(* next flush schedule again.                                              *)
DrainTake == TakeBatch(FALSE)

(* The events of evs about the key k, and whether the last of them is a    *)
(* press.                                                                  *)
Mentions(evs, k)   == {i \in DOMAIN evs : evs[i].kind = "key" /\ evs[i].code = k}
LeavesDown(evs, k) ==
  \E i \in Mentions(evs, k) : evs[i].down /\ \A j \in Mentions(evs, k) : j <= i

(* The keys a batch leaves held: those it leaves down, and of the keys     *)
(* already held those it does not mention.                                 *)
HeldAfter(held, evs) ==
  {k \in Keys : IF Mentions(evs, k) = {} THEN k \in held ELSE LeavesDown(evs, k)}

(* QEMU's input layer gets evs out of the batch, and then the batch is     *)
(* done; it ignores every event while the VM is paused (external).         *)
Deliver(evs) ==
  /\ drain = "deliver" /\ drain' = "off"
  /\ handed' = handed \o evs
  /\ batch' = <<>>
  /\ guestKeys' = IF running THEN HeldAfter(guestKeys, evs) ELSE guestKeys
  /\ lost' = IF running THEN lost ELSE lost \cup {evs[i].code : i \in DOMAIN evs}
  /\ UNCHANGED <<uiVars, pc, todo, queueVars, bhs, running, absolute, produced>>

(* A mutant: the batch is read from its second event. *)
DrainDeliverSkipsFirst == Deliver(SubSeq(batch, 2, Len(batch)))

(* bh_input_drain, after the unlock: the whole batch in order. *)
DrainDeliver == Deliver(batch)

(* bh_vm_start, or the monitor's cont. *)
VmStart ==
  /\ LoopIdle
  /\ ~running /\ running' = TRUE
  /\ UNCHANGED <<uiVars, pc, todo, queueVars, bhs, drain, batch, absolute,
                 guestVars, produced, lost>>

(* qemu_embed_vm_pause, or the monitor's stop: a request the main loop     *)
(* carries out.                                                            *)
VmPause ==
  /\ LoopIdle
  /\ running /\ running' = FALSE
  /\ UNCHANGED <<uiVars, pc, todo, queueVars, bhs, drain, batch, absolute,
                 guestVars, produced, lost>>

(* The guest changes its active pointer device (external). *)
PointerModeChanges ==
  /\ running
  /\ absolute' = ~absolute
  /\ UNCHANGED <<uiVars, pc, todo, queueVars, bhs, drain, batch, running,
                 guestVars, produced, lost>>

---------------------------------------------------------------------------
Ui ==
  \/ \E k \in UserKeys : KeyPressed(k) \/ KeyReleased(k)
  \/ GrabHotkey \/ FocusLost \/ FocusGained
  \/ CursorMoved \/ DeviceMoved \/ MouseWheel
  \/ \E down \in BOOLEAN : MouseButton(down)

Script == \E chord \in Chords, down \in BOOLEAN : ScriptStep(chord, down)

Handler(t) == Enqueue(t) \/ Flush(t) \/ Schedule(t)

Drain == DispatchDrain \/ DrainTake \/ DrainDeliver

Next ==
  \/ Ui \/ Script
  \/ \E t \in Threads : Handler(t)
  \/ Drain
  \/ VmStart \/ VmPause \/ PointerModeChanges

(* A handler that has started runs to its end, and the main loop           *)
(* dispatches a BH that stays scheduled.  Nothing makes the user type.     *)
Fairness ==
  /\ \A t \in Threads : WF_vars(Handler(t))
  /\ WF_vars(Drain)

Spec == Init /\ [][Next]_vars
FairSpec == Spec /\ Fairness

---------------------------------------------------------------------------
(* libqemu_embed.c 342-480: nothing that entered the queue is lost,        *)
(* duplicated or reordered on its way to QEMU's input layer, whatever two  *)
(* threads enqueue while the main loop drains.                             *)
QueueFIFO == accepted = (handed \o batch) \o inQ

One(condition) == IF condition THEN 1 ELSE 0

(* Everybody who is committed to running the drain: a flusher past its     *)
(* critical section, a scheduled BH, a dispatched one before its lock.     *)
Committed ==
  One(pc["ui"] = "schedule") + One(pc["qemu"] = "schedule") + bhs + One(drain = "take")

(* libqemu_embed.c 402, 471-478: in_bh_pending is true exactly while one   *)
(* drain is on its way, and there is never a second one.                   *)
OneDrainOwed == Committed = One(bhPending)

(* libqemu_embed.c 397-403, 471-479: no wakeup is lost.  An event in the   *)
(* queue is owed a drain, or a thread is still going to flush.             *)
NoStrandedEvent ==
  inQ # <<>> => bhPending \/ \E t \in Threads : pc[t] \in {"enqueue", "flush"}

(* No input of the user is under way. *)
Quiet ==
  pc["ui"] = "idle" /\ inQ = <<>> /\ batch = <<>>

(* main.rs 1183-1190, 927-938: once the input is through, the guest holds  *)
(* exactly the keys the player has recorded, but for those whose last      *)
(* event was dropped or ignored.                                           *)
HeldKeysAgree ==
  Quiet => \A k \in UserKeys \ (ScriptKeys \cup lost) :
             k \in keysDown <=> k \in guestKeys

(* Every accepted event reaches QEMU's input layer in the end. *)
EventuallyHanded ==
  \A n \in 1..MaxEvents : Len(accepted) >= n ~> Len(handed) >= n

(* main.rs 1255-1258: a guest that loses the player's focus gets its keys  *)
(* released, unless an event is dropped or ignored, or the focus returns.  *)
FocusLossLiftsKeys ==
  ~focused ~> \/ guestKeys \cap UserKeys \subseteq ScriptKeys
              \/ lost # {}
              \/ focused

Channel == INSTANCE InputChannel

(* Seen from outside, the three functions are a FIFO channel: see          *)
(* InputChannel.                                                           *)
ImplementsChannel == Channel!Spec
===========================================================================
