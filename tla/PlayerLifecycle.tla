-------------------------- MODULE PlayerLifecycle --------------------------
(***************************************************************************)
(* How a player ends.  QEMU lives in the player's process: the QEMU thread *)
(* creates the VM, runs its main loop and destroys it; the UI thread keeps *)
(* a copy of the handle and calls in from every window event.  The two     *)
(* meet in Shared (stopped, released, vm) and in App (closing):            *)
(*                                                                         *)
(*   player/src/qemu_vm.rs  start: the QEMU thread's body, and the UI's    *)
(*                          first calls                                    *)
(*   player/src/main.rs     window_event, user_event, vm, join_qemu, main  *)
(*   embed/libqemu_embed.c  run, destroy                                   *)
(*                                                                         *)
(* Time passes in ticks.  Only waiting takes time: the QEMU thread's wait  *)
(* for the release, the UI thread's join, a handler of the UI thread that  *)
(* blocks (a monitor command, the swapchain), and idling.                  *)
(***************************************************************************)
EXTENDS Integers

CONSTANTS
  ReleaseWait,  \* ticks the QEMU thread waits for the release (5 s)
  JoinWait,     \* ticks the UI thread waits for the QEMU thread (15 s)
  UiBlock       \* the longest a handler of the UI thread blocks, in ticks

ASSUME WaitsAssumption ==
  ReleaseWait \in Nat /\ JoinWait \in Nat /\ UiBlock \in Nat

VARIABLES
  qemu,         \* where the QEMU thread is
  ui,           \* where the UI thread is
  stopped,      \* Shared.stopped
  released,     \* Shared.released
  sharedVm,     \* Shared.vm is Some: the key script may call in
  wake,         \* a wake of the event loop is queued
  closing,      \* App.closing: App::vm gives no handle any more
  shutdown,     \* QEMU was asked to leave its main loop
  hasty,        \* the QEMU thread gave up waiting for the release
  waited,       \* ticks of the QEMU thread's wait
  joined,       \* ticks of the UI thread's join
  blocked       \* ticks the running handler has blocked

shared == <<stopped, released, sharedVm>>
clocks == <<waited, joined, blocked>>
vars   == <<qemu, ui, shared, wake, closing, shutdown, hasty, clocks>>

QemuPlaces == {"running", "announcing", "waiting", "destroying", "done"}
UiPlaces ==
  {"startup",   \* start, before the handle is published
   "monitor",   \* start, waiting for the monitor
   "loop",      \* the event loop, between handlers
   "calling",   \* in a handler, in a call on the handle
   "blocked",   \* in a handler, waiting for something
   "left",      \* the event loop has been told to exit
   "joining",   \* join_qemu
   "returned",  \* main has returned: atexit handlers run
   "killed"}    \* hard_exit: none run

Ended   == ui \in {"returned", "killed"}
Calling == ui \in {"startup", "calling"}
Freed   == qemu \in {"destroying", "done"}

TypeOK ==
  /\ qemu \in QemuPlaces /\ ui \in UiPlaces
  /\ stopped \in BOOLEAN /\ released \in BOOLEAN /\ sharedVm \in BOOLEAN
  /\ wake \in BOOLEAN /\ closing \in BOOLEAN
  /\ shutdown \in BOOLEAN /\ hasty \in BOOLEAN
  /\ waited \in 0..ReleaseWait + 1
  /\ joined \in 0..JoinWait + 1
  /\ blocked \in 0..UiBlock

(* The QEMU thread has sent the handle and runs its loop; the UI thread    *)
(* has received it.                                                        *)
Init ==
  /\ qemu = "running" /\ ui = "startup"
  /\ stopped = FALSE /\ released = FALSE /\ sharedVm = FALSE
  /\ wake = FALSE /\ closing = FALSE /\ shutdown = FALSE /\ hasty = FALSE
  /\ waited = 0 /\ joined = 0 /\ blocked = 0

UiGoes(from, to) ==
  ui = from /\ ui' = to /\ blocked' = 0 /\ UNCHANGED <<qemu, hasty, waited, joined>>

---------------------------------------------------------------------------
(* start, the UI side: set_refresh_ms on the handle, then publish it for   *)
(* the key script, then wait for the monitor.                              *)
PublishHandle ==
  /\ UiGoes("startup", "monitor")
  /\ sharedVm' = TRUE
  /\ UNCHANGED <<stopped, released, wake, closing, shutdown>>

(* The monitor answered, or its waits ran out. *)
StartReturns ==
  /\ UiGoes("monitor", "loop")
  /\ UNCHANGED <<shared, wake, closing, shutdown>>

(* A handler that has a handle (App::vm) calls in. *)
CallIn ==
  /\ ~closing
  /\ UiGoes("loop", "calling")
  /\ UNCHANGED <<shared, wake, closing, shutdown>>

CallReturns ==
  /\ UiGoes("calling", "loop")
  /\ UNCHANGED <<shared, wake, closing, shutdown>>

(* RedrawRequested with a swapchain that has no image yet. *)
Redraw ==
  /\ UiGoes("loop", "blocked")
  /\ UNCHANGED <<shared, wake, closing, shutdown>>

HandlerUnblocks ==
  /\ UiGoes("blocked", "loop")
  /\ UNCHANGED <<shared, wake, closing, shutdown>>

CloseRequested ==
  /\ UiGoes("loop", "left")
  /\ shutdown' = TRUE /\ closing' = TRUE
  /\ UNCHANGED <<shared, wake>>

(* user_event: leave if the main loop has returned; otherwise a monitor    *)
(* command may be run, or none.                                            *)
UserEvent ==
  /\ wake /\ wake' = FALSE
  /\ \/ /\ stopped /\ closing' = TRUE
        /\ UiGoes("loop", "left")
     \/ /\ ~stopped /\ UNCHANGED closing
        /\ UiGoes("loop", "loop") \/ UiGoes("loop", "blocked")
  /\ UNCHANGED <<shared, shutdown>>

(* A mutant: the release is given where the stop is seen, and the event    *)
(* loop goes on.                                                           *)
ReleaseEarly ==
  /\ ui = "left" /\ ui' = "loop"
  /\ closing' = FALSE
  /\ released' = TRUE /\ blocked' = 0
  /\ UNCHANGED <<stopped, sharedVm, wake, shutdown, qemu, hasty, waited, joined>>

(* join_qemu: no call comes from this thread any more. *)
Release ==
  /\ UiGoes("left", "joining")
  /\ closing' = TRUE
  /\ released' = TRUE
  /\ UNCHANGED <<stopped, sharedVm, wake, shutdown>>

(* The QEMU thread is finished: main returns its status. *)
Join ==
  /\ qemu = "done"
  /\ UiGoes("joining", "returned")
  /\ UNCHANGED <<shared, wake, closing, shutdown>>

(* "QEMU did not shut down in 15 s; exiting without cleanup". *)
JoinTimesOut ==
  /\ qemu # "done" /\ joined > JoinWait
  /\ UiGoes("joining", "killed")
  /\ UNCHANGED <<shared, wake, closing, shutdown>>

---------------------------------------------------------------------------
QemuGoes(from, to) ==
  qemu = from /\ qemu' = to /\ ~Ended /\ UNCHANGED <<ui, closing, shutdown, clocks>>

(* qemu_embed_run returns (a request of the UI, the guest's power-off, a   *)
(* quit on the monitor), and Shared is told.                               *)
MainLoopReturns ==
  /\ QemuGoes("running", "announcing")
  /\ stopped' = TRUE /\ sharedVm' = FALSE
  /\ UNCHANGED <<released, wake, hasty>>

(* A mutant: nobody wakes the event loop. *)
AnnounceNothing ==
  /\ QemuGoes("announcing", "waiting")
  /\ UNCHANGED <<shared, wake, hasty>>

(* The waker: it queues a user event of the event loop. *)
Announce ==
  /\ QemuGoes("announcing", "waiting")
  /\ wake' = TRUE
  /\ UNCHANGED <<shared, hasty>>

(* A frame or a cursor was published: the waker. *)
Publish ==
  /\ QemuGoes("running", "running")
  /\ ~wake /\ wake' = TRUE
  /\ UNCHANGED <<shared, hasty>>

SeesRelease ==
  /\ released
  /\ QemuGoes("waiting", "destroying")
  /\ UNCHANGED <<shared, wake, hasty>>

(* "UI thread did not release the VM handle; cleaning up anyway". *)
GivesUpWaiting ==
  /\ ~released /\ waited > ReleaseWait
  /\ QemuGoes("waiting", "destroying")
  /\ hasty' = TRUE
  /\ UNCHANGED <<shared, wake>>

(* qemu_embed_destroy returns, and the thread ends. *)
Destroyed ==
  /\ QemuGoes("destroying", "done")
  /\ UNCHANGED <<shared, wake, hasty>>

---------------------------------------------------------------------------
(* Steps that are taken at once: time does not pass while one is possible. *)
Urgent ==
  \/ Calling \/ Ended
  \/ ui = "left"
  \/ ui = "loop" /\ wake
  \/ ui \in {"monitor", "blocked"} /\ blocked = UiBlock
  \/ ui = "joining" /\ (qemu = "done" \/ joined > JoinWait)
  \/ qemu = "announcing"
  \/ qemu = "waiting" /\ (released \/ waited > ReleaseWait)

TickWhile(waiting) ==
  /\ ~Urgent
  /\ waited'  = waited  + (IF waiting THEN 1 ELSE 0)
  /\ joined'  = joined  + (IF ui = "joining" THEN 1 ELSE 0)
  /\ blocked' = blocked + (IF ui \in {"monitor", "blocked"} THEN 1 ELSE 0)
  /\ UNCHANGED <<qemu, ui, shared, wake, closing, shutdown, hasty>>

Tick == TickWhile(qemu = "waiting")

Over == Ended /\ UNCHANGED vars

UiStep ==
  \/ PublishHandle \/ StartReturns \/ CallReturns \/ HandlerUnblocks
  \/ Release \/ Join \/ JoinTimesOut
QemuStep == Announce \/ SeesRelease \/ GivesUpWaiting

Next ==
  \/ UiStep \/ UserEvent \/ CallIn \/ Redraw \/ CloseRequested
  \/ QemuStep \/ MainLoopReturns \/ Publish \/ Destroyed
  \/ Tick \/ Over

(* A handler of the UI thread returns, the event loop dispatches a queued  *)
(* wake among all other events, threads run, time passes.  Nothing makes   *)
(* QEMU's main loop or its cleanup end.                                    *)
Fairness ==
  WF_vars(UiStep) /\ WF_vars(QemuStep) /\ SF_vars(UserEvent) /\ WF_vars(Tick)

Spec == Init /\ [][Next]_vars
FairSpec == Spec /\ Fairness

---------------------------------------------------------------------------
(* qemu_vm.rs 725-727: "wait until it has stopped calling in; destroy      *)
(* frees the input mutex and the object itself": no call on the handle is  *)
(* running or can start once it is being destroyed.                        *)
NoCallAfterDestroy == Freed => ~Calling

(* qemu_vm.rs 166-167, main.rs 903-911, 1551-1554: the release is the UI   *)
(* thread's last word on the handle, without the time-out nothing is       *)
(* destroyed before it, and main returns, and QEMU's atexit handlers run,  *)
(* only after the QEMU thread has cleaned up.                              *)
EndsInOrder ==
  /\ released => ui \in {"joining", "returned", "killed"}
  /\ Freed /\ ~hasty => released
  /\ ui = "returned" => qemu = "done"

(* qemu_vm.rs 728-735, main.rs 907-924, 1152-1158, 1384-1392: a guest that  *)
(* powers off ends the player, whatever the UI thread was doing, and so    *)
(* does closing the window, also when QEMU hangs.                          *)
PlayerEnds == (stopped \/ closing) ~> Ended
===========================================================================
