---------------------------- MODULE PlayerProofs ----------------------------
(***************************************************************************)
(* Proofs about a player process and the launcher that controls it: its UI *)
(* thread and its QEMU thread, PlayerLifecycle, for every length of its    *)
(* waits; in the second part FrameArbiter, for every number of pictures;   *)
(* in the third the disc drive and the guest's program, ShelfDrive, for    *)
(* every shelf; in the fourth the launcher and its snapshot window,        *)
(* MachineControl, for both front ends and every bound.                    *)
(*                                                                         *)
(* PlayerLifecycle: IInv says where the two threads can be relative to     *)
(* each other: the UI thread is past its event loop exactly when it has    *)
(* released the handle, the handle is destroyed only after that or after   *)
(* the time-out, and while the QEMU thread waits for the release, the UI   *)
(* thread has left its loop or has the wake before it that ends it.        *)
(*                                                                         *)
(* FrameArbiter: NoFrameForgotten is inductive: each step that takes away  *)
(* one of the things that will bring the UI to the mailbox leaves the next *)
(* one behind (a callback the wake, the wake the redraw, the redraw the    *)
(* handler), and the handler takes the frame.                              *)
(*                                                                         *)
(* ShelfDrive: DriveInv says, for each place of the program, what the tray *)
(* holds and what the bottom half that may still run will do.              *)
(*                                                                         *)
(* MachineControl: each safety property has an inductive invariant of its  *)
(* own, which says where the UI's thread is whenever the property's state  *)
(* is in doubt.                                                            *)
(***************************************************************************)
EXTENDS PlayerLifecycle, ShelfDrive, MachineControl, TLAPS

PastLoop == ui \in {"joining", "returned", "killed"}

(* While the QEMU thread waits, a wake is queued or the loop was left.     *)
PromptUi == qemu = "waiting" /\ ~released => wake \/ ui = "left"

IInv ==
  /\ TypeOK
  /\ released <=> PastLoop
  /\ ui = "left" => closing
  /\ stopped <=> qemu # "running"
  /\ qemu \in {"running", "announcing"} => waited = 0
  /\ PromptUi
  /\ Freed /\ ~hasty => released
  /\ ui = "returned" => qemu = "done"

LEMMA InitInv == Init => IInv
<1> SUFFICES ASSUME Init PROVE IInv
  OBVIOUS
<1>1. waited \in 0..ReleaseWait + 1 /\ joined \in 0..JoinWait + 1 /\ blocked \in 0..UiBlock
  BY WaitsAssumption DEF Init
<1>2. TypeOK
  BY <1>1, Zenon DEF Init, TypeOK, QemuPlaces, UiPlaces
<1>3. ~PastLoop /\ ~Freed /\ qemu = "running" /\ ui = "startup" /\ waited = 0
  BY DEF Init, PastLoop, Freed
<1>4. released = FALSE /\ stopped = FALSE /\ hasty = FALSE
  BY DEF Init
<1> QED
  BY <1>2, <1>3, <1>4 DEF IInv, PromptUi

(* A wake that is handled once the main loop has returned ends the event   *)
(* loop; before that nobody waits for the release.                         *)
LEMMA UserEventInv == ASSUME IInv, UserEvent PROVE IInv'
<1>1. /\ ui = "loop" /\ ui' \in {"loop", "left", "blocked"}
      /\ qemu' = qemu /\ hasty' = hasty
      /\ waited' = waited /\ joined' = joined /\ blocked' = 0
      /\ shutdown' = shutdown
      /\ stopped' = stopped /\ released' = released /\ sharedVm' = sharedVm
  BY DEF UserEvent, UiGoes, shared
<1>2. wake' = FALSE /\ closing' \in BOOLEAN
  BY DEF UserEvent, IInv, TypeOK
<1>3. stopped => ui' = "left"
  BY DEF UserEvent, UiGoes
<1>4. ui' = "left" => closing' = TRUE
  BY DEF UserEvent, UiGoes
<1>5. TypeOK'
  <2>1. blocked' \in 0..UiBlock
    BY <1>1, WaitsAssumption
  <2>2. wake' \in BOOLEAN
    BY <1>2
  <2>3. ui' \in UiPlaces
    BY <1>1 DEF UiPlaces
  <2> QED
    BY <1>1, <1>2, <2>1, <2>2, <2>3, Zenon DEF IInv, TypeOK
<1>6. PastLoop' <=> PastLoop
  BY <1>1 DEF PastLoop
<1>7. PromptUi'
  BY <1>1, <1>3 DEF IInv, PromptUi
<1> QED
  BY <1>1, <1>4, <1>5, <1>6, <1>7 DEF IInv, Freed

LEMMA UiInv ==
  ASSUME IInv, UiStep \/ UserEvent \/ CallIn \/ Redraw \/ CloseRequested
  PROVE  IInv'
<1> USE WaitsAssumption
    DEF UiGoes, shared, clocks, IInv, TypeOK, PastLoop, PromptUi, Freed,
        QemuPlaces, UiPlaces
<1>1. CASE PublishHandle
  BY <1>1 DEF PublishHandle
<1>2. CASE StartReturns \/ CallIn \/ CallReturns \/ Redraw \/ HandlerUnblocks
  BY <1>2 DEF StartReturns, CallIn, CallReturns, Redraw, HandlerUnblocks
<1>3. CASE CloseRequested
  BY <1>3 DEF CloseRequested
<1>4. CASE UserEvent
  BY <1>4, UserEventInv
<1>5. CASE Release
  BY <1>5 DEF Release
<1>6. CASE Join \/ JoinTimesOut
  BY <1>6 DEF Join, JoinTimesOut
<1> QED
  BY <1>1, <1>2, <1>3, <1>4, <1>5, <1>6 DEF UiStep

LEMMA QemuInv ==
  ASSUME IInv, QemuStep \/ MainLoopReturns \/ Publish \/ Destroyed
  PROVE  IInv'
<1> USE WaitsAssumption
    DEF QemuGoes, shared, clocks, IInv, TypeOK, PastLoop, PromptUi, Freed,
        QemuPlaces, UiPlaces, Ended
<1>1. CASE MainLoopReturns
  BY <1>1 DEF MainLoopReturns
<1>2. CASE Announce
  BY <1>2 DEF Announce
<1>3. CASE Publish
  BY <1>3 DEF Publish
<1>4. CASE SeesRelease
  BY <1>4 DEF SeesRelease
<1>5. CASE GivesUpWaiting
  BY <1>5 DEF GivesUpWaiting
<1>6. CASE Destroyed
  BY <1>6 DEF Destroyed
<1> QED
  BY <1>1, <1>2, <1>3, <1>4, <1>5, <1>6 DEF QemuStep

(* A tick while the QEMU thread waits means that some handler blocks.      *)
LEMMA TickBlocks ==
  ASSUME IInv, Tick, qemu = "waiting", ~released PROVE ui \in {"monitor", "blocked"}
<1>1. ~Urgent /\ ui \in UiPlaces /\ ~PastLoop /\ (wake \/ ui = "left")
  BY DEF Tick, TickWhile, IInv, TypeOK, PromptUi
<1> QED
  BY <1>1 DEF Urgent, UiPlaces, PastLoop, Calling

LEMMA TickInv == ASSUME IInv, Tick PROVE IInv'
<1> USE WaitsAssumption DEF Tick, TickWhile, shared, clocks, IInv, TypeOK, QemuPlaces, UiPlaces
<1>1. TypeOK'
  BY DEF Urgent
<1>3. PromptUi'
  BY DEF PromptUi
<1> QED
  BY <1>1, <1>3 DEF PastLoop, Freed

LEMMA NextInv == IInv /\ [Next]_vars => IInv'
<1> SUFFICES ASSUME IInv, [Next]_vars PROVE IInv'
  OBVIOUS
<1>1. CASE UNCHANGED vars \/ Over
  BY <1>1 DEF Over, vars, shared, clocks, IInv, TypeOK, PastLoop, PromptUi, Freed
<1> QED
  BY <1>1, UiInv, QemuInv, TickInv DEF Next

LEMMA Invariance == Spec => []IInv
BY InitInv, NextInv, PTL DEF Spec

(* Every variable keeps its type; in particular no wait outlives its       *)
(* deadline by more than a tick.                                           *)
THEOREM TypeCorrect == Spec => []TypeOK
<1>1. IInv => TypeOK
  BY DEF IInv
<1> QED
  BY <1>1, Invariance, PTL

(* qemu_vm.rs 725-740, main.rs 903-906: a released handle is never used    *)
(* again, only the time-out destroys one that is not released, and QEMU's  *)
(* atexit handlers run after its cleanup.                                  *)
THEOREM EndOrdered == Spec => []EndsInOrder
<1>1. IInv => EndsInOrder
  BY DEF IInv, EndsInOrder, PastLoop
<1> QED
  BY <1>1, Invariance, PTL

(* qemu_vm.rs 725-741: no call on the handle runs or starts once it is     *)
(* being destroyed, unless the wait for the release has run out, and that  *)
(* wait runs only while a handler of the UI thread blocks (never because a *)
(* wake was lost or an event was served first), whatever the deadlines.    *)
THEOREM OnlyBlockingIsLate ==
  Spec => /\ [](~hasty => NoCallAfterDestroy)
          /\ [][~released /\ waited' # waited => ui \in {"monitor", "blocked"}]_vars
<1>1. IInv => (~hasty => NoCallAfterDestroy)
  BY DEF IInv, NoCallAfterDestroy, Calling, PastLoop
<1>2. IInv /\ [Next]_vars
        => [~released /\ waited' # waited => ui \in {"monitor", "blocked"}]_vars
  <2> SUFFICES ASSUME IInv, Next, ~released, waited' # waited
               PROVE  ui \in {"monitor", "blocked"}
    OBVIOUS
  <2>1. CASE Tick
    <3>1. qemu = "waiting"
      BY <2>1 DEF Tick, TickWhile, IInv, TypeOK
    <3> QED
      BY <2>1, <3>1, TickBlocks
  <2>2. CASE Over
    BY <2>2 DEF Over, vars, clocks
  <2>3. CASE UiStep \/ UserEvent \/ CallIn \/ Redraw \/ CloseRequested
    BY <2>3 DEF UiStep, PublishHandle, StartReturns, CallReturns, HandlerUnblocks, Release, Join,
                JoinTimesOut, UserEvent, CallIn, Redraw, CloseRequested, UiGoes
  <2>4. CASE QemuStep \/ MainLoopReturns \/ Publish \/ Destroyed
    BY <2>4 DEF QemuStep, Announce, SeesRelease, GivesUpWaiting, MainLoopReturns, Publish,
                Destroyed, QemuGoes, clocks
  <2> QED
    BY <2>1, <2>2, <2>3, <2>4 DEF Next
<1> QED
  BY <1>1, <1>2, Invariance, PTL DEF Spec

---------------------------------------------------------------------------
(* FrameArbiter.  It has a wake and a UI thread of its own, which look at  *)
(* other things than PlayerLifecycle's: here they are nudged and painter.  *)
CONSTANT MaxDrawn
VARIABLES drawn, turn, back, grace, uniform, vgaDirty, threeD, recent, front, fresh,
          nudged, redraw, painter, shown, skipped, fx

Arbiter == INSTANCE FrameArbiter WITH wake <- nudged, ui <- painter

LEMMA DrawType == 
  ASSUME MaxDrawn \in Nat \ {0}, Arbiter!TypeOK, Arbiter!Draw
  PROVE   drawn' \in Arbiter!Pictures /\ drawn' \in 0..MaxDrawn
BY DEF Arbiter!TypeOK, Arbiter!Draw, Arbiter!Pictures

LEMMA PicturesInit ==
  ASSUME MaxDrawn \in Nat \ {0}
  PROVE  Arbiter!Init => Arbiter!TypeOK
<1>1. 1 \in Arbiter!Pictures /\ 0 \in 0..MaxDrawn
  BY DEF Arbiter!Pictures
<1> SUFFICES ASSUME Arbiter!Init PROVE Arbiter!TypeOK
  OBVIOUS
<1>2. front \in [pic : Arbiter!Pictures, black : BOOLEAN]
  BY <1>1 DEF Arbiter!Init
<1>3. /\ drawn \in Arbiter!Pictures /\ back \in Arbiter!Pictures /\ fx \in 0..MaxDrawn
      /\ shown \in Arbiter!Pictures \cup {Arbiter!Black}
  BY <1>1 DEF Arbiter!Init
<1> QED
  BY <1>2, <1>3, Zenon DEF Arbiter!Init, Arbiter!TypeOK

LEMMA PicturesNext ==
  ASSUME MaxDrawn \in Nat \ {0}
  PROVE  Arbiter!TypeOK /\ [Arbiter!Next]_(Arbiter!vars) => Arbiter!TypeOK'
<1> SUFFICES ASSUME Arbiter!TypeOK, [Arbiter!Next]_(Arbiter!vars) PROVE Arbiter!TypeOK'
  OBVIOUS
<1> USE DEF Arbiter!surface, Arbiter!mailbox, Arbiter!window
<1>1. ASSUME NEW oneColour \in BOOLEAN, NEW modeChange \in BOOLEAN,
             Arbiter!VgaDraws(oneColour, modeChange)
      PROVE  Arbiter!TypeOK'
  BY <1>1, DrawType DEF Arbiter!VgaDraws, Arbiter!TypeOK
<1>2. CASE Arbiter!RefreshDone
  BY <1>2 DEF Arbiter!RefreshDone, Arbiter!RefreshUnless, Arbiter!Publish, Arbiter!TypeOK
<1>3. ASSUME NEW on \in BOOLEAN, Arbiter!SetActive(on) PROVE Arbiter!TypeOK'
  BY <1>3 DEF Arbiter!SetActive, Arbiter!TypeOK
<1>4. CASE Arbiter!Frame3D
  BY <1>4, DrawType DEF Arbiter!Frame3D, Arbiter!Publish, Arbiter!TypeOK
<1>5. CASE Arbiter!Wake
  <2>1. nudged' \in BOOLEAN
    BY <1>5, Zenon DEF Arbiter!Wake
  <2> QED
    BY <1>5, <2>1 DEF Arbiter!Wake, Arbiter!TypeOK
<1>6. CASE Arbiter!FallbackElapses
  BY <1>6 DEF Arbiter!FallbackElapses, Arbiter!TypeOK
<1>11. CASE Arbiter!GraceElapses
  BY <1>11 DEF Arbiter!GraceElapses, Arbiter!TypeOK
<1>7. CASE Arbiter!UserEvent
  BY <1>7 DEF Arbiter!UserEvent, Arbiter!TypeOK
<1>12. CASE Arbiter!Expose
  BY <1>12 DEF Arbiter!Expose, Arbiter!TypeOK
<1>8. ASSUME NEW got \in BOOLEAN, Arbiter!Acquire(got) PROVE Arbiter!TypeOK'
  BY <1>8 DEF Arbiter!Acquire, Arbiter!TypeOK
<1>9. CASE Arbiter!Present
  BY <1>9 DEF Arbiter!Present, Arbiter!TypeOK
<1>10. CASE UNCHANGED Arbiter!vars
  BY <1>10 DEF Arbiter!vars, Arbiter!TypeOK
<1> QED
  BY <1>1, <1>2, <1>3, <1>4, <1>5, <1>6, <1>7, <1>8, <1>9, <1>10,
     <1>11, <1>12 DEF Arbiter!Next, Arbiter!Guest, Arbiter!Ui, Arbiter!Time

(* Every variable keeps its type. *)
THEOREM PicturesTyped ==
  ASSUME MaxDrawn \in Nat \ {0}
  PROVE  Arbiter!Spec => []Arbiter!TypeOK
BY PicturesInit, PicturesNext, PTL DEF Arbiter!Spec

---------------------------------------------------------------------------
LEMMA InitReach == Arbiter!Init => Arbiter!NoFrameForgotten
BY DEF Arbiter!Init, Arbiter!NoFrameForgotten

LEMMA NextReach == Arbiter!NoFrameForgotten /\ [Arbiter!Next]_(Arbiter!vars) => Arbiter!NoFrameForgotten'
<1> SUFFICES ASSUME Arbiter!NoFrameForgotten, [Arbiter!Next]_(Arbiter!vars) PROVE Arbiter!NoFrameForgotten'
  OBVIOUS
<1> USE DEF Arbiter!NoFrameForgotten, Arbiter!surface, Arbiter!mailbox, Arbiter!window
<1>1. CASE Arbiter!Guest
  BY <1>1 DEF Arbiter!Guest, Arbiter!VgaDraws, Arbiter!SetActive, Arbiter!Frame3D, Arbiter!Publish
<1>2. CASE Arbiter!RefreshDone \/ Arbiter!Wake
  BY <1>2 DEF Arbiter!RefreshDone, Arbiter!RefreshUnless, Arbiter!Publish, Arbiter!Wake
<1>3. CASE Arbiter!Time \/ Arbiter!UserEvent \/ Arbiter!Expose \/ Arbiter!Present
  BY <1>3 DEF Arbiter!Time, Arbiter!FallbackElapses, Arbiter!GraceElapses, Arbiter!UserEvent, Arbiter!Expose, Arbiter!Present
<1>4. ASSUME NEW got \in BOOLEAN, Arbiter!Acquire(got) PROVE Arbiter!NoFrameForgotten'
  BY <1>4 DEF Arbiter!Acquire
<1>5. CASE UNCHANGED Arbiter!vars
  BY <1>5 DEF Arbiter!vars
<1> QED
  BY <1>1, <1>2, <1>3, <1>4, <1>5 DEF Arbiter!Next, Arbiter!Ui

(* qemu_vm.rs 413-419, main.rs 1422-1425: however wakes coalesce, somebody *)
(* is on the way to a published frame, or the last redraw got no image.    *)
THEOREM FramesAreReached == Arbiter!Spec => []Arbiter!NoFrameForgotten
BY InitReach, NextReach, PTL DEF Arbiter!Spec
---------------------------------------------------------------------------
(* ShelfDrive: the drive in the player's QEMU and the guest's program, for *)
(* every shelf, every number of tries and every interference of the host:  *)
(* the types, that the last command wins, that a reported success is there *)
(* and that no disc takes another's place unseen.                          *)
Operating == {"eject", "empty", "load", "present"}

(* The parts of the inductive invariant that are no property themselves.   *)

(* A scheduled BH will do what was asked for last. *)
Pending == bh /\ last # Free => load = last

(* While the drive is being emptied nothing waits to be loaded. *)
NothingToLoad == pc \in {"empty", "load"} => load = NoDisc

(* A wait for the empty tray is not deceived by an older change, *)
ToldAll == pc = "empty" /\ settled => tray = NoDisc \/ changed # 1

(* so the tray is empty when LOAD is sent, *)
OutFirst == pc = "load" /\ settled => tray = NoDisc

EjectLast == pc \in {"empty", "load"} /\ settled => last = NoDisc

(* and a load that is still to happen finds it empty. *)
Clean == load # NoDisc /\ settled => tray = NoDisc

(* While the program waits for the disc it is that disc, or none. *)
Arriving == pc = "present" /\ settled => tray \in {NoDisc, last} /\ (bh => tray = NoDisc /\ load = last)

(* What was reported is not undone by a BH that is still to run. *)
Done == result = "ok" /\ settled => tray = last /\ (bh => load = NoDisc /\ last = NoDisc)

OkAtRest == pc \in Operating => result = "none"

DriveInv ==
  /\ LastCommandWins /\ Pending
  /\ NothingToLoad /\ ToldAll /\ OutFirst /\ EjectLast /\ Clean /\ Arriving
  /\ Done /\ OkAtRest

LEMMA ListOf ==
  ASSUME DriveTypeOK, NEW n \in Nat
  PROVE  EntriesOf(n) \in Seq(Entry) /\ Len(EntriesOf(n)) <= Len(file) /\ Len(EntriesOf(n)) \in Nat
<1> DEFINE m == IF n < Len(file) THEN n ELSE Len(file)
<1>1. file \in Seq(Discs) /\ Len(file) \in Nat
  BY DEF DriveTypeOK
<1>2. m \in Nat /\ m <= Len(file)
  BY <1>1
<1>3. \A i \in 1..m : [disc |-> file[i], missing |-> file[i] \in missing] \in Entry
  BY <1>1, <1>2 DEF Entry
<1>4. EntriesOf(n) = [i \in 1..m |-> [disc |-> file[i], missing |-> file[i] \in missing]]
  BY DEF EntriesOf
<1> HIDE DEF m
<1>5. EntriesOf(n) \in Seq(Entry) /\ Len(EntriesOf(n)) = m
  BY <1>2, <1>3, <1>4
<1>6. QED
  BY <1>2, <1>5

LEMMA NothingYet ==
  <<>> \in Seq(Discs) /\ <<>> \in Seq(Entry) /\ Len(<<>>) = 0
OBVIOUS

(* The state keeps its types. *)
THEOREM DriveTyped == DriveSpec => []DriveTypeOK
<1>1. DriveInit => DriveTypeOK
  <2> SUFFICES ASSUME DriveInit PROVE DriveTypeOK
    OBVIOUS
  <2>1. file \in Seq(Discs) /\ coming \in Seq(Discs) /\ list \in Seq(Entry) /\ Len(list) <= total
    BY NothingYet, ShelvesAssumption DEF DriveInit
  <2>2. bh \in BOOLEAN /\ settled \in BOOLEAN /\ last \in Discs \cup {NoDisc, Free} /\ missing \subseteq Discs
    BY Zenon DEF DriveInit
  <2>3. host \in 0..MaxHost /\ polls \in 0..Polls - 1 /\ total \in Nat /\ changed \in 0..2
    BY BoundsAssumption DEF DriveInit
  <2>4. QED
    BY <2>1, <2>2, <2>3, Zenon DEF DriveInit, DriveTypeOK
<1>2. DriveTypeOK /\ [DriveNext]_driveVars => DriveTypeOK'
  <2> SUFFICES ASSUME DriveTypeOK, [DriveNext]_driveVars PROVE DriveTypeOK'
    OBVIOUS
  <2> USE ShelvesAssumption, BoundsAssumption DEF DriveTypeOK, driveVars, hvars, dvars, pvars, history
  <2>1. CASE TruncateFile
    <3>1. file' \in Seq(Discs) /\ coming' \in Seq(Discs)
      BY <2>1, NothingYet, Zenon DEF TruncateFile
    <3>2. QED
      BY <2>1, <3>1 DEF TruncateFile, HostActs
  <2>2. CASE WriteFile
    <3>1. file' \in Seq(Discs) /\ coming' \in Seq(Discs)
      BY <2>2, NothingYet, Zenon DEF WriteFile
    <3>2. QED
      BY <2>2, <3>1 DEF WriteFile
  <2>3. ASSUME NEW d \in Discs, HostMoves(d) PROVE DriveTypeOK'
    BY <2>3 DEF HostMoves, HostActs
  <2>4. ASSUME NEW medium \in Discs \cup {NoDisc}, HostChanges(medium) PROVE DriveTypeOK'
    <3>1. last' \in Discs \cup {NoDisc, Free} /\ settled' \in BOOLEAN
      BY <2>4, Zenon DEF HostChanges
    <3>2. QED
      BY <2>4, <3>1 DEF HostChanges, HostActs
  <2>5. CASE ShelfBh
    <3>1. last' \in Discs \cup {NoDisc, Free} /\ settled' \in BOOLEAN
      BY <2>5, Zenon DEF ShelfBh, Moves, OpenFails
    <3>2. tray' \in Discs \cup {NoDisc} /\ changed' \in 0..2
      BY <2>5 DEF ShelfBh, Moves, OpenFails
    <3>3. QED
      BY <2>5, <3>1, <3>2 DEF ShelfBh
  <2>6. CASE WindowsPolls
    BY <2>6 DEF WindowsPolls, Told
  <2>7. CASE ListHeader
    BY <2>7, NothingYet DEF ListHeader
  <2>8. CASE ListEntries
    <3>1. list' \in Seq(Entry) /\ Len(list') <= Len(file) /\ total' = Len(file)
      BY <2>8, ListOf DEF ListEntries
    <3>2. QED
      BY <2>8, <3>1 DEF ListEntries
  <2>9. CASE Refresh
    BY <2>9 DEF Refresh
  <2>10. ASSUME NEW s \in Insertable \cup {NoSlot}, Start(s) PROVE DriveTypeOK'
    <3>1. s \in Nat \cup {NoSlot}
      BY DEF Insertable
    <3>2. QED
      BY <2>10, <3>1 DEF Start
  <2>11. CASE SendEject
    BY <2>11 DEF SendEject, SendEjectKeeping
  <2>12. CASE PollEmpty
    BY <2>12 DEF PollEmpty, PollEmptyOr, PollFor, PollUpTo, Emptied, Says, GoesOnTo, Told
  <2>13. CASE SendLoad
    <3>1. CASE Accepts
      <4>1. file[slot + 1] \in Discs /\ slot \in Nat
        BY <3>1 DEF Accepts
      <4>2. QED
        BY <2>13, <3>1, <4>1 DEF SendLoad, Says, GoesOnTo
    <3>2. CASE ~Accepts
      BY <2>13, <3>2 DEF SendLoad, Says, GoesOnTo
    <3>3. QED
      BY <3>1, <3>2
  <2>14. CASE PollPresent
    BY <2>14 DEF PollPresent, PollPresentOr, PollFor, PollUpTo, Says, GoesOnTo, Told
  <2>15. CASE UNCHANGED driveVars
    BY <2>15
  <2>16. QED
    BY <2>1, <2>2, <2>3, <2>4, <2>5, <2>6, <2>7, <2>8, <2>9, <2>10, <2>11, <2>12, <2>13, <2>14, <2>15
       DEF DriveNext, Host, List, User, Commands
<1>3. QED
  BY <1>1, <1>2, PTL DEF DriveSpec
-----------------------------------------------------------------------------
(* The inductive invariant holds at first, *)
LEMMA DriveBegins == DriveInit => DriveInv
BY DEF DriveInit, DriveInv, LastCommandWins, Pending, NothingToLoad, ToldAll, OutFirst, EjectLast, Clean,
       Arriving, Done, OkAtRest, Operating

(* and what the host and Windows do, and the list, leaves it alone, *)
LEMMA DriveOutside ==
  ASSUME DriveTypeOK, DriveInv,
         \/ TruncateFile \/ WriteFile \/ \E d \in Discs : HostMoves(d)
         \/ \E medium \in Discs \cup {NoDisc} : HostChanges(medium)
         \/ WindowsPolls \/ List \/ User \/ UNCHANGED driveVars
  PROVE  DriveInv'
<1> USE DEF DriveInv, LastCommandWins, Pending, NothingToLoad, ToldAll, OutFirst, EjectLast, Clean,
            Arriving, Done, OkAtRest, Operating
<1>1. CASE \E medium \in Discs \cup {NoDisc} : HostChanges(medium)
  BY <1>1 DEF HostChanges, pvars
<1>2. CASE WindowsPolls
  BY <1>2 DEF WindowsPolls, Told, DriveTypeOK, hvars, pvars, history
<1>3. CASE TruncateFile \/ WriteFile \/ (\E d \in Discs : HostMoves(d)) \/ UNCHANGED driveVars
  BY <1>3 DEF TruncateFile, WriteFile, HostMoves, driveVars, dvars, pvars, history
<1>4. CASE List
  BY <1>4 DEF List, ListHeader, ListEntries, hvars, dvars, history
<1>5. CASE User
  BY <1>5 DEF User, Refresh, Start, hvars, dvars, history
<1>6. QED
  BY <1>1, <1>2, <1>3, <1>4, <1>5

(* a BH does what was asked for, or fails, *)
LEMMA DriveBh ==
  ASSUME DriveTypeOK, DriveInv, ShelfBh
  PROVE  DriveInv'
<1> USE DEF DriveInv, LastCommandWins, Pending, NothingToLoad, ToldAll, OutFirst, EjectLast, Clean,
            Arriving, Done, OkAtRest, Operating, ShelfBh, hvars, pvars
<1>1. CASE Moves
  BY <1>1 DEF Moves, history
<1>2. CASE OpenFails
  BY <1>2 DEF OpenFails
<1>3. QED
  BY <1>1, <1>2

(* and the program's commands find the drive as they need it. *)
LEMMA DriveCommands ==
  ASSUME DriveTypeOK, DriveInv, Commands
  PROVE  DriveInv'
<1> USE DEF DriveInv, LastCommandWins, Pending, NothingToLoad, ToldAll, OutFirst, EjectLast, Clean,
            Arriving, Done, OkAtRest, Operating, hvars, history
<1>1. CASE SendEject
  BY <1>1 DEF SendEject, SendEjectKeeping
<1>2. CASE PollEmpty
  BY <1>2 DEF PollEmpty, PollEmptyOr, PollFor, PollUpTo, Emptied, Says, GoesOnTo, Told, NoMedium, DriveTypeOK
<1>3. CASE SendLoad
  <2>1. CASE Accepts
    <3>1. file[slot + 1] # NoDisc
      BY <2>1, DiscsAssumption, BoundsAssumption DEF Accepts, DriveTypeOK
    <3>2. QED
      BY <1>3, <2>1, <3>1 DEF SendLoad, Says, GoesOnTo
  <2>2. CASE ~Accepts
    BY <1>3, <2>2 DEF SendLoad, Says, GoesOnTo
  <2>3. QED
    BY <2>1, <2>2
<1>4. CASE PollPresent
  BY <1>4 DEF PollPresent, PollPresentOr, PollFor, PollUpTo, Says, GoesOnTo, Told, Ready, DriveTypeOK
<1>5. QED
  BY <1>1, <1>2, <1>3, <1>4 DEF Commands

THEOREM DriveInductive == DriveSpec => []DriveInv
<1>1. DriveTypeOK /\ DriveInv /\ [DriveNext]_driveVars => DriveInv'
  BY DriveOutside, DriveBh, DriveCommands DEF DriveNext, Host
<1>2. QED
  BY DriveBegins, <1>1, DriveTyped, PTL DEF DriveSpec

(* However commands collapse into one BH, the last one is what happens. *)
THEOREM TheLastWins == DriveSpec => []LastCommandWins
<1>1. DriveInv => LastCommandWins
  BY DEF DriveInv
<1>2. QED
  BY <1>1, DriveInductive, PTL

(* What the program reports as done is in the drive. *)
THEOREM SuccessIsTrue == DriveSpec => []SuccessIsThere
<1>1. DriveInv => SuccessIsThere
  BY DEF DriveInv, Done, SuccessIsThere
<1>2. QED
  BY <1>1, DriveInductive, PTL

(* The guest sees an empty tray between any two discs. *)
THEOREM NoUnseenSwap == DriveSpec => EmptiesFirst
<1>1. DriveInv /\ [DriveNext]_driveVars => [Swapped => ~settled']_driveVars
  <2> SUFFICES ASSUME DriveInv, DriveNext, Swapped PROVE ~settled'
    OBVIOUS
  <2>1. ShelfBh \/ \E medium \in Discs \cup {NoDisc} : HostChanges(medium)
    BY DEF DriveNext, Host, TruncateFile, WriteFile, HostMoves, WindowsPolls, List, ListHeader, ListEntries,
           User, Refresh, Start, Commands, SendEject, SendEjectKeeping, PollEmpty, PollEmptyOr, PollFor, PollUpTo,
           SendLoad, PollPresent, PollPresentOr, Swapped, dvars
  <2>2. CASE ShelfBh
    BY <2>2 DEF ShelfBh, Moves, OpenFails, DriveInv, Clean, Swapped, history
  <2>3. CASE \E medium \in Discs \cup {NoDisc} : HostChanges(medium)
    BY <2>3 DEF HostChanges
  <2>4. QED
    BY <2>1, <2>2, <2>3
<1>2. QED
  BY <1>1, DriveInductive, PTL DEF DriveSpec, EmptiesFirst

---------------------------------------------------------------------------
(* MachineControl.                                                         *)

(* The type invariant in parts: the flags, the rest, the handler's locals. *)
Flags ==
  /\ run \in BOOLEAN /\ elsewhere \in BOOLEAN /\ child \in BOOLEAN
  /\ open \in BOOLEAN /\ live \in BOOLEAN /\ resume \in BOOLEAN
  /\ error \in BOOLEAN /\ stale \in BOOLEAN /\ failed \in BOOLEAN

Values ==
  /\ player \in {"none", "starting", "up", "gone"}
  /\ jobs \in [JobIds -> {"none", "running", "ok", "failed"}]
  /\ uiAt \in Resting \cup Starting \cup Tidying
  /\ job \in JobIds \cup {NoJob} /\ nextJob \in 0..MaxJobs
  /\ status \in {"none", "doing", "done"}
  /\ plays \in 0..MaxPlays /\ faults \in 0..MaxFaults
  /\ uiAt \in Starting => nextJob \in JobIds

CallType == call \in Calls /\ (uiAt \in {"dismiss", "resume"} => call.id \in JobIds)

LEMMA NoCallType == NoCall \in Calls
BY DEF NoCall, Calls, NoJob

LEMMA CallFields == ASSUME CallType PROVE call.ran \in BOOLEAN /\ call.load \in BOOLEAN
BY DEF CallType, Calls

LEMMA CallOfPoll ==
  ASSUME NEW i \in JobIds, NEW r \in BOOLEAN, NEW b \in BOOLEAN
  PROVE  /\ [NoCall EXCEPT !.id = i, !.resume = r, !.bad = b] \in Calls
         /\ [NoCall EXCEPT !.id = i, !.resume = r, !.bad = b].id = i
BY DEF NoCall, Calls

LEMMA CallOfPollIs ==
  ASSUME NEW i, NEW r, NEW b
  PROVE  /\ [NoCall EXCEPT !.id = i, !.resume = r, !.bad = b].id = i
         /\ [NoCall EXCEPT !.id = i, !.resume = r, !.bad = b].resume = r
         /\ [NoCall EXCEPT !.id = i, !.resume = r, !.bad = b].bad = b
BY DEF NoCall

LEMMA CallWorse ==
  ASSUME NEW c \in Calls
  PROVE  /\ [c EXCEPT !.bad = TRUE].bad = TRUE
         /\ [c EXCEPT !.bad = TRUE].id = c.id
         /\ [c EXCEPT !.bad = TRUE].resume = c.resume
BY DEF Calls

LEMMA CallOfAsk ==
  ASSUME NEW c \in Calls, NEW r \in BOOLEAN PROVE [c EXCEPT !.ran = r] \in Calls
BY DEF Calls

LEMMA FlagsStep == ASSUME Flags, CallType, [ControlNext]_controlVars PROVE Flags'
<1> USE DEF machine, window, controlHistory
<1>1. CASE PlayerUp
  BY <1>1, Zenon DEF Flags, PlayerUp
<1>2. CASE PlayerExits
  BY <1>2, Zenon DEF Flags, PlayerExits
<1>3. CASE \E id \in JobIds : \E outcome \in {"ok", "failed"} : JobConcludes(id, outcome)
  BY <1>3, Zenon DEF Flags, JobConcludes
<1>4. CASE PausedElsewhere
  BY <1>4, Zenon DEF Flags, PausedElsewhere
<1>5. CASE ResumedElsewhere
  BY <1>5, Zenon DEF Flags, ResumedElsewhere
<1>6. CASE Reap
  BY <1>6, Zenon DEF Flags, Reap, ReapIf
<1>7. CASE NothingClicked
  BY <1>7, Zenon DEF Flags, NothingClicked
<1>8. CASE Play
  BY <1>8, Zenon DEF Flags, Play
<1>9. CASE OpenWindow
  BY <1>9, Zenon DEF Flags, OpenWindow, RefreshList
<1>10. CASE WindowClosed
  BY <1>10, Zenon DEF Flags, WindowClosed
<1>11. CASE SetRunning
  BY <1>11, Zenon DEF Flags, SetRunning, SetRunningThen, RefreshList
<1>12. CASE NotPolled
  BY <1>12, Zenon DEF Flags, NotPolled
<1>13. CASE PollUnanswered
  BY <1>13, Zenon DEF Flags, PollUnanswered, Polled
<1>14. CASE PollGone
  BY <1>14, Zenon DEF Flags, PollGone, Polled, RefreshList
<1>15. CASE PollBusy
  BY <1>15, Zenon DEF Flags, PollBusy, Polled
<1>16. CASE PollConcluded
  BY <1>16, Zenon DEF Flags, PollConcluded, PollConcludedWith, Polled
<1>17. CASE Dismiss
  BY <1>17, Zenon DEF Flags, Dismiss
<1>18. CASE Resume
  BY <1>18, Zenon DEF Flags, Resume, Monitor
<1>19. CASE Reload
  BY <1>19, Zenon DEF Flags, Reload, ReloadThen
<1>20. CASE NoButton
  BY <1>20, Zenon DEF Flags, NoButton
<1>21. CASE CloseWindow
  BY <1>21, Zenon DEF Flags, CloseWindow
<1>22. CASE Offline
  BY <1>22, Zenon DEF Flags, Offline, OfflineDone, OfflineRefused
<1>23. CASE FindNode
  BY <1>23, Zenon DEF Flags, FindNode, NotStarted
<1>24. CASE AskRunning
  BY <1>24, Zenon DEF Flags, AskRunning, NotStarted
<1>25. CASE StopGuest
  BY <1>25, Zenon DEF Flags, StopGuest, NotStarted
<1>26. CASE Submit
  BY <1>26, CallFields, Zenon DEF Flags, Submit, SubmitThen, NotStarted
<1>27. CASE \E restores \in BOOLEAN : StartJob(restores)
  BY <1>27, Zenon DEF Flags, StartJob
<1>28. CASE UNCHANGED controlVars
  BY <1>28, Zenon DEF Flags, controlVars
<1> QED
  BY <1>1, <1>2, <1>3, <1>4, <1>5, <1>6, <1>7, <1>8, <1>9, <1>10, <1>11,
     <1>12, <1>13, <1>14, <1>15, <1>16, <1>17, <1>18, <1>19, <1>20, <1>21,
     <1>22, <1>23, <1>24, <1>25, <1>26, <1>27, <1>28
     DEF ControlNext, Qemu, Grid, Window, Poll, StartSteps

LEMMA ValuesStep == ASSUME Values, [ControlNext]_controlVars PROVE Values'
<1> USE ControlBoundsAssumption DEF NoJob, JobIds, Resting, Frame, Starting, Tidying, At, Goto,
        machine, window, controlHistory
<1>1. CASE PlayerUp
  BY <1>1 DEF Values, PlayerUp
<1>2. CASE PlayerExits
  BY <1>2 DEF Values, PlayerExits
<1>3. CASE \E id \in JobIds : \E outcome \in {"ok", "failed"} : JobConcludes(id, outcome)
  BY <1>3 DEF Values, JobConcludes
<1>4. CASE PausedElsewhere
  BY <1>4 DEF Values, PausedElsewhere
<1>5. CASE ResumedElsewhere
  BY <1>5 DEF Values, ResumedElsewhere
<1>6. CASE Reap
  BY <1>6 DEF Values, Reap, ReapIf
<1>7. CASE NothingClicked
  BY <1>7 DEF Values, NothingClicked
<1>8. CASE Play
  BY <1>8 DEF Values, Play
<1>9. CASE OpenWindow
  BY <1>9 DEF Values, OpenWindow, RefreshList, Fails, Succeeds
<1>10. CASE WindowClosed
  BY <1>10 DEF Values, WindowClosed
<1>11. CASE SetRunning
  BY <1>11 DEF Values, SetRunning, SetRunningThen, RefreshList, Fails, Succeeds
<1>12. CASE NotPolled
  BY <1>12 DEF Values, NotPolled
<1>13. CASE PollUnanswered
  BY <1>13 DEF Values, PollUnanswered, Polled, Fails, Succeeds
<1>14. CASE PollGone
  BY <1>14 DEF Values, PollGone, Polled, RefreshList, Fails, Succeeds
<1>15. CASE PollBusy
  BY <1>15 DEF Values, PollBusy, Polled
<1>16. CASE PollConcluded
  BY <1>16 DEF Values, PollConcluded, PollConcludedWith, Polled
<1>17. CASE Dismiss
  BY <1>17 DEF Values, Dismiss, Fails, Succeeds
<1>18. CASE Resume
  BY <1>18 DEF Values, Resume, Monitor, Fails, Succeeds
<1>19. CASE Reload
  BY <1>19 DEF Values, Reload, ReloadThen, Fails, Succeeds
<1>20. CASE NoButton
  BY <1>20 DEF Values, NoButton
<1>21. CASE CloseWindow
  BY <1>21 DEF Values, CloseWindow
<1>22. CASE Offline
  BY <1>22 DEF Values, Offline, OfflineDone, OfflineRefused, Fails, Succeeds
<1>23. CASE FindNode
  BY <1>23 DEF Values, FindNode, NotStarted, Fails, Succeeds
<1>24. CASE AskRunning
  BY <1>24 DEF Values, AskRunning, NotStarted, Fails, Succeeds
<1>25. CASE StopGuest
  <2>1. /\ uiAt = "stop"
        /\ UNCHANGED <<player, jobs, job, nextJob, plays>>
        /\ status' = status \/ status' = "none"
        /\ uiAt' = "submit" \/ Goto("reap")
        /\ Succeeds(Monitor) \/ Fails(Monitor)
    BY <1>25, Zenon DEF StopGuest, NotStarted
  <2> QED
    BY <2>1 DEF Values, Succeeds, Fails
<1>26. CASE Submit
  BY <1>26 DEF Values, Submit, SubmitThen, NotStarted, Fails, Succeeds, WithJob
<1>27. CASE \E restores \in BOOLEAN : StartJob(restores)
  BY <1>27 DEF Values, StartJob
<1>28. CASE UNCHANGED controlVars
  BY <1>28 DEF Values, controlVars
<1> QED
  BY <1>1, <1>2, <1>3, <1>4, <1>5, <1>6, <1>7, <1>8, <1>9, <1>10, <1>11,
     <1>12, <1>13, <1>14, <1>15, <1>16, <1>17, <1>18, <1>19, <1>20, <1>21,
     <1>22, <1>23, <1>24, <1>25, <1>26, <1>27, <1>28
     DEF ControlNext, Qemu, Grid, Window, Poll, StartSteps

LEMMA CallStep == ASSUME Flags, Values, CallType, [ControlNext]_controlVars PROVE CallType'
<1> USE ControlBoundsAssumption DEF NoJob, JobIds, Resting, Frame, Starting, Tidying, At, Goto,
        machine, window, controlHistory
<1>1. CASE PlayerUp
  BY <1>1 DEF CallType, PlayerUp
<1>2. CASE PlayerExits
  BY <1>2 DEF CallType, PlayerExits
<1>3. CASE \E id \in JobIds : \E outcome \in {"ok", "failed"} : JobConcludes(id, outcome)
  BY <1>3 DEF CallType, JobConcludes
<1>4. CASE PausedElsewhere
  BY <1>4 DEF CallType, PausedElsewhere
<1>5. CASE ResumedElsewhere
  BY <1>5 DEF CallType, ResumedElsewhere
<1>6. CASE Reap
  BY <1>6 DEF CallType, Reap, ReapIf
<1>7. CASE NothingClicked
  BY <1>7 DEF CallType, NothingClicked
<1>8. CASE Play
  BY <1>8 DEF CallType, Play
<1>9. CASE OpenWindow
  BY <1>9 DEF CallType, OpenWindow, RefreshList
<1>10. CASE WindowClosed
  BY <1>10 DEF CallType, WindowClosed
<1>11. CASE SetRunning
  BY <1>11 DEF CallType, SetRunning, SetRunningThen, RefreshList
<1>12. CASE NotPolled
  BY <1>12 DEF CallType, NotPolled
<1>13. CASE PollUnanswered
  BY <1>13 DEF CallType, PollUnanswered, Polled
<1>14. CASE PollGone
  BY <1>14 DEF CallType, PollGone, Polled, RefreshList
<1>15. CASE PollBusy
  BY <1>15 DEF CallType, PollBusy, Polled
<1>16. CASE PollConcluded
  <2> DEFINE bad == (jobs[job] = "failed")
  <2>1. job \in JobIds /\ uiAt' = "dismiss"
    BY <1>16 DEF PollConcluded, PollConcludedWith, Polled, Values
  <2>2. call' = [NoCall EXCEPT !.id = job, !.resume = resume, !.bad = bad]
    BY <1>16, Zenon DEF PollConcluded, PollConcludedWith
  <2>3. resume \in BOOLEAN /\ bad \in BOOLEAN
    BY Zenon DEF Flags
  <2> HIDE DEF bad
  <2>4. call' \in Calls /\ call'.id = job
    BY <2>1, <2>2, <2>3, CallOfPoll
  <2> QED
    BY <2>1, <2>4 DEF CallType
<1>17. CASE Dismiss
  BY <1>17 DEF CallType, Dismiss, NoCall, Calls
<1>18. CASE Resume
  BY <1>18 DEF CallType, Resume, Monitor, NoCall, Calls
<1>19. CASE Reload
  BY <1>19 DEF CallType, Reload, ReloadThen, NoCall, Calls
<1>20. CASE NoButton
  BY <1>20 DEF CallType, NoButton
<1>21. CASE CloseWindow
  BY <1>21 DEF CallType, CloseWindow
<1>22. CASE Offline
  BY <1>22 DEF CallType, Offline, OfflineDone, OfflineRefused
<1>23. CASE FindNode
  <2>1. call' = call \/ call' = NoCall
    BY <1>23, Zenon DEF FindNode, NotStarted
  <2>2. uiAt' \notin {"dismiss", "resume"}
    BY <1>23, FrontEndAssumption, Zenon DEF FindNode, NotStarted
  <2> QED
    BY <2>1, <2>2, NoCallType, Zenon DEF CallType
<1>24. CASE AskRunning
  <2>1. call' = [call EXCEPT !.ran = run] \/ call' = NoCall
    BY <1>24, Zenon DEF AskRunning, NotStarted
  <2>2. uiAt' \notin {"dismiss", "resume"}
    BY <1>24, FrontEndAssumption, Zenon DEF AskRunning, NotStarted
  <2> QED
    BY <2>1, <2>2, NoCallType, CallOfAsk, Zenon DEF CallType, Flags
<1>25. CASE StopGuest
  <2>1. call' = call \/ call' = NoCall
    BY <1>25, Zenon DEF StopGuest, NotStarted
  <2>2. uiAt' \notin {"dismiss", "resume"}
    BY <1>25, FrontEndAssumption, Zenon DEF StopGuest, NotStarted
  <2> QED
    BY <2>1, <2>2, NoCallType, Zenon DEF CallType
<1>26. CASE Submit
  <2>1. call' = call \/ call' = NoCall
    BY <1>26, Zenon DEF Submit, SubmitThen, NotStarted
  <2>2. uiAt' \notin {"dismiss", "resume"}
    BY <1>26, FrontEndAssumption, Zenon DEF Submit, SubmitThen, NotStarted
  <2> QED
    BY <2>1, <2>2, NoCallType, Zenon DEF CallType
<1>27. CASE \E restores \in BOOLEAN : StartJob(restores)
  BY <1>27 DEF CallType, StartJob, NoCall, Calls
<1>28. CASE UNCHANGED controlVars
  BY <1>28 DEF CallType, controlVars
<1> QED
  BY <1>1, <1>2, <1>3, <1>4, <1>5, <1>6, <1>7, <1>8, <1>9, <1>10, <1>11,
     <1>12, <1>13, <1>14, <1>15, <1>16, <1>17, <1>18, <1>19, <1>20, <1>21,
     <1>22, <1>23, <1>24, <1>25, <1>26, <1>27, <1>28
     DEF ControlNext, Qemu, Grid, Window, Poll, StartSteps

(***************************************************************************)
(* ranFor is only written by a job that QEMU has accepted.                 *)
(***************************************************************************)
Ran == ranFor \in [JobIds -> BOOLEAN]

LEMMA RanForStep == ASSUME Ran, Values, CallType, [ControlNext]_controlVars PROVE Ran'
<1> USE ControlBoundsAssumption DEF JobIds, machine, window, controlHistory
<1>1. CASE PlayerUp
  BY <1>1 DEF Ran, PlayerUp
<1>2. CASE PlayerExits
  BY <1>2 DEF Ran, PlayerExits
<1>3. CASE \E id \in JobIds : \E outcome \in {"ok", "failed"} : JobConcludes(id, outcome)
  BY <1>3 DEF Ran, JobConcludes
<1>4. CASE PausedElsewhere
  BY <1>4 DEF Ran, PausedElsewhere
<1>5. CASE ResumedElsewhere
  BY <1>5 DEF Ran, ResumedElsewhere
<1>6. CASE Reap
  BY <1>6 DEF Ran, Reap, ReapIf
<1>7. CASE NothingClicked
  BY <1>7 DEF Ran, NothingClicked
<1>8. CASE Play
  BY <1>8 DEF Ran, Play
<1>9. CASE OpenWindow
  BY <1>9 DEF Ran, OpenWindow, RefreshList
<1>10. CASE WindowClosed
  BY <1>10 DEF Ran, WindowClosed
<1>11. CASE SetRunning
  BY <1>11 DEF Ran, SetRunning, SetRunningThen, RefreshList
<1>12. CASE NotPolled
  BY <1>12 DEF Ran, NotPolled
<1>13. CASE PollUnanswered
  BY <1>13 DEF Ran, PollUnanswered, Polled
<1>14. CASE PollGone
  BY <1>14 DEF Ran, PollGone, Polled, RefreshList
<1>15. CASE PollBusy
  BY <1>15 DEF Ran, PollBusy, Polled
<1>16. CASE PollConcluded
  BY <1>16 DEF Ran, PollConcluded, PollConcludedWith, Polled
<1>17. CASE Dismiss
  BY <1>17 DEF Ran, Dismiss
<1>18. CASE Resume
  BY <1>18 DEF Ran, Resume, Monitor
<1>19. CASE Reload
  BY <1>19 DEF Ran, Reload, ReloadThen
<1>20. CASE NoButton
  BY <1>20 DEF Ran, NoButton
<1>21. CASE CloseWindow
  BY <1>21 DEF Ran, CloseWindow
<1>22. CASE Offline
  BY <1>22 DEF Ran, Offline, OfflineDone, OfflineRefused
<1>23. CASE FindNode
  BY <1>23 DEF Ran, FindNode, NotStarted
<1>24. CASE AskRunning
  BY <1>24 DEF Ran, AskRunning, NotStarted
<1>25. CASE StopGuest
  BY <1>25 DEF Ran, StopGuest, NotStarted
<1>26. CASE Submit
  <2>1. nextJob \in JobIds /\ call.ran \in BOOLEAN
    BY <1>26, CallFields DEF Submit, SubmitThen, Values, Starting
  <2>2. ranFor' = ranFor \/ ranFor' = [ranFor EXCEPT ![nextJob] = call.ran]
    BY <1>26, Zenon DEF Submit, SubmitThen
  <2> QED
    BY <2>1, <2>2 DEF Ran
<1>27. CASE \E restores \in BOOLEAN : StartJob(restores)
  BY <1>27 DEF Ran, StartJob
<1>28. CASE UNCHANGED controlVars
  BY <1>28 DEF Ran, controlVars
<1> QED
  BY <1>1, <1>2, <1>3, <1>4, <1>5, <1>6, <1>7, <1>8, <1>9, <1>10, <1>11,
     <1>12, <1>13, <1>14, <1>15, <1>16, <1>17, <1>18, <1>19, <1>20, <1>21,
     <1>22, <1>23, <1>24, <1>25, <1>26, <1>27, <1>28
     DEF ControlNext, Qemu, Grid, Window, Poll, StartSteps

LEMMA TypeParts == ControlTypeOK <=> Flags /\ Values /\ CallType /\ Ran
BY Zenon DEF ControlTypeOK, Flags, Values, CallType, Ran

LEMMA TypeInit == ASSUME ControlInit PROVE ControlTypeOK
<1> USE ControlInit
<1>1. Flags
  BY Zenon DEF ControlInit, Flags
<1>2. Values
  BY FrontEndAssumption, ControlBoundsAssumption
     DEF ControlInit, Values, NoJob, JobIds, Resting, Frame, Starting, Tidying
<1>3. CallType
  BY NoCallType, FrontEndAssumption, Zenon DEF ControlInit, CallType
<1>4. Ran
  BY DEF ControlInit, Ran
<1> QED
  BY <1>1, <1>2, <1>3, <1>4, TypeParts, Zenon

LEMMA TypeStep == ASSUME ControlTypeOK, [ControlNext]_controlVars PROVE ControlTypeOK'
<1>1. Flags /\ Values /\ CallType /\ Ran
  BY TypeParts, Zenon
<1>2. Flags' /\ Values' /\ CallType' /\ Ran'
  BY <1>1, FlagsStep, ValuesStep, CallStep, RanForStep, Zenon
<1> QED
  BY <1>2, Zenon DEF ControlTypeOK, Flags, Values, CallType, Ran

(* Every variable keeps its type, and a command has the job it is about.   *)
THEOREM ControlTypeCorrect == ControlSpec => []ControlTypeOK
BY TypeInit, TypeStep, PTL DEF ControlSpec

(***************************************************************************)
(* The running set is right at all times, and the egui window learns of it *)
(* before its buttons can be clicked.                                      *)
(***************************************************************************)
ChildKnown == child <=> player # "none"

LiveKnown ==
  FrontEnd = "egui" /\ open /\ uiAt \notin {"reap", "grid", "show"} => (live <=> child)

LEMMA ChildStep == ASSUME ChildKnown, [ControlNext]_controlVars PROVE ChildKnown'
<1> USE DEF machine, window, controlHistory
<1>1. CASE PlayerUp
  BY <1>1, Zenon DEF ChildKnown, PlayerUp
<1>2. CASE PlayerExits
  BY <1>2, Zenon DEF ChildKnown, PlayerExits
<1>3. CASE \E id \in JobIds : \E outcome \in {"ok", "failed"} : JobConcludes(id, outcome)
  BY <1>3, Zenon DEF ChildKnown, JobConcludes
<1>4. CASE PausedElsewhere
  BY <1>4, Zenon DEF ChildKnown, PausedElsewhere
<1>5. CASE ResumedElsewhere
  BY <1>5, Zenon DEF ChildKnown, ResumedElsewhere
<1>6. CASE Reap
  BY <1>6, Zenon DEF ChildKnown, Reap, ReapIf
<1>7. CASE NothingClicked
  BY <1>7, Zenon DEF ChildKnown, NothingClicked
<1>8. CASE Play
  BY <1>8, Zenon DEF ChildKnown, Play
<1>9. CASE OpenWindow
  BY <1>9, Zenon DEF ChildKnown, OpenWindow, RefreshList
<1>10. CASE WindowClosed
  BY <1>10, Zenon DEF ChildKnown, WindowClosed
<1>11. CASE SetRunning
  BY <1>11, Zenon DEF ChildKnown, SetRunning, SetRunningThen, RefreshList
<1>12. CASE NotPolled
  BY <1>12, Zenon DEF ChildKnown, NotPolled
<1>13. CASE PollUnanswered
  BY <1>13, Zenon DEF ChildKnown, PollUnanswered, Polled
<1>14. CASE PollGone
  BY <1>14, Zenon DEF ChildKnown, PollGone, Polled, RefreshList
<1>15. CASE PollBusy
  BY <1>15, Zenon DEF ChildKnown, PollBusy, Polled
<1>16. CASE PollConcluded
  BY <1>16, Zenon DEF ChildKnown, PollConcluded, PollConcludedWith, Polled
<1>17. CASE Dismiss
  BY <1>17, Zenon DEF ChildKnown, Dismiss
<1>18. CASE Resume
  BY <1>18, Zenon DEF ChildKnown, Resume, Monitor
<1>19. CASE Reload
  BY <1>19, Zenon DEF ChildKnown, Reload, ReloadThen
<1>20. CASE NoButton
  BY <1>20, Zenon DEF ChildKnown, NoButton
<1>21. CASE CloseWindow
  BY <1>21, Zenon DEF ChildKnown, CloseWindow
<1>22. CASE Offline
  BY <1>22, Zenon DEF ChildKnown, Offline, OfflineDone, OfflineRefused
<1>23. CASE FindNode
  BY <1>23, Zenon DEF ChildKnown, FindNode, NotStarted
<1>24. CASE AskRunning
  BY <1>24, Zenon DEF ChildKnown, AskRunning, NotStarted
<1>25. CASE StopGuest
  BY <1>25, Zenon DEF ChildKnown, StopGuest, NotStarted
<1>26. CASE Submit
  BY <1>26, Zenon DEF ChildKnown, Submit, SubmitThen, NotStarted
<1>27. CASE \E restores \in BOOLEAN : StartJob(restores)
  BY <1>27, Zenon DEF ChildKnown, StartJob
<1>28. CASE UNCHANGED controlVars
  BY <1>28, Zenon DEF ChildKnown, controlVars
<1> QED
  BY <1>1, <1>2, <1>3, <1>4, <1>5, <1>6, <1>7, <1>8, <1>9, <1>10, <1>11,
     <1>12, <1>13, <1>14, <1>15, <1>16, <1>17, <1>18, <1>19, <1>20, <1>21,
     <1>22, <1>23, <1>24, <1>25, <1>26, <1>27, <1>28
     DEF ControlNext, Qemu, Grid, Window, Poll, StartSteps

LEMMA LiveStep == ASSUME LiveKnown, [ControlNext]_controlVars PROVE LiveKnown'
<1> USE DEF machine, window, controlHistory, Goto, At
<1>1. CASE PlayerUp
  BY <1>1, Zenon DEF LiveKnown, PlayerUp
<1>2. CASE PlayerExits
  BY <1>2, Zenon DEF LiveKnown, PlayerExits
<1>3. CASE \E id \in JobIds : \E outcome \in {"ok", "failed"} : JobConcludes(id, outcome)
  <2>1. UNCHANGED <<uiAt, child, open, live>>
    BY <1>3, Zenon DEF JobConcludes
  <2> QED
    BY <2>1, Zenon DEF LiveKnown
<1>4. CASE PausedElsewhere
  BY <1>4, Zenon DEF LiveKnown, PausedElsewhere
<1>5. CASE ResumedElsewhere
  BY <1>5, Zenon DEF LiveKnown, ResumedElsewhere
<1>6. CASE Reap
  BY <1>6, Zenon DEF LiveKnown, Reap, ReapIf
<1>7. CASE NothingClicked
  BY <1>7, Zenon DEF LiveKnown, NothingClicked
<1>8. CASE Play
  BY <1>8, Zenon DEF LiveKnown, Play
<1>9. CASE OpenWindow
  BY <1>9, Zenon DEF LiveKnown, OpenWindow, RefreshList
<1>10. CASE WindowClosed
  BY <1>10, Zenon DEF LiveKnown, WindowClosed
<1>11. CASE SetRunning
  BY <1>11, Zenon DEF LiveKnown, SetRunning, SetRunningThen, RefreshList
<1>12. CASE NotPolled
  BY <1>12, Zenon DEF LiveKnown, NotPolled
<1>13. CASE PollUnanswered
  BY <1>13, Zenon DEF LiveKnown, PollUnanswered, Polled
<1>14. CASE PollGone
  BY <1>14, Zenon DEF LiveKnown, PollGone, Polled, RefreshList
<1>15. CASE PollBusy
  BY <1>15, Zenon DEF LiveKnown, PollBusy, Polled
<1>16. CASE PollConcluded
  BY <1>16, Zenon DEF LiveKnown, PollConcluded, PollConcludedWith, Polled
<1>17. CASE Dismiss
  BY <1>17, Zenon DEF LiveKnown, Dismiss
<1>18. CASE Resume
  BY <1>18, Zenon DEF LiveKnown, Resume, Monitor
<1>19. CASE Reload
  <2>1. uiAt = "reload" /\ UNCHANGED <<child, open, live>>
    BY <1>19, Zenon DEF Reload, ReloadThen
  <2> QED
    BY <2>1, Zenon DEF LiveKnown
<1>20. CASE NoButton
  BY <1>20, Zenon DEF LiveKnown, NoButton
<1>21. CASE CloseWindow
  BY <1>21, Zenon DEF LiveKnown, CloseWindow
<1>22. CASE Offline
  BY <1>22, Zenon DEF LiveKnown, Offline, OfflineDone, OfflineRefused, Offered
<1>23. CASE FindNode
  BY <1>23, Zenon DEF LiveKnown, FindNode, NotStarted
<1>24. CASE AskRunning
  BY <1>24, Zenon DEF LiveKnown, AskRunning, NotStarted
<1>25. CASE StopGuest
  BY <1>25, Zenon DEF LiveKnown, StopGuest, NotStarted
<1>26. CASE Submit
  BY <1>26, Zenon DEF LiveKnown, Submit, SubmitThen, NotStarted
<1>27. CASE \E restores \in BOOLEAN : StartJob(restores)
  <2>1. uiAt \in {"buttons", "loop"} /\ UNCHANGED <<child, open, live>>
    BY <1>27, Zenon DEF StartJob, Offered
  <2> QED
    BY <2>1, Zenon DEF LiveKnown
<1>28. CASE UNCHANGED controlVars
  BY <1>28, Zenon DEF LiveKnown, controlVars
<1> QED
  BY <1>1, <1>2, <1>3, <1>4, <1>5, <1>6, <1>7, <1>8, <1>9, <1>10, <1>11,
     <1>12, <1>13, <1>14, <1>15, <1>16, <1>17, <1>18, <1>19, <1>20, <1>21,
     <1>22, <1>23, <1>24, <1>25, <1>26, <1>27, <1>28
     DEF ControlNext, Qemu, Grid, Window, Poll, StartSteps

(* qemu-img is never run on the image of a machine that has a player: the  *)
(* egui launcher, for any number of players, jobs and faults.              *)
THEOREM OfflineIsSafe == ASSUME FrontEnd = "egui" PROVE ControlSpec => OfflineOnlyWhenStopped
<1>1. ControlInit => ChildKnown /\ LiveKnown
  BY Zenon DEF ControlInit, ChildKnown, LiveKnown
<1>2. ASSUME ChildKnown /\ LiveKnown, [ControlNext]_controlVars PROVE (ChildKnown /\ LiveKnown)'
  BY <1>2, ChildStep, LiveStep, Zenon
<1>3. ASSUME ChildKnown /\ LiveKnown, Offline PROVE ImageFree
  BY <1>3, FrontEnd = "egui" DEF ChildKnown, LiveKnown, Offline, Offered, At, ImageFree
<1> QED
  BY <1>1, <1>2, <1>3, PTL DEF ControlSpec, OfflineOnlyWhenStopped

(***************************************************************************)
(* Whether to resume is always that of the job at hand: in the window      *)
(* while it waits, in the handler's locals while it tidies up.             *)
(***************************************************************************)
Waiting == job # NoJob /\ resume => ranFor[job]

Tidies ==
  /\ uiAt \in {"dismiss", "resume"} /\ call.resume => ranFor[call.id]
  /\ uiAt = "resume" => call.resume

LEMMA WaitingStep == ASSUME Waiting, Values, Ran, [ControlNext]_controlVars PROVE Waiting'
<1> USE DEF machine, window, controlHistory
<1>1. CASE PlayerUp
  BY <1>1, Zenon DEF Waiting, PlayerUp
<1>2. CASE PlayerExits
  BY <1>2, Zenon DEF Waiting, PlayerExits
<1>3. CASE \E id \in JobIds : \E outcome \in {"ok", "failed"} : JobConcludes(id, outcome)
  <2>1. UNCHANGED <<job, resume, ranFor>>
    BY <1>3, Zenon DEF JobConcludes
  <2> QED
    BY <2>1, Zenon DEF Waiting
<1>4. CASE PausedElsewhere
  BY <1>4, Zenon DEF Waiting, PausedElsewhere
<1>5. CASE ResumedElsewhere
  BY <1>5, Zenon DEF Waiting, ResumedElsewhere
<1>6. CASE Reap
  BY <1>6, Zenon DEF Waiting, Reap, ReapIf
<1>7. CASE NothingClicked
  BY <1>7, Zenon DEF Waiting, NothingClicked
<1>8. CASE Play
  BY <1>8, Zenon DEF Waiting, Play
<1>9. CASE OpenWindow
  BY <1>9, Zenon DEF Waiting, OpenWindow, RefreshList
<1>10. CASE WindowClosed
  BY <1>10, Zenon DEF Waiting, WindowClosed
<1>11. CASE SetRunning
  BY <1>11, Zenon DEF Waiting, SetRunning, SetRunningThen, RefreshList
<1>12. CASE NotPolled
  BY <1>12, Zenon DEF Waiting, NotPolled
<1>13. CASE PollUnanswered
  BY <1>13, Zenon DEF Waiting, PollUnanswered, Polled
<1>14. CASE PollGone
  BY <1>14, Zenon DEF Waiting, PollGone, Polled, RefreshList
<1>15. CASE PollBusy
  BY <1>15, Zenon DEF Waiting, PollBusy, Polled
<1>16. CASE PollConcluded
  BY <1>16, Zenon DEF Waiting, PollConcluded, PollConcludedWith, Polled
<1>17. CASE Dismiss
  BY <1>17, Zenon DEF Waiting, Dismiss
<1>18. CASE Resume
  BY <1>18, Zenon DEF Waiting, Resume, Monitor
<1>19. CASE Reload
  <2>1. UNCHANGED <<job, resume, ranFor>>
    BY <1>19, Zenon DEF Reload, ReloadThen
  <2> QED
    BY <2>1, Zenon DEF Waiting
<1>20. CASE NoButton
  BY <1>20, Zenon DEF Waiting, NoButton
<1>21. CASE CloseWindow
  BY <1>21, Zenon DEF Waiting, CloseWindow
<1>22. CASE Offline
  BY <1>22, Zenon DEF Waiting, Offline, OfflineDone, OfflineRefused
<1>23. CASE FindNode
  BY <1>23, Zenon DEF Waiting, FindNode, NotStarted
<1>24. CASE AskRunning
  BY <1>24, Zenon DEF Waiting, AskRunning, NotStarted
<1>25. CASE StopGuest
  BY <1>25, Zenon DEF Waiting, StopGuest, NotStarted
<1>26. CASE Submit
  <2>1. CASE resume' = FALSE
    BY <2>1, Zenon DEF Waiting
  <2>2. CASE /\ job' = nextJob /\ resume' = call.ran
             /\ ranFor' = [ranFor EXCEPT ![nextJob] = call.ran]
    <3>1. nextJob \in JobIds
      BY <1>26, Zenon DEF Submit, SubmitThen, Values, Starting
    <3>2. ranFor'[nextJob] = call.ran
      BY <2>2, <3>1 DEF Ran
    <3> QED
      BY <2>2, <3>2, Zenon DEF Waiting
  <2> QED
    BY <1>26, <2>1, <2>2, Zenon DEF Submit, SubmitThen, NotStarted
<1>27. CASE \E restores \in BOOLEAN : StartJob(restores)
  <2>1. UNCHANGED <<job, resume, ranFor>>
    BY <1>27, Zenon DEF StartJob
  <2> QED
    BY <2>1, Zenon DEF Waiting
<1>28. CASE UNCHANGED controlVars
  BY <1>28, Zenon DEF Waiting, controlVars
<1> QED
  BY <1>1, <1>2, <1>3, <1>4, <1>5, <1>6, <1>7, <1>8, <1>9, <1>10, <1>11,
     <1>12, <1>13, <1>14, <1>15, <1>16, <1>17, <1>18, <1>19, <1>20, <1>21,
     <1>22, <1>23, <1>24, <1>25, <1>26, <1>27, <1>28
     DEF ControlNext, Qemu, Grid, Window, Poll, StartSteps

LEMMA TidiesStep == ASSUME Tidies, Waiting, CallType, Values, [ControlNext]_controlVars PROVE Tidies'
<1> USE DEF machine, window, controlHistory, Goto, At
<1>1. CASE PlayerUp
  BY <1>1, Zenon DEF Tidies, PlayerUp
<1>2. CASE PlayerExits
  BY <1>2, Zenon DEF Tidies, PlayerExits
<1>3. CASE \E id \in JobIds : \E outcome \in {"ok", "failed"} : JobConcludes(id, outcome)
  BY <1>3, Zenon DEF Tidies, JobConcludes
<1>4. CASE PausedElsewhere
  BY <1>4, Zenon DEF Tidies, PausedElsewhere
<1>5. CASE ResumedElsewhere
  BY <1>5, Zenon DEF Tidies, ResumedElsewhere
<1>6. CASE Reap
  BY <1>6, Zenon DEF Tidies, Reap, ReapIf
<1>7. CASE NothingClicked
  BY <1>7, Zenon DEF Tidies, NothingClicked
<1>8. CASE Play
  BY <1>8, Zenon DEF Tidies, Play
<1>9. CASE OpenWindow
  BY <1>9, Zenon DEF Tidies, OpenWindow, RefreshList
<1>10. CASE WindowClosed
  BY <1>10, Zenon DEF Tidies, WindowClosed
<1>11. CASE SetRunning
  BY <1>11, Zenon DEF Tidies, SetRunning, SetRunningThen, RefreshList
<1>12. CASE NotPolled
  BY <1>12, Zenon DEF Tidies, NotPolled
<1>13. CASE PollUnanswered
  BY <1>13, Zenon DEF Tidies, PollUnanswered, Polled
<1>14. CASE PollGone
  BY <1>14, Zenon DEF Tidies, PollGone, Polled, RefreshList
<1>15. CASE PollBusy
  BY <1>15, Zenon DEF Tidies, PollBusy, Polled
<1>16. CASE PollConcluded
  <2> DEFINE bad == (jobs[job] = "failed")
  <2>1. job # NoJob /\ uiAt' = "dismiss" /\ ranFor' = ranFor
    BY <1>16, Zenon DEF PollConcluded, PollConcludedWith, Polled
  <2>2. call' = [NoCall EXCEPT !.id = job, !.resume = resume, !.bad = bad]
    BY <1>16, Zenon DEF PollConcluded, PollConcludedWith
  <2> HIDE DEF bad
  <2>3. call'.id = job /\ call'.resume = resume
    BY <2>2, CallOfPollIs
  <2> QED
    BY <2>1, <2>3, Zenon DEF Tidies, Waiting
<1>17. CASE Dismiss
  BY <1>17, Zenon DEF Tidies, Dismiss
<1>18. CASE Resume
  BY <1>18, Zenon DEF Tidies, Resume, Monitor
<1>19. CASE Reload
  BY <1>19, Zenon DEF Tidies, Reload, ReloadThen
<1>20. CASE NoButton
  BY <1>20, Zenon DEF Tidies, NoButton
<1>21. CASE CloseWindow
  BY <1>21, Zenon DEF Tidies, CloseWindow
<1>22. CASE Offline
  BY <1>22, Zenon DEF Tidies, Offline, OfflineDone, OfflineRefused
<1>23. CASE FindNode
  BY <1>23, Zenon DEF Tidies, FindNode, NotStarted
<1>24. CASE AskRunning
  BY <1>24, Zenon DEF Tidies, AskRunning, NotStarted
<1>25. CASE StopGuest
  BY <1>25, Zenon DEF Tidies, StopGuest, NotStarted
<1>26. CASE Submit
  BY <1>26, Zenon DEF Tidies, Submit, SubmitThen, NotStarted
<1>27. CASE \E restores \in BOOLEAN : StartJob(restores)
  BY <1>27, Zenon DEF Tidies, StartJob
<1>28. CASE UNCHANGED controlVars
  BY <1>28, Zenon DEF Tidies, controlVars
<1> QED
  BY <1>1, <1>2, <1>3, <1>4, <1>5, <1>6, <1>7, <1>8, <1>9, <1>10, <1>11,
     <1>12, <1>13, <1>14, <1>15, <1>16, <1>17, <1>18, <1>19, <1>20, <1>21,
     <1>22, <1>23, <1>24, <1>25, <1>26, <1>27, <1>28
     DEF ControlNext, Qemu, Grid, Window, Poll, StartSteps

(* A guest that a load did not find running is not resumed by the window,  *)
(* whatever became of jobs and players in between: for either front end.   *)
THEOREM ResumesAreOwed == ControlSpec => ResumesOnlyWhatRan
<1> DEFINE Inv == ControlTypeOK /\ Waiting /\ Tidies
<1>1. ControlInit => Inv
  <2>1. ASSUME ControlInit PROVE Waiting /\ Tidies
    BY <2>1, FrontEndAssumption, Zenon DEF ControlInit, Waiting, Tidies
  <2> QED
    BY <2>1, TypeInit, Zenon
<1>2. ASSUME Inv, [ControlNext]_controlVars PROVE Inv'
  BY <1>2, TypeParts, TypeStep, WaitingStep, TidiesStep, Zenon
<1>3. ASSUME Inv, Resume PROVE ranFor[call.id]
  BY <1>3, Zenon DEF Tidies, Resume
<1> QED
  BY <1>1, <1>2, <1>3, PTL DEF ControlSpec, ResumesOnlyWhatRan

(***************************************************************************)
(* While poll_now tidies up, a job's failure is in its locals.             *)
(***************************************************************************)
FailureHeld == failed /\ uiAt \in Tidying => call.bad

FailureShown == failed /\ uiAt \notin Tidying => error /\ status # "done"

LEMMA HeldStep == ASSUME FailureHeld, CallType, [ControlNext]_controlVars PROVE FailureHeld'
<1> USE DEF machine, window, controlHistory, Goto, At, Tidying
<1>1. CASE PlayerUp
  BY <1>1, Zenon DEF FailureHeld, PlayerUp
<1>2. CASE PlayerExits
  BY <1>2, Zenon DEF FailureHeld, PlayerExits
<1>3. CASE \E id \in JobIds : \E outcome \in {"ok", "failed"} : JobConcludes(id, outcome)
  <2>1. UNCHANGED <<uiAt, call, failed>>
    BY <1>3, Zenon DEF JobConcludes
  <2> QED
    BY <2>1, Zenon DEF FailureHeld
<1>4. CASE PausedElsewhere
  BY <1>4, Zenon DEF FailureHeld, PausedElsewhere
<1>5. CASE ResumedElsewhere
  BY <1>5, Zenon DEF FailureHeld, ResumedElsewhere
<1>6. CASE Reap
  BY <1>6, Zenon DEF FailureHeld, Reap, ReapIf
<1>7. CASE NothingClicked
  BY <1>7, Zenon DEF FailureHeld, NothingClicked
<1>8. CASE Play
  BY <1>8, Zenon DEF FailureHeld, Play
<1>9. CASE OpenWindow
  BY <1>9, Zenon DEF FailureHeld, OpenWindow, RefreshList
<1>10. CASE WindowClosed
  BY <1>10, Zenon DEF FailureHeld, WindowClosed
<1>11. CASE SetRunning
  BY <1>11, Zenon DEF FailureHeld, SetRunning, SetRunningThen, RefreshList
<1>12. CASE NotPolled
  BY <1>12, Zenon DEF FailureHeld, NotPolled
<1>13. CASE PollUnanswered
  BY <1>13, Zenon DEF FailureHeld, PollUnanswered, Polled
<1>14. CASE PollGone
  BY <1>14, Zenon DEF FailureHeld, PollGone, Polled, RefreshList
<1>15. CASE PollBusy
  BY <1>15, Zenon DEF FailureHeld, PollBusy, Polled
<1>16. CASE PollConcluded
  <2> DEFINE bad == (jobs[job] = "failed")
  <2>1. failed' = bad
    BY <1>16, Zenon DEF PollConcluded, PollConcludedWith
  <2>2. call' = [NoCall EXCEPT !.id = job, !.resume = resume, !.bad = bad]
    BY <1>16, Zenon DEF PollConcluded, PollConcludedWith
  <2> HIDE DEF bad
  <2>3. call'.bad = bad
    BY <2>2, CallOfPollIs
  <2> QED
    BY <2>1, <2>3, Zenon DEF FailureHeld
<1>17. CASE Dismiss
  <2>1. failed' = failed /\ (call' = call \/ call' = [call EXCEPT !.bad = TRUE])
    BY <1>17, Zenon DEF Dismiss
  <2>2. uiAt \in {"dismiss", "resume"}
    BY <1>17, Zenon DEF Dismiss
  <2> QED
    BY <2>1, <2>2, CallWorse, Zenon DEF FailureHeld, CallType
<1>18. CASE Resume
  <2>1. failed' = failed /\ (call' = call \/ call' = [call EXCEPT !.bad = TRUE])
    BY <1>18, Zenon DEF Resume
  <2>2. uiAt \in {"dismiss", "resume"}
    BY <1>18, Zenon DEF Resume
  <2> QED
    BY <2>1, <2>2, CallWorse, Zenon DEF FailureHeld, CallType
<1>19. CASE Reload
  BY <1>19, Zenon DEF FailureHeld, Reload, ReloadThen
<1>20. CASE NoButton
  BY <1>20, Zenon DEF FailureHeld, NoButton
<1>21. CASE CloseWindow
  BY <1>21, Zenon DEF FailureHeld, CloseWindow
<1>22. CASE Offline
  BY <1>22, Zenon DEF FailureHeld, Offline, OfflineDone, OfflineRefused
<1>23. CASE FindNode
  BY <1>23, Zenon DEF FailureHeld, FindNode, NotStarted
<1>24. CASE AskRunning
  BY <1>24, Zenon DEF FailureHeld, AskRunning, NotStarted
<1>25. CASE StopGuest
  BY <1>25, Zenon DEF FailureHeld, StopGuest, NotStarted
<1>26. CASE Submit
  BY <1>26, Zenon DEF FailureHeld, Submit, SubmitThen, NotStarted
<1>27. CASE \E restores \in BOOLEAN : StartJob(restores)
  BY <1>27, Zenon DEF FailureHeld, StartJob
<1>28. CASE UNCHANGED controlVars
  BY <1>28, Zenon DEF FailureHeld, controlVars
<1> QED
  BY <1>1, <1>2, <1>3, <1>4, <1>5, <1>6, <1>7, <1>8, <1>9, <1>10, <1>11,
     <1>12, <1>13, <1>14, <1>15, <1>16, <1>17, <1>18, <1>19, <1>20, <1>21,
     <1>22, <1>23, <1>24, <1>25, <1>26, <1>27, <1>28
     DEF ControlNext, Qemu, Grid, Window, Poll, StartSteps

LEMMA ShownStep == ASSUME FailureShown, FailureHeld, [ControlNext]_controlVars PROVE FailureShown'
<1> USE DEF machine, window, controlHistory, Goto, At, Tidying
<1>1. CASE PlayerUp
  BY <1>1, Zenon DEF FailureShown, PlayerUp
<1>2. CASE PlayerExits
  BY <1>2, Zenon DEF FailureShown, PlayerExits
<1>3. CASE \E id \in JobIds : \E outcome \in {"ok", "failed"} : JobConcludes(id, outcome)
  <2>1. UNCHANGED <<uiAt, error, status, failed>>
    BY <1>3, Zenon DEF JobConcludes
  <2> QED
    BY <2>1, Zenon DEF FailureShown
<1>4. CASE PausedElsewhere
  BY <1>4, Zenon DEF FailureShown, PausedElsewhere
<1>5. CASE ResumedElsewhere
  BY <1>5, Zenon DEF FailureShown, ResumedElsewhere
<1>6. CASE Reap
  BY <1>6, Zenon DEF FailureShown, Reap, ReapIf
<1>7. CASE NothingClicked
  BY <1>7, Zenon DEF FailureShown, NothingClicked
<1>8. CASE Play
  BY <1>8, Zenon DEF FailureShown, Play
<1>9. CASE OpenWindow
  BY <1>9, Zenon DEF FailureShown, OpenWindow, RefreshList
<1>10. CASE WindowClosed
  BY <1>10, Zenon DEF FailureShown, WindowClosed
<1>11. CASE SetRunning
  BY <1>11, Zenon DEF FailureShown, SetRunning, SetRunningThen, RefreshList
<1>12. CASE NotPolled
  BY <1>12, Zenon DEF FailureShown, NotPolled
<1>13. CASE PollUnanswered
  BY <1>13, Zenon DEF FailureShown, PollUnanswered, Polled
<1>14. CASE PollGone
  BY <1>14, Zenon DEF FailureShown, PollGone, Polled, RefreshList
<1>15. CASE PollBusy
  BY <1>15, Zenon DEF FailureShown, PollBusy, Polled
<1>16. CASE PollConcluded
  BY <1>16, Zenon DEF FailureShown, PollConcluded, PollConcludedWith, Polled
<1>17. CASE Dismiss
  BY <1>17, Zenon DEF FailureShown, Dismiss
<1>18. CASE Resume
  BY <1>18, Zenon DEF FailureShown, Resume, Monitor
<1>19. CASE Reload
  <2>1. uiAt = "reload" /\ failed' = failed
    BY <1>19, Zenon DEF Reload, ReloadThen
  <2>2. call.bad => error' = TRUE /\ status' = "none"
    BY <1>19, Zenon DEF Reload, ReloadThen
  <2> QED
    BY <2>1, <2>2, Zenon DEF FailureHeld, FailureShown
<1>20. CASE NoButton
  BY <1>20, Zenon DEF FailureShown, NoButton
<1>21. CASE CloseWindow
  BY <1>21, Zenon DEF FailureShown, CloseWindow
<1>22. CASE Offline
  BY <1>22, Zenon DEF FailureShown, Offline, OfflineDone, OfflineRefused
<1>23. CASE FindNode
  BY <1>23, Zenon DEF FailureShown, FindNode, NotStarted
<1>24. CASE AskRunning
  BY <1>24, Zenon DEF FailureShown, AskRunning, NotStarted
<1>25. CASE StopGuest
  BY <1>25, Zenon DEF FailureShown, StopGuest, NotStarted
<1>26. CASE Submit
  BY <1>26, Zenon DEF FailureShown, Submit, SubmitThen, NotStarted
<1>27. CASE \E restores \in BOOLEAN : StartJob(restores)
  <2>1. uiAt \in {"buttons", "loop"} /\ UNCHANGED <<error, status, failed>>
    BY <1>27, Zenon DEF StartJob, Offered
  <2> QED
    BY <2>1, Zenon DEF FailureShown
<1>28. CASE UNCHANGED controlVars
  BY <1>28, Zenon DEF FailureShown, controlVars
<1> QED
  BY <1>1, <1>2, <1>3, <1>4, <1>5, <1>6, <1>7, <1>8, <1>9, <1>10, <1>11,
     <1>12, <1>13, <1>14, <1>15, <1>16, <1>17, <1>18, <1>19, <1>20, <1>21,
     <1>22, <1>23, <1>24, <1>25, <1>26, <1>27, <1>28
     DEF ControlNext, Qemu, Grid, Window, Poll, StartSteps

(* A job's failure stays on the window until a new operation, or the       *)
(* machine's start or stop, takes its place.                               *)
THEOREM FailuresStay == ControlSpec => []FailureStays
<1> DEFINE Inv == ControlTypeOK /\ FailureHeld /\ FailureShown
<1>1. ControlInit => Inv
  <2>1. ASSUME ControlInit PROVE FailureHeld /\ FailureShown
    BY <2>1, Zenon DEF ControlInit, FailureHeld, FailureShown
  <2> QED
    BY <2>1, TypeInit, Zenon
<1>2. ASSUME Inv, [ControlNext]_controlVars PROVE Inv'
  BY <1>2, TypeParts, TypeStep, HeldStep, ShownStep, Zenon
<1>3. Inv => FailureStays
  BY Zenon DEF FailureShown, FailureStays, InCommand
<1> QED
  BY <1>1, <1>2, <1>3, PTL DEF ControlSpec
(***************************************************************************)
(* The list.  Outside of the tidying, which ends by reading it, a window   *)
(* without a job and without an error has read its list: the error stands  *)
(* for every way the list could not be read, a job for the operation that  *)
(* has still to end.                                                       *)
(***************************************************************************)
ListRead == open /\ uiAt \notin Tidying /\ job = NoJob /\ ~error => ~stale

(* What a window does when it reads its list. *)
LEMMA RefreshReads ==
  ASSUME NEW fromMonitor, RefreshList(fromMonitor)
  PROVE  ~error' => ~stale'
BY Zenon DEF RefreshList

LEMMA NoJobIsNone == NoJob \notin JobIds
BY DEF NoJob, JobIds

LEMMA ListStep == ASSUME ListRead, ControlTypeOK, [ControlNext]_controlVars PROVE ListRead'
<1> USE DEF machine, window, controlHistory, Goto, At, Tidying
<1>1. CASE PlayerUp
  BY <1>1, Zenon DEF ListRead, PlayerUp
<1>2. CASE PlayerExits
  BY <1>2, Zenon DEF ListRead, PlayerExits
<1>3. CASE \E id \in JobIds : \E outcome \in {"ok", "failed"} : JobConcludes(id, outcome)
  <2>1. PICK id \in JobIds : \E outcome \in {"ok", "failed"} : JobConcludes(id, outcome)
    BY <1>3, Zenon
  <2>2. UNCHANGED <<open, uiAt, job, error>>
    BY <2>1, Zenon DEF JobConcludes
  <2>3. stale' => stale \/ id = job
    BY <2>1, Zenon DEF JobConcludes
  <2> QED
    BY <2>2, <2>3, NoJobIsNone, Zenon DEF ListRead
<1>4. CASE PausedElsewhere
  BY <1>4, Zenon DEF ListRead, PausedElsewhere
<1>5. CASE ResumedElsewhere
  BY <1>5, Zenon DEF ListRead, ResumedElsewhere
<1>6. CASE Reap
  <2>1. uiAt \notin Tidying /\ UNCHANGED <<open, job, error, stale>>
    BY <1>6, Zenon DEF Reap, ReapIf
  <2> QED
    BY <2>1, Zenon DEF ListRead
<1>7. CASE NothingClicked
  <2>1. uiAt \notin Tidying /\ UNCHANGED <<open, job, error, stale>>
    BY <1>7, Zenon DEF NothingClicked
  <2> QED
    BY <2>1, Zenon DEF ListRead
<1>8. CASE Play
  <2>1. uiAt \notin Tidying /\ UNCHANGED <<open, job, error, stale>>
    BY <1>8, Zenon DEF Play
  <2> QED
    BY <2>1, Zenon DEF ListRead
<1>9. CASE OpenWindow
  BY <1>9, RefreshReads, Zenon DEF ListRead, OpenWindow
<1>10. CASE WindowClosed
  <2>1. uiAt \notin Tidying /\ UNCHANGED <<open, job, error, stale>>
    BY <1>10, Zenon DEF WindowClosed
  <2> QED
    BY <2>1, Zenon DEF ListRead
<1>11. CASE SetRunning
  <2>1. CASE live = child
    <3>1. uiAt \notin Tidying /\ UNCHANGED <<open, job, error, stale>>
      BY <1>11, <2>1, Zenon DEF SetRunning, SetRunningThen
    <3> QED
      BY <3>1, Zenon DEF ListRead
  <2>2. CASE live # child
    <3>1. RefreshList(child)
      BY <1>11, <2>2, Zenon DEF SetRunning, SetRunningThen
    <3> QED
      BY <3>1, RefreshReads, Zenon DEF ListRead
  <2> QED
    BY <2>1, <2>2, Zenon
<1>12. CASE NotPolled
  <2>1. uiAt \notin Tidying /\ UNCHANGED <<open, job, error, stale>>
    BY <1>12, Zenon DEF NotPolled
  <2> QED
    BY <2>1, Zenon DEF ListRead
<1>13. CASE PollUnanswered
  BY <1>13, Zenon DEF ListRead, PollUnanswered
<1>14. CASE PollGone
  BY <1>14, RefreshReads, Zenon DEF ListRead, PollGone
<1>15. CASE PollBusy
  BY <1>15, Zenon DEF ListRead, PollBusy, Polled
<1>16. CASE PollConcluded
  BY <1>16, Zenon DEF ListRead, PollConcluded, PollConcludedWith
<1>17. CASE Dismiss
  BY <1>17, Zenon DEF ListRead, Dismiss
<1>18. CASE Resume
  BY <1>18, Zenon DEF ListRead, Resume
<1>19. CASE Reload
  BY <1>19, Zenon DEF ListRead, Reload, ReloadThen
<1>20. CASE NoButton
  <2>1. uiAt \notin Tidying /\ UNCHANGED <<open, job, error, stale>>
    BY <1>20, Zenon DEF NoButton
  <2> QED
    BY <2>1, Zenon DEF ListRead
<1>21. CASE CloseWindow
  BY <1>21, Zenon DEF ListRead, CloseWindow
<1>22. CASE Offline
  BY <1>22, Zenon DEF ListRead, Offline, OfflineDone, OfflineRefused
<1>23. CASE FindNode
  <2>1. uiAt = "node" /\ UNCHANGED <<open, job, stale>> /\ (error' = error \/ error' = TRUE)
    BY <1>23, Zenon DEF FindNode, NotStarted
  <2> QED
    BY <2>1, Zenon DEF ListRead
<1>24. CASE AskRunning
  <2>1. uiAt = "ask" /\ UNCHANGED <<open, job, stale>> /\ (error' = error \/ error' = TRUE)
    BY <1>24, Zenon DEF AskRunning, NotStarted
  <2> QED
    BY <2>1, Zenon DEF ListRead
<1>25. CASE StopGuest
  <2>1. uiAt = "stop" /\ UNCHANGED <<open, job, stale>> /\ (error' = error \/ error' = TRUE)
    BY <1>25, Zenon DEF StopGuest, NotStarted
  <2> QED
    BY <2>1, Zenon DEF ListRead
<1>26. CASE Submit
  <2>1. CASE error' = TRUE
    BY <2>1, Zenon DEF ListRead
  <2>2. CASE error' # TRUE
    <3>1. nextJob \in JobIds /\ job' = nextJob
      BY <1>26, <2>2, Zenon DEF Submit, SubmitThen, NotStarted, ControlTypeOK, Starting
    <3> QED
      BY <3>1, NoJobIsNone, Zenon DEF ListRead
  <2> QED
    BY <2>1, <2>2, Zenon
<1>27. CASE \E restores \in BOOLEAN : StartJob(restores)
  <2>1. uiAt \in {"buttons", "loop"} /\ UNCHANGED <<open, job, error, stale>>
    BY <1>27, Zenon DEF StartJob, Offered
  <2> QED
    BY <2>1, Zenon DEF ListRead
<1>28. CASE UNCHANGED controlVars
  BY <1>28, Zenon DEF ListRead, controlVars
<1> QED
  BY <1>1, <1>2, <1>3, <1>4, <1>5, <1>6, <1>7, <1>8, <1>9, <1>10, <1>11,
     <1>12, <1>13, <1>14, <1>15, <1>16, <1>17, <1>18, <1>19, <1>20, <1>21,
     <1>22, <1>23, <1>24, <1>25, <1>26, <1>27, <1>28
     DEF ControlNext, Qemu, Grid, Window, Poll, StartSteps

(* A window that has ended an operation without an error shows the list as *)
(* it is: it was read since, whatever way the operation ended.             *)
THEOREM ListsAreRead == ControlSpec => []ListIsCurrent
<1> DEFINE Inv == ControlTypeOK /\ ListRead
<1>1. ControlInit => Inv
  <2>1. ASSUME ControlInit PROVE ListRead
    BY <2>1, Zenon DEF ControlInit, ListRead
  <2> QED
    BY <2>1, TypeInit, Zenon
<1>2. ASSUME Inv, [ControlNext]_controlVars PROVE Inv'
  BY <1>2, TypeStep, ListStep, Zenon
<1>3. Inv => ListIsCurrent
  BY Zenon DEF ListRead, ListIsCurrent, InCommand
<1> QED
  BY <1>1, <1>2, <1>3, PTL DEF ControlSpec
===========================================================================
