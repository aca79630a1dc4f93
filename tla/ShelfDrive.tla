----------------------------- MODULE ShelfDrive -----------------------------
(***************************************************************************)
(* Changing discs from inside the guest.                                   *)
(*                                                                         *)
(*   patches/qemu/52-atapi-disc-shelf.patch   the drive: LIST, LOAD, EJECT *)
(*                          and the bottom half (BH) that moves the tray   *)
(*   guest-tools/src/cdshelf.c                the guest's program          *)
(*   launcher-core/src/machines.rs, disc_library.rs, control.rs            *)
(*                          the host: writes the shelf file, and changes   *)
(*                          the disc itself through the monitor            *)
(*   QEMU's TEST UNIT READY                   external                     *)
(*                                                                         *)
(* The program sends one command after another; between two of them the BH *)
(* may or may not have run, the host may have done anything, and Windows   *)
(* may have polled the drive too.  A shelf entry is its disc: labels are   *)
(* left out.  Slots count from 0.                                          *)
(***************************************************************************)
EXTENDS Integers, Sequences

CONSTANTS
  Discs,          \* the discs of the shelf
  NoDisc,         \* an empty tray
  Shelves,        \* the shelf files the launcher may write
  Polls,          \* wait_medium's 40
  MaxHost         \* bound: how often the host does something

ASSUME DiscsAssumption   == NoDisc \notin Discs
ASSUME ShelvesAssumption == Shelves \subseteq Seq(Discs)
ASSUME BoundsAssumption  == Polls \in Nat \ {0} /\ MaxHost \in Nat

VARIABLES
  file,           \* the shelf file
  coming,         \* what the launcher is writing to it, <<>>: nothing
  missing,        \* discs the host cannot open
  host,           \* what the host has done so far
  \* The drive: IDEState, and QEMU's medium.
  tray,
  changed,        \* cdrom_changed: 1 and 2 are still to be reported
  bh,             \* shelf_bh is scheduled
  load,           \* shelf_load, NoDisc: NULL
  loaded,         \* shelf_loaded
  \* The program.
  pc,             \* what it does next
  total,          \* discs on the shelf, as it knows
  list,           \* the entries it has: disc and CDSHELF_FLAG_MISSING
  slot,           \* what it is inserting, NoSlot: it empties the drive
  polls,          \* TEST UNIT READYs of this wait
  result,         \* what it says of the operation
  \* History.
  last,           \* what LOAD or EJECT asked for last, Free: overtaken
  settled         \* the drive had told all when the operation began, and
                  \* the host has not changed the disc since
dvars   == <<tray, changed, bh, load, loaded>>
hvars   == <<file, coming, missing, host>>
pvars   == <<pc, total, list, slot, polls, result>>
history == <<last, settled>>
driveVars == <<hvars, dvars, pvars, history>>

NoSlot == -1
Free   == <<>>
Entry  == [disc : Discs, missing : BOOLEAN]

DriveTypeOK ==
  /\ file \in Seq(Discs) /\ coming \in Seq(Discs)
  /\ missing \subseteq Discs
  /\ host \in 0..MaxHost
  /\ tray \in Discs \cup {NoDisc}
  /\ changed \in 0..2
  /\ bh \in BOOLEAN
  /\ load \in Discs \cup {NoDisc}
  /\ loaded \in Nat \cup {NoSlot}
  /\ pc \in {"list", "sized", "menu", "eject", "empty", "load", "present"}
  /\ total \in Nat
  /\ list \in Seq(Entry) /\ Len(list) <= total
  /\ slot \in Nat \cup {NoSlot}
  /\ polls \in 0..Polls - 1
  /\ result \in {"none", "ok", "failed", "refused"}
  /\ last \in Discs \cup {NoDisc, Free}
  /\ settled \in BOOLEAN

(* play: the file is written, the bundle's boot disc is in the drive. *)
DriveInit ==
  /\ file \in Shelves /\ coming = <<>>
  /\ missing = {} /\ host = 0
  /\ tray \in Discs \cup {NoDisc}
  /\ changed = 0 /\ bh = FALSE /\ load = NoDisc /\ loaded = NoSlot
  /\ pc = "list" /\ total = 0 /\ list = <<>>
  /\ slot = NoSlot /\ polls = 0 /\ result = "none"
  /\ last = Free /\ settled = TRUE
-----------------------------------------------------------------------------
(* The host. *)

HostActs == host < MaxHost /\ host' = host + 1

(* write_shelf_file: std::fs::write empties the file first, *)
TruncateFile ==
  /\ HostActs /\ coming = <<>>
  /\ file' = <<>> /\ coming' \in Shelves
  /\ UNCHANGED <<missing, dvars, pvars, history>>

(* and then writes it. *)
WriteFile ==
  /\ coming # <<>>
  /\ file' = coming /\ coming' = <<>>
  /\ UNCHANGED <<missing, host, dvars, pvars, history>>

(* A disc image is moved away, or comes back. *)
HostMoves(d) ==
  /\ HostActs
  /\ missing' = IF d \in missing THEN missing \ {d} ELSE missing \cup {d}
  /\ UNCHANGED <<file, coming, dvars, pvars, history>>

(* insert_live, eject_live: blockdev-change-medium and eject.  They do not *)
(* go through the shelf.                                                   *)
HostChanges(medium) ==
  /\ HostActs
  /\ medium \notin missing
  /\ tray' = medium /\ changed' = 1
  /\ last' = Free /\ settled' = FALSE
  /\ UNCHANGED <<file, coming, missing, bh, load, loaded, pvars>>
-----------------------------------------------------------------------------
(* The drive. *)

(* blockdev-change-medium opens the new medium before it touches the tray, *)
(* and that may fail also for an image that is there.                      *)
OpenFails ==
  /\ load # NoDisc
  /\ last' = Free
  /\ UNCHANGED <<tray, changed, settled>>

Moves ==
  /\ load \notin missing
  /\ tray' = load /\ changed' = 1
  /\ UNCHANGED history

(* ide_atapi_shelf_bh: a disc is put in, or the tray is emptied. *)
ShelfBh ==
  /\ bh
  /\ bh' = FALSE /\ load' = NoDisc
  /\ Moves \/ OpenFails
  /\ UNCHANGED <<loaded, hvars, pvars>>

(* TEST UNIT READY (external): a change is reported once as no medium and  *)
(* once as UNIT ATTENTION, and then the drive is ready.                    *)
Ready    == tray # NoDisc /\ changed = 0
NoMedium == tray = NoDisc \/ changed = 1
Told     == IF tray = NoDisc \/ changed = 0 THEN changed ELSE (changed + 1) % 3

(* Windows asks, too, and takes the report from the program. *)
WindowsPolls ==
  /\ Told # changed
  /\ changed' = Told
  /\ UNCHANGED <<tray, bh, load, loaded, hvars, pvars, history>>

(* LIST with room for n entries. *)
EntriesOf(n) ==
  [i \in 1..(IF n < Len(file) THEN n ELSE Len(file)) |->
     [disc |-> file[i], missing |-> file[i] \in missing]]
-----------------------------------------------------------------------------
(* The program, shelf_list and gui_reload. *)

(* LIST for the header alone: how many discs there are. *)
ListHeader ==
  /\ pc = "list"
  /\ total' = Len(file) /\ list' = <<>>
  /\ pc' = IF file = <<>> THEN "menu" ELSE "sized"
  /\ UNCHANGED <<slot, polls, result, hvars, dvars, history>>

(* LIST for that many entries. *)
ListEntries ==
  /\ pc = "sized"
  /\ list' = EntriesOf(total) /\ total' = Len(file)
  /\ pc' = "menu"
  /\ UNCHANGED <<slot, polls, result, hvars, dvars, history>>

(* The user: Refresh, Insert and Eject.  Insert with nothing selected, as  *)
(* in an empty list, is slot -1, which empties the drive.                  *)
Refresh ==
  /\ pc = "menu"
  /\ pc' = "list"
  /\ UNCHANGED <<total, list, slot, polls, result, hvars, dvars, history>>

(* An entry that is marked as missing is not tried. *)
Insertable == {s \in 0..total - 1 : s < Len(list) => ~list[s + 1].missing}

Start(s) ==
  /\ pc = "menu"
  /\ slot' = s /\ pc' = "eject" /\ result' = "none"
  /\ UNCHANGED <<total, list, polls, hvars, dvars, history>>

(* EJECT: what was still to be loaded is forgotten, leaving keep.          *)
SendEjectKeeping(keep) ==
  /\ pc = "eject"
  /\ load' = keep /\ loaded' = NoSlot /\ bh' = TRUE
  /\ last' = NoDisc
  /\ settled' = (tray = NoDisc \/ changed # 1)
  /\ pc' = "empty" /\ polls' = 0
  /\ UNCHANGED <<tray, changed, total, list, slot, result, hvars>>

SendEject == SendEjectKeeping(NoDisc)

(* One TEST UNIT READY of a wait for answer; then the program goes on at   *)
(* done or, after the last try, at late.                                   *)
PollUpTo(tries, answer, more, done, late) ==
  /\ changed' = Told
  /\ \/ answer /\ done /\ polls' = 0
     \/ ~answer /\ polls < tries - 1 /\ polls' = more /\ UNCHANGED <<pc, result>>
     \/ ~answer /\ polls >= tries - 1 /\ late /\ polls' = 0
  /\ UNCHANGED <<tray, bh, load, loaded, total, list, slot, hvars, history>>

PollFor(answer, more, done, late) == PollUpTo(Polls, answer, more, done, late)

Says(what)  == pc' = "list" /\ result' = what
GoesOnTo(p) == pc' = p /\ UNCHANGED result

Emptied == IF slot = NoSlot THEN Says("ok") ELSE GoesOnTo("load")

(* wait_medium for an empty tray.  An eject that is not confirmed fails.   *)
PollEmptyOr(late) == pc = "empty" /\ PollFor(NoMedium, polls + 1, Emptied, late)

(* A mutant: the outcome of the wait is ignored. *)
PollEmptyGoesOn == PollEmptyOr(Emptied)

PollEmpty == PollEmptyOr(Says("failed"))

(* LOAD: the slot counts in the file as it is now. *)
Accepts == slot \in 0..Len(file) - 1 /\ file[slot + 1] \notin missing

SendLoad ==
  /\ pc = "load"
  /\ \/ /\ Accepts
        /\ load' = file[slot + 1] /\ loaded' = slot /\ bh' = TRUE
        /\ last' = file[slot + 1]
        /\ GoesOnTo("present")
     \/ /\ ~Accepts
        /\ Says("refused")
        /\ UNCHANGED <<load, loaded, bh, last>>
  /\ UNCHANGED <<tray, changed, total, list, slot, polls, hvars, settled>>

(* wait_medium for the new disc. *)
PollPresentOr(more, late) == pc = "present" /\ PollFor(Ready, more, Says("ok"), late)

(* A mutant: the tries are not counted. *)
PollPresentForever == PollPresentOr(polls, Says("failed"))

PollPresent == PollPresentOr(polls + 1, Says("failed"))
-----------------------------------------------------------------------------
Host ==
  \/ TruncateFile \/ WriteFile
  \/ \E d \in Discs : HostMoves(d)
  \/ \E medium \in Discs \cup {NoDisc} : HostChanges(medium)

List == ListHeader \/ ListEntries

User == Refresh \/ \E s \in Insertable \cup {NoSlot} : Start(s)

Commands == SendEject \/ PollEmpty \/ SendLoad \/ PollPresent

DriveNext == Host \/ ShelfBh \/ WindowsPolls \/ List \/ User \/ Commands

(* The program's thread runs.  Nothing is assumed of the BH or the host.   *)
DriveSpec == DriveInit /\ [][DriveNext]_driveVars
FairDriveSpec == DriveSpec /\ WF_driveVars(List) /\ WF_driveVars(Commands)
-----------------------------------------------------------------------------
(* cdshelf.c 525-534, 582-608: "nothing here reports success before the    *)
(* drive does": when the program says that it worked, what it asked for is *)
(* in the drive; unless the host changed the disc meanwhile, or the drive  *)
(* had still to report a change of before.                                 *)
SuccessIsThere == result = "ok" /\ settled => tray = last

(* 52-atapi-disc-shelf.patch 172-195, 272-289: commands collapse into one  *)
(* BH, and then it is the last of them that happens.                       *)
LastCommandWins == ~bh /\ last # Free => tray = last

(* cdshelf.c 566-579: "EMPTY IT FIRST": no disc takes another's place      *)
(* without an empty tray between them that the guest could see.            *)
Swapped      == tray # NoDisc /\ tray' # NoDisc /\ tray' # tray
EmptiesFirst == [][Swapped => ~settled']_driveVars

(* cdshelf.c 536-564, 808-827: the buttons come back: an operation ends,   *)
(* whatever the drive, the host and Windows do meanwhile.                  *)
OperationEnds == pc # "menu" ~> pc = "menu"
=============================================================================
