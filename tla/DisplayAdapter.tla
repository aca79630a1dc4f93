---------------------------- MODULE DisplayAdapter ----------------------------
(***************************************************************************)
(* The paravirtual display adapter and the driver that programs it.        *)
(*                                                                         *)
(*   d3dpt/hw/d3dpt_vga.c                  the device: its registers, and   *)
(*                  the refresh the player asks for every 16 ms            *)
(*   guest-tools/src/d3dptvid/d3dptvid.c   the miniport: sets the mode     *)
(*   guest-tools/src/d3dptvid/d3dptdisp.c  the display driver: palette,    *)
(*                  page flips, the wait for the vertical blank            *)
(*                                                                         *)
(* A register access and a refresh exclude each other; the guest's         *)
(* processor writes video memory at any time, also during a refresh.  The  *)
(* dirty log says which rows changed since it was last read and cleared.   *)
(***************************************************************************)
EXTENDS Integers

CONSTANTS
  Buffers, Primary,   \* places in video memory that are scanned out; offset 0
  Rows,
  Modes, Palettized,  \* the mode table, and its modes of 8 bits per pixel
  NoMode,
  GraceRefreshes,     \* D3DPT_FB_VGA_GRACE_REFRESHES
  MaxFrames,          \* bound of the model: the device then stops counting
  MaxWrites           \* bound of the model: writes of memory and palette

ASSUME ScreenAssumption ==
  /\ Primary \in Buffers /\ "vga" \notin Buffers
  /\ Palettized \subseteq Modes /\ NoMode \notin Modes
  /\ {GraceRefreshes, MaxFrames, MaxWrites} \subseteq Nat

Colours == {0, 1}     \* pixel values; the palettes, too: 1 has every pixel the other colour
Nobody  == [call |-> "none"]
NoFlip  == [pending |-> FALSE]

VARIABLES
  \* video memory
  vram, dirty,
  \* the device's registers
  enable, mode, offset, frames, pal, pal_dirty,
  \* the console: what its last refresh left there
  lin,                \* the mode it is set up for; NoLinear: it is the VGA core's
  full_update, vga_grace, shown,
  refreshing,         \* rows a refresh has yet to convert
  \* the guest
  enabled,            \* DEVICE_EXTENSION.enabled
  setting,            \* the place in set_mode
  caller,             \* the DirectDraw call under way, and if 50 ms have passed
  flip,               \* flip_pending, flip_frame, and if 50 ms have passed
  \* history, bounds
  recent,             \* a flip no vertical blank has followed
  dark,               \* refreshes since ENABLE went off
  writes

memory   == <<vram, dirty>>
regs     == <<enable, mode, offset, frames, pal, pal_dirty>>
console  == <<lin, full_update, vga_grace, shown, refreshing, dark>>
flipping == <<caller, flip, recent>>
vars == <<memory, regs, console, enabled, setting, flipping, writes>>

Linear   == [mode : Modes \cup {NoMode}, offset : Buffers]
NoLinear == [mode |-> NoMode, offset |-> "vga"]

TypeOK ==
  /\ vram \in [Buffers -> [Rows -> Colours]] /\ dirty \in [Buffers -> SUBSET Rows]
  /\ {enable, pal_dirty, full_update, enabled, recent} \subseteq BOOLEAN
  /\ mode \in Modes \cup {NoMode} /\ offset \in Buffers /\ frames \in 0..MaxFrames
  /\ pal \in Colours /\ lin \in Linear \cup {NoLinear}
  /\ vga_grace \in 0..GraceRefreshes /\ shown \in [Rows -> Colours]
  /\ refreshing \subseteq Rows
  /\ setting \in [at : {"no", "off", "zeroed", "programmed", "stopped"}, mode : Modes \cup {NoMode}]
  /\ \/ caller \in {Nobody, [call |-> "flipped"]}
     \/ caller \in [call : {"wait"}, f : 0..MaxFrames, late : BOOLEAN]
     \/ caller \in [call : {"flip"}, f : 0..MaxFrames, late : BOOLEAN, b : Buffers]
  /\ flip \in {NoFlip} \cup [pending : {TRUE}, frame : 0..MaxFrames, late : BOOLEAN]
  /\ dark \in 0..GraceRefreshes + 1 /\ writes \in 0..MaxWrites

Black   == [r \in Rows |-> 0]
Setting(at, m) == [at |-> at, mode |-> m]
NotSetting == Setting("no", NoMode)

(* What a pixel value looks like. *)
Pixel(m, v) == IF m \in Palettized THEN (v + pal) % 2 ELSE v

Init ==
  /\ vram = [b \in Buffers |-> Black] /\ dirty = [b \in Buffers |-> {}]
  /\ enable = FALSE /\ mode = NoMode /\ offset = Primary /\ frames = 0
  /\ pal = 0 /\ pal_dirty = FALSE
  /\ lin = NoLinear
  /\ full_update = FALSE /\ vga_grace = 0
  /\ shown = Black /\ refreshing = {}
  /\ enabled = FALSE /\ setting = NotSetting
  /\ caller = Nobody /\ flip = NoFlip /\ recent = FALSE
  /\ dark = 0 /\ writes = 0

---------------------------------------------------------------------------
(* Video memory: the guest writes it at once, and the log notes the row.   *)

Wrote(b, S, v) ==
  /\ vram' = [vram EXCEPT ![b] = [r \in Rows |-> IF r \in S THEN v ELSE @[r]]]
  /\ dirty' = [dirty EXCEPT ![b] = @ \cup S]

ProgramWrites(b, r, v) ==
  /\ writes < MaxWrites /\ writes' = writes + 1
  /\ Wrote(b, {r}, v)
  /\ UNCHANGED <<regs, console, enabled, setting, flipping>>

---------------------------------------------------------------------------
(* Registers.  A write waits for the refresh that is running. *)

Access == refreshing = {}

(* ENABLE: off, the last frame is held for a while; on, the vertical       *)
(* blanks are counted from here.                                           *)
WriteEnable(on) ==
  /\ enable' = on /\ frames' = 0
  /\ vga_grace' = IF enable /\ ~on THEN GraceRefreshes ELSE vga_grace
  /\ dark' = IF on \/ enable THEN 0 ELSE dark
  /\ full_update' = TRUE
  /\ UNCHANGED <<lin, shown, refreshing, pal, pal_dirty>>

Tick ==
  /\ Access /\ enable /\ frames < MaxFrames
  /\ frames' = frames + 1 /\ recent' = FALSE
  /\ UNCHANGED <<memory, enable, mode, offset, pal, pal_dirty, console, enabled,
                 setting, caller, flip, writes>>

---------------------------------------------------------------------------
(* The refresh: d3dpt_vga_gfx_update. *)

Current == [mode |-> mode, offset |-> offset]

(* The log's rows are read and cleared; what is written from now on is for *)
(* the next refresh.                                                       *)
Snapshot(S) ==
  /\ refreshing' = S
  /\ dirty' = [dirty EXCEPT ![offset] = {}]

RefreshLinear ==
  /\ Access /\ enable
  /\ LET switched == lin # Current
         recolour == pal_dirty /\ mode \in Palettized
     IN /\ lin' = Current
        /\ pal_dirty' = IF mode \in Palettized THEN FALSE ELSE pal_dirty
        /\ full_update' = FALSE
        /\ Snapshot(IF switched \/ recolour \/ full_update THEN Rows ELSE dirty[offset])
  /\ UNCHANGED <<vram, enable, mode, offset, frames, pal, vga_grace, shown, dark,
                 enabled, setting, flipping, writes>>

(* fb_update_span, a row: what memory holds now. *)
RefreshRow(r) ==
  /\ r \in refreshing
  /\ refreshing' = refreshing \ {r}
  /\ shown' = [shown EXCEPT ![r] = Pixel(lin.mode, vram[lin.offset][r])]
  /\ UNCHANGED <<memory, regs, lin, full_update, vga_grace, dark, enabled,
                 setting, flipping, writes>>

GoesToVga == lin' = NoLinear /\ shown' = Black

NotEnabled ==
  /\ Access /\ ~enable
  /\ dark' = IF dark > GraceRefreshes THEN dark ELSE dark + 1
  /\ UNCHANGED <<memory, regs, full_update, refreshing, enabled, setting, flipping, writes>>

(* A mutant: the last frame is not held. *)
RefreshVgaAtOnce ==
  /\ NotEnabled
  /\ GoesToVga /\ UNCHANGED vga_grace

(* A mutant: the held frame is never let go. *)
RefreshVgaHeld ==
  /\ NotEnabled
  /\ IF lin # NoLinear THEN UNCHANGED <<lin, shown>> ELSE GoesToVga
  /\ UNCHANGED vga_grace

RefreshVga ==
  /\ NotEnabled
  /\ IF lin # NoLinear /\ vga_grace > 0
       THEN vga_grace' = vga_grace - 1 /\ UNCHANGED <<lin, shown>>
       ELSE GoesToVga /\ UNCHANGED vga_grace

(* A display client asks for everything. *)
Invalidate ==
  /\ Access /\ full_update' = TRUE
  /\ UNCHANGED <<memory, regs, lin, vga_grace, shown, refreshing, dark, enabled,
                 setting, flipping, writes>>

---------------------------------------------------------------------------
(* The miniport.  GDI holds its lock around a mode change, and DirectDraw's *)
(* calls hold it too.                                                      *)

Idle == setting = NotSetting /\ caller = Nobody

SetModeOff(m) ==
  /\ Access /\ Idle
  /\ WriteEnable(FALSE)
  /\ setting' = Setting("off", m)
  /\ UNCHANGED <<memory, mode, offset, enabled, flipping, writes>>

SetModeZero ==
  /\ setting.at = "off"
  /\ Wrote(Primary, Rows, 0)
  /\ setting' = Setting("zeroed", setting.mode)
  /\ UNCHANGED <<regs, console, enabled, flipping, writes>>

SetModeProgram ==
  /\ Access /\ setting.at = "zeroed"
  /\ mode' = setting.mode /\ offset' = Primary
  /\ setting' = Setting("programmed", setting.mode)
  /\ UNCHANGED <<memory, enable, frames, pal, pal_dirty, console, enabled, flipping, writes>>

SetModeOn ==
  /\ Access /\ setting.at = "programmed"
  /\ WriteEnable(TRUE)
  /\ enabled' = TRUE /\ setting' = NotSetting /\ recent' = FALSE
  /\ UNCHANGED <<memory, mode, offset, caller, flip, writes>>

ResetToVga ==
  /\ Access /\ WriteEnable(FALSE)
  /\ enabled' = FALSE
  /\ UNCHANGED <<memory, mode, offset, flip, recent, writes>>

(* A full-screen console, or the old mode of a mode change. *)
ResetDevice == Idle /\ enabled /\ ResetToVga /\ UNCHANGED <<setting, caller>>

(* The guest crashes, whatever it was doing, and shows why. *)
StopScreen ==
  /\ enabled /\ ResetToVga
  /\ setting' = Setting("stopped", NoMode) /\ caller' = Nobody

---------------------------------------------------------------------------
(* The display driver. *)

Displaying == Access /\ Idle /\ enabled

(* A mutant: the device is not told to recolour. *)
SetPaletteQuietly(v) ==
  /\ Displaying /\ mode \in Palettized
  /\ writes < MaxWrites /\ writes' = writes + 1
  /\ pal' = v
  /\ UNCHANGED <<memory, enable, mode, offset, frames, pal_dirty, console, enabled, setting, flipping>>

(* An entry of DrvSetPalette: refreshes come between the entries. *)
SetPalette(v) ==
  /\ Displaying /\ mode \in Palettized
  /\ writes < MaxWrites /\ writes' = writes + 1
  /\ pal' = v /\ pal_dirty' = TRUE
  /\ UNCHANGED <<memory, enable, mode, offset, frames, console, enabled, setting, flipping>>

(* The doorbell: the executor writes a frame into a surface's memory. *)
ReadBack(b, v) ==
  /\ Displaying
  /\ writes < MaxWrites /\ writes' = writes + 1
  /\ Wrote(b, Rows, v)
  /\ UNCHANGED <<regs, console, enabled, setting, flipping>>

Others == <<memory, console, enabled, setting, writes>>

flip_done == flip.pending => frames # flip.frame \/ flip.late

(* A mutant: the wait does not give up. *)
WaitOverByCount == frames # caller.f

(* A mutant: the counter is not looked at. *)
WaitOverAtOnce == TRUE

(* wait_frame: the device has counted since the call began, or 50 ms have  *)
(* passed since.                                                           *)
WaitOver == frames # caller.f \/ caller.late

(* OFFSET is written ... *)
WriteOffset(b) ==
  /\ offset' = b
  /\ caller' = [call |-> "flipped"] /\ flip' = NoFlip /\ recent' = TRUE
  /\ UNCHANGED <<enable, mode, frames, pal, pal_dirty, Others>>

Flip(b) == Displaying /\ flip_done /\ WriteOffset(b)

(* DdFlip with DDFLIP_WAIT while the last flip is in the air. *)
FlipWaits(b) ==
  /\ Displaying /\ ~flip_done
  /\ caller' = [call |-> "flip", b |-> b, f |-> frames, late |-> FALSE]
  /\ UNCHANGED <<regs, flip, recent, Others>>

FlipGoesOn ==
  /\ Access /\ caller.call = "flip" /\ WaitOver
  /\ WriteOffset(caller.b)

(* ... and then the flip is noted. *)
FlipNoted ==
  /\ Access /\ caller.call = "flipped"
  /\ caller' = Nobody
  /\ flip' = [pending |-> TRUE, frame |-> frames, late |-> FALSE]
  /\ UNCHANGED <<regs, recent, Others>>

(* DdGetFlipStatus, or a DdFlip that does not wait: the flip is forgotten  *)
(* once it is done.                                                        *)
FlipStatus ==
  /\ Displaying /\ flip.pending /\ flip_done
  /\ flip' = NoFlip
  /\ UNCHANGED <<regs, caller, recent, Others>>

FlipToGDISurface ==
  /\ Displaying
  /\ offset' = Primary /\ flip' = NoFlip /\ recent' = FALSE
  /\ UNCHANGED <<enable, mode, frames, pal, pal_dirty, caller, Others>>

WaitForVerticalBlank ==
  /\ Displaying
  /\ caller' = [call |-> "wait", f |-> frames, late |-> FALSE]
  /\ UNCHANGED <<regs, flip, recent, Others>>

WaitEnds ==
  /\ Access /\ caller.call = "wait" /\ WaitOver
  /\ caller' = Nobody
  /\ UNCHANGED <<regs, flip, recent, Others>>

(* 50 ms by the guest's performance counter. *)
Late(c) == IF "late" \in DOMAIN c THEN [c EXCEPT !.late = TRUE] ELSE c

Clock ==
  /\ caller' = Late(caller) /\ flip' = Late(flip) /\ recent' = FALSE
  /\ UNCHANGED <<regs, Others>>

---------------------------------------------------------------------------
(* The machine. *)

ResetRegisters ==
  /\ enable' = FALSE /\ mode' = NoMode /\ offset' = Primary /\ frames' = 0
  /\ vga_grace' = 0 /\ dark' = GraceRefreshes + 1
  /\ UNCHANGED <<pal, pal_dirty, lin, full_update, shown, refreshing>>

Reset ==
  /\ Access /\ ResetRegisters
  /\ enabled' = FALSE /\ setting' = NotSetting
  /\ caller' = Nobody /\ flip' = NoFlip /\ recent' = FALSE
  /\ UNCHANGED <<memory, writes>>

---------------------------------------------------------------------------
Guest ==
  \/ \E b \in Buffers, v \in Colours : ReadBack(b, v) \/ \E r \in Rows : ProgramWrites(b, r, v)
  \/ \E m \in Modes : SetModeOff(m)
  \/ SetModeZero \/ SetModeProgram \/ SetModeOn \/ ResetDevice \/ StopScreen
  \/ \E v \in Colours : SetPalette(v)
  \/ \E b \in Buffers : Flip(b) \/ FlipWaits(b)
  \/ FlipGoesOn \/ FlipNoted \/ FlipStatus \/ FlipToGDISurface
  \/ WaitForVerticalBlank \/ WaitEnds

Refresh == RefreshLinear \/ RefreshVga \/ \E r \in Rows : RefreshRow(r)

Next == Guest \/ Refresh \/ Invalidate \/ Tick \/ Clock \/ Reset

Spec == Init /\ [][Next]_vars

(* The player goes on asking for refreshes, and the guest's clock runs.    *)
(* A call's register accesses get their turn between refreshes, which are  *)
(* 16 ms apart.  Nothing says the device goes on counting.                 *)
Fairness ==
  /\ WF_vars(Refresh) /\ WF_vars(Clock)
  /\ SF_vars(FlipGoesOn \/ FlipNoted \/ WaitEnds)

FairSpec == Spec /\ Fairness

---------------------------------------------------------------------------
(* A refresh repaints only the rows the dirty log names, unless something  *)
(* has it repaint all.  Whatever the order of writes, flips, palette and   *)
(* mode changes, a row it leaves alone already shows what memory and       *)
(* palette say.                                                            *)
NothingStale ==
  lin = Current /\ ~full_update /\ ~(pal_dirty /\ mode \in Palettized) =>
    \A r \in Rows \ (refreshing \cup dirty[offset]) : shown[r] = Pixel(mode, vram[offset][r])

(* A mode change never shows the VGA core: the last frame is held for      *)
(* GraceRefreshes refreshes, and only a machine that starts again is not   *)
(* held.                                                                   *)
NoVgaBetweenModes == [][lin # NoLinear /\ lin' = NoLinear => dark' > GraceRefreshes]_vars

(* A page flip follows the last one by a vertical blank, or by 50 ms if    *)
(* the device has stopped counting: d3dptdisp.c:991 calls it the only      *)
(* frame-rate cap a game of the era has.                                   *)
FlipsPaced == [][caller'.call = "flipped" /\ caller.call # "flipped" => ~recent]_vars

(* A DirectDraw call that waits comes back, though the device may never    *)
(* count again.                                                            *)
CallsReturn == (caller # Nobody) ~> (caller = Nobody)

(* The screen keeps showing what memory holds, or the VGA core if that is  *)
(* what the guest went back to.                                            *)
ScreenFollows ==
  /\ []<>(~enable \/ (lin = Current /\ \A r \in Rows : shown[r] = Pixel(mode, vram[offset][r])))
  /\ []<>(enable \/ lin = NoLinear)
=============================================================================
