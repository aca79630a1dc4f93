------------------------ MODULE DisplayAdapterProofs -------------------------
(***************************************************************************)
(* The display driver's life and the adapter's screen, proved for every     *)
(* size of video memory, every number of PDEVs, contexts, buffers and rows. *)
(*                                                                         *)
(* DisplayDriver: DriverIInv says which PDEVs there are at each place of a  *)
(* mode change (PdevsOfPlace), whose mode the device has (ScreenOfPlace),    *)
(* how far each PDEV is and that each has Direct3D or none (PdevsMade), and  *)
(* that Direct3D's calls go to the shown one (CallsGoHome): only that last  *)
(* part makes a context the driver forgets one the host forgets.            *)
(*                                                                         *)
(* DisplayAdapter: IInv says what the rows left alone show by the console's *)
(* own mode and place (ShownIsTrue), for the registers may leave a buffer    *)
(* and come back to it between two refreshes; what a held frame has left     *)
(* (GraceRuns); and how long ago the last flip was (FlipInAir).              *)
(***************************************************************************)
EXTENDS MCDisplayAdapter, WellFoundedInduction, FiniteSetTheorems, TLAPS

---------------------------------------------------------------------------
(* The modes and their memory. *)

(* The 21 shapes of a mode. *)
Shapes ==
  {<<640, 480>>, <<800, 600>>, <<1024, 768>>, <<1152, 864>>, <<1280, 960>>, <<1280, 1024>>, <<1600, 1200>>}

LEMMA ModeCount == FB_MODE_COUNT = 63
BY DEF FB_MODE_COUNT, fb_sizes, fb_hz, fb_bpp

LEMMA SizeShapes == \A s \in 1..7 : <<fb_sizes[s][1], fb_sizes[s][2]>> \in Shapes
<1> SUFFICES ASSUME NEW s \in 1..7 PROVE <<fb_sizes[s][1], fb_sizes[s][2]>> \in Shapes
  OBVIOUS
<1>1. s = 1 \/ s = 2 \/ s = 3 \/ s = 4 \/ s = 5 \/ s = 6 \/ s = 7
  OBVIOUS
<1> QED
  BY <1>1 DEF fb_sizes, Shapes

LEMMA Depths == \A b \in 1..3 : fb_bpp[b] \in {8, 16, 32}
<1> SUFFICES ASSUME NEW b \in 1..3 PROVE fb_bpp[b] \in {8, 16, 32}
  OBVIOUS
<1>1. b = 1 \/ b = 2 \/ b = 3
  OBVIOUS
<1> QED
  BY <1>1 DEF fb_bpp

LEMMA EntryShape ==
  ASSUME NEW i \in 0..FB_MODE_COUNT - 1
  PROVE  LET m == fb_mode_entry(i)
         IN /\ <<m.w, m.h>> \in Shapes /\ m.bpp \in {8, 16, 32}
            /\ m.pitch = bpp_pitch(m.w, m.bpp)
<1>1. i \div 9 + 1 \in 1..7 /\ (i % 3) + 1 \in 1..3
  BY ModeCount
<1>2. Len(fb_bpp) = 3 /\ Len(fb_hz) = 3
  BY DEF fb_bpp, fb_hz
<1>3. Len(fb_bpp) * Len(fb_hz) = 9
  BY <1>2
<1> DEFINE size == fb_sizes[i \div (Len(fb_bpp) * Len(fb_hz)) + 1]
           bpp  == fb_bpp[(i % Len(fb_bpp)) + 1]
<1>4. <<size[1], size[2]>> \in Shapes
  BY <1>1, <1>3, SizeShapes
<1>5. bpp \in {8, 16, 32}
  BY <1>1, <1>2, Depths
<1>6. fb_mode_entry(i).w = size[1] /\ fb_mode_entry(i).h = size[2] /\ fb_mode_entry(i).bpp = bpp
      /\ fb_mode_entry(i).pitch = bpp_pitch(size[1], bpp)
  BY DEF fb_mode_entry
<1> QED
  BY <1>4, <1>5, <1>6

(* Where DirectDraw's heap begins, in each of them. *)
HeapStart(m) == ((m.pitch * m.h + 4095) \div 4096) * 4096
HeapStarts == {307200, 483328, 614400, 786432, 962560, 995328, 1228800, 1310720, 1572864, 1921024, 1990656, 2457600, 2621440, 3145728, 3842048, 3981312, 4915200, 5242880, 7680000}

LEMMA PitchOf ==
  ASSUME NEW w \in {640, 800, 1024, 1152, 1280, 1600}
  PROVE  bpp_pitch(w, 8) = w /\ bpp_pitch(w, 16) = 2 * w /\ bpp_pitch(w, 32) = 4 * w
BY DEF bpp_pitch

LEMMA HeapStartValue ==
  ASSUME NEW i \in 0..FB_MODE_COUNT - 1
  PROVE  LET m == fb_mode_entry(i)
         IN /\ m.pitch * m.h \in Nat /\ m.pitch * m.h <= HeapStart(m)
            /\ HeapStart(m) \in HeapStarts
<1> DEFINE m == fb_mode_entry(i)
<1>1. <<m.w, m.h>> \in Shapes /\ m.bpp \in {8, 16, 32} /\ m.pitch = bpp_pitch(m.w, m.bpp)
  BY EntryShape
<1> HIDE DEF m
<1>2. m.w \in {640, 800, 1024, 1152, 1280, 1600}
  BY <1>1 DEF Shapes
<1>3. m.pitch = m.w * (m.bpp \div 8)
  BY <1>1, <1>2, PitchOf
<1> DEFINE Fine(b) == b \in Nat /\ b <= ((b + 4095) \div 4096) * 4096 /\ ((b + 4095) \div 4096) * 4096 \in HeapStarts
<1>4. CASE m.bpp = 8
  <2>1. m.pitch * m.h \in {307200, 480000, 786432, 995328, 1228800, 1310720, 1920000}
    BY <1>1, <1>3, <1>4 DEF Shapes
  <2>2. \A b \in {307200, 480000, 786432, 995328, 1228800, 1310720, 1920000} : Fine(b)
    BY DEF HeapStarts
  <2> QED
    BY <2>1, <2>2 DEF HeapStart, m
<1>5. CASE m.bpp = 16
  <2>1. m.pitch * m.h \in {614400, 960000, 1572864, 1990656, 2457600, 2621440, 3840000}
    BY <1>1, <1>3, <1>5 DEF Shapes
  <2>2. \A b \in {614400, 960000, 1572864, 1990656, 2457600, 2621440, 3840000} : Fine(b)
    BY DEF HeapStarts
  <2> QED
    BY <2>1, <2>2 DEF HeapStart, m
<1>6. CASE m.bpp = 32
  <2>1. m.pitch * m.h \in {1228800, 1920000, 3145728, 3981312, 4915200, 5242880, 7680000}
    BY <1>1, <1>3, <1>6 DEF Shapes
  <2>2. \A b \in {1228800, 1920000, 3145728, 3981312, 4915200, 5242880, 7680000} : Fine(b)
    BY DEF HeapStarts
  <2> QED
    BY <2>1, <2>2 DEF HeapStart, m
<1> QED
  BY <1>1, <1>4, <1>5, <1>6 DEF m

(* A heap that begins before the end of memory, in whole MiB, leaves the   *)
(* cursor its place.                                                       *)
LEMMA CursorFits ==
  ASSUME NEW s \in HeapStarts, NEW e \in Nat, e % MiB = 0, s < e
  PROVE  s < e - D3DPT_FB_CURSOR_BYTES
<1>1. D3DPT_FB_CURSOR_BYTES = 16384 /\ MiB = 1048576
  BY DEF D3DPT_FB_CURSOR_BYTES, D3DPT_FB_CURSOR_MAX, MiB
<1>2. e = 1048576 * (e \div 1048576) /\ e \div 1048576 \in Nat
  BY <1>1
<1> DEFINE k == e \div 1048576
<1> HIDE DEF k
<1> QED
  BY <1>1, <1>2 DEF HeapStarts, k

---------------------------------------------------------------------------
PdevType ==
  [mode : ListedModes, cmd : {0, cmd_offset}, surface : {"none", "device", "bitmap"},
   d3d : BOOLEAN, told : BOOLEAN]

(* Whether this machine offers Direct3D: the same in each of its modes. *)
Direct3D ==
  /\ cmd_offset # 0 /\ exec
  /\ accepts \/ "ENGINE_BITMAP" \in ddflags
  /\ "NO_D3D" \notin ddflags

Surface == IF accepts /\ "ENGINE_BITMAP" \notin ddflags THEN "device" ELSE "bitmap"

ListedMode(p) == \E i \in ModeTable : pdev[p].mode = fb_mode_entry(i)
Made(p)  == ListedMode(p) /\ pdev[p].cmd = cmd_offset /\ pdev[p].surface = Surface
Fresh(p) == ListedMode(p) /\ ~pdev[p].d3d /\ ~pdev[p].told
Heap(p)  == heap_start(p) < heap_end(p)
Shows(p) == /\ reg = [enable |-> TRUE, mode |-> pdev[p].mode]
            /\ ext.enabled /\ ext.cur_mode = pdev[p].mode

(* Which PDEVs there are at each place of a mode change. *)
PdevsOfPlace ==
  /\ gdi.at = "boot" => gdi.cur = NULL /\ gdi.new = NULL
  /\ gdi.at = "idle" => gdi.new = NULL
  /\ gdi.at = "off" => gdi.cur # NULL /\ gdi.new = NULL
  /\ gdi.at \in {"made", "surface", "failed", "retire"} => gdi.new # NULL /\ gdi.new # gdi.cur
  /\ gdi.at = "retire" => gdi.cur # NULL

(* Whose mode the device has. *)
ScreenOfPlace ==
  /\ gdi.at \in {"idle", "retire"} /\ gdi.cur # NULL => Shows(gdi.cur)
  /\ gdi.at = "surface" => Shows(gdi.new)
  /\ gdi.at \in {"off", "made", "surface", "failed"} /\ gdi.cur # NULL => ~mouse.on

(* How far each PDEV is. *)
PdevsMade ==
  /\ gdi.cur # NULL => Made(gdi.cur) /\ (pdev[gdi.cur].d3d <=> Direct3D)
  /\ gdi.at \in {"made", "surface", "failed"} => Fresh(gdi.new)
  /\ gdi.at = "surface" => Made(gdi.new)
  /\ \A p \in PDEVs : pdev[p].told => Made(p) /\ Heap(p) /\ (pdev[p].d3d <=> Direct3D)

(* Direct3D's calls go to the PDEV that is shown. *)
CallsGoHome ==
  /\ gdi.cur # NULL /\ gdi.at # "stopped" /\ Direct3D => d3d_pdev = gdi.cur
  /\ InUse # {} /\ gdi.at # "stopped" => Direct3D /\ gdi.cur # NULL
  /\ offered \subseteq {Direct3D}

DriverIInv == DriverTypeOK /\ PdevsOfPlace /\ ScreenOfPlace /\ PdevsMade /\ CallsGoHome /\ ContextsAgree

---------------------------------------------------------------------------
LEMMA Megabytes == MiB = 1048576 /\ D3DPT_SHM_SIZE = 67108864 /\ D3DPT_FB_CURSOR_BYTES = 16384
BY DEF MiB, D3DPT_SHM_SIZE, D3DPT_FB_CURSOR_BYTES, D3DPT_FB_CURSOR_MAX

(* Where video memory, or what of it is below the window, ends. *)
LEMMA MemoryEnds ==
  ASSUME fb_len \in VramSizes
  PROVE  /\ fb_len \in Nat /\ fb_len % MiB = 0
         /\ cmd_offset \in Nat /\ cmd_offset % MiB = 0
         /\ cmd_offset # 0 => cmd_offset + D3DPT_SHM_SIZE = fb_len /\ cmd_offset >= D3DPT_SHM_SIZE
<1>1. fb_len \in Nat /\ fb_len % MiB = 0
  BY DriverAssumption
<1>2. fb_len % 1048576 = 0
  BY <1>1, Megabytes
<1>3. fb_len >= 134217728 => fb_len - 67108864 \in Nat /\ (fb_len - 67108864) % 1048576 = 0
  BY <1>1, <1>2
<1>4. cmd_offset = IF fb_len >= 134217728 THEN fb_len - 67108864 ELSE 0
  BY Megabytes DEF cmd_offset
<1> QED
  BY <1>1, <1>3, <1>4, Megabytes

LEMMA HeapOfMode ==
  ASSUME fb_len \in VramSizes, NEW p, ListedMode(p)
  PROVE  heap_start(p) \in HeapStarts /\ Mode(p).pitch * Mode(p).h <= heap_start(p)
<1>1. PICK i \in ModeTable : pdev[p].mode = fb_mode_entry(i)
  BY DEF ListedMode
<1>2. i \in 0..FB_MODE_COUNT - 1
  BY DEF ModeTable
<1> QED
  BY <1>1, <1>2, HeapStartValue DEF heap_start, HeapStart, Mode

(* With a window, every mode leaves a heap. *)
LEMMA WindowLeavesHeap ==
  ASSUME fb_len \in VramSizes, NEW p, Made(p), cmd_offset # 0
  PROVE  Heap(p)
<1>1. heap_start(p) \in HeapStarts
  BY HeapOfMode DEF Made
<1>2. heap_end(p) = cmd_offset /\ cmd_offset >= 67108864
  BY MemoryEnds, Megabytes DEF heap_end, Made
<1> QED
  BY <1>1, <1>2, MemoryEnds DEF Heap, HeapStarts

(* DirectDraw asks a PDEV that has its surface. *)
LEMMA Asked ==
  ASSUME DriverTypeOK, NEW p \in PDEVs, Made(p), pdev[p].d3d => Direct3D, EnableDirectDraw(p)
  PROVE  /\ pdev' \in [PDEVs -> PdevType]
         /\ \A q \in PDEVs \ {p} : pdev'[q] = pdev[q]
         /\ pdev'[p].mode = pdev[p].mode /\ pdev'[p].cmd = pdev[p].cmd
         /\ pdev'[p].surface = pdev[p].surface
         /\ pdev'[p].d3d <=> Direct3D
         /\ pdev'[p].told => Heap(p)
         /\ d3d_pdev' = IF Direct3D /\ ~pdev[p].d3d THEN p ELSE d3d_pdev
         /\ offered' = offered \cup {Direct3D}
<1> DEFINE taken == heap_start(p) < heap_end(p) /\ (pdev[p].surface = "device" \/ "ENGINE_BITMAP" \in ddflags)
           d3d == pdev[p].d3d \/ (taken /\ d3d_init(p))
<1>1. /\ pdev' = [pdev EXCEPT ![p].d3d = d3d, ![p].told = taken]
      /\ d3d_pdev' = IF d3d /\ ~pdev[p].d3d THEN p ELSE d3d_pdev
      /\ offered' = offered \cup {d3d}
  BY DEF EnableDirectDraw
<1>2. pdev \in [PDEVs -> PdevType] /\ fb_len \in VramSizes
  BY DEF DriverTypeOK, PdevType
<1>3. taken \in BOOLEAN /\ d3d \in BOOLEAN /\ (taken => Heap(p))
  <2>1. pdev[p].d3d \in BOOLEAN
    BY <1>2 DEF PdevType
  <2> QED
    BY <2>1 DEF Heap
<1>4. d3d <=> Direct3D
  <2>1. d3d_init(p) <=> cmd_offset # 0 /\ "NO_D3D" \notin ddflags /\ exec
    BY DEF d3d_init, Made
  <2>2. pdev[p].surface = "device" \/ "ENGINE_BITMAP" \in ddflags <=> accepts \/ "ENGINE_BITMAP" \in ddflags
    BY DEF Made, Surface
  <2>3. cmd_offset # 0 => heap_start(p) < heap_end(p)
    BY <1>2, WindowLeavesHeap DEF Heap
  <2> QED
    BY <2>1, <2>2, <2>3, Zenon DEF Direct3D
<1> HIDE DEF taken, d3d
<1>5. pdev' \in [PDEVs -> PdevType]
  BY <1>1, <1>2, <1>3 DEF PdevType
<1>6. /\ \A q \in PDEVs \ {p} : pdev'[q] = pdev[q]
      /\ pdev'[p].mode = pdev[p].mode /\ pdev'[p].cmd = pdev[p].cmd
      /\ pdev'[p].surface = pdev[p].surface
      /\ pdev'[p].d3d = d3d /\ pdev'[p].told = taken
  BY <1>1, <1>2 DEF PdevType
<1>7. d3d = Direct3D
  BY <1>3, <1>4 DEF Direct3D
<1> QED
  BY <1>1, <1>3, <1>4, <1>5, <1>6, <1>7, Zenon
---------------------------------------------------------------------------
LEMMA DriverTypes ==
  ASSUME DriverTypeOK
  PROVE  /\ pdev \in [PDEVs -> PdevType] /\ fb_len \in VramSizes
         /\ gdi.cur \in PDEVs \cup {NULL} /\ gdi.new \in PDEVs \cup {NULL}
         /\ gdi = Gdi(gdi.at, gdi.cur, gdi.new)
         /\ NULL \notin PDEVs
BY DriverAssumption DEF DriverTypeOK, PdevType, Gdi

(* A step of the table leaves what depends on the machine alone. *)
LEMMA SameMachine ==
  ASSUME UNCHANGED machine
  PROVE  /\ cmd_offset' = cmd_offset /\ ModeTable' = ModeTable /\ ListedModes' = ListedModes
         /\ (Direct3D' <=> Direct3D) /\ Surface' = Surface /\ fb_len' = fb_len
         /\ Direct3D' = Direct3D
BY DEF machine, cmd_offset, ModeTable, ListedModes, Direct3D, Surface

(* The parts that say something of a PDEV. *)
LEMMA SamePdev ==
  ASSUME UNCHANGED machine, NEW p, pdev'[p].mode = pdev[p].mode, pdev'[p].cmd = pdev[p].cmd,
         pdev'[p].surface = pdev[p].surface
  PROVE  /\ Made(p)' <=> Made(p)
         /\ Heap(p)' <=> Heap(p)
         /\ ListedMode(p)' <=> ListedMode(p)
BY SameMachine DEF Made, Heap, ListedMode, heap_start, heap_end, Mode

(* Nothing but the cursor, the contexts or the place changes. *)
LEMMA SamePdevs ==
  ASSUME UNCHANGED <<machine, pdev>>
  PROVE  /\ \A p : (Made(p)' <=> Made(p)) /\ (Heap(p)' <=> Heap(p)) /\ (Fresh(p)' <=> Fresh(p))
         /\ UNCHANGED <<reg, ext>> => \A p : Shows(p)' <=> Shows(p)
<1>1. \A p : (Made(p)' <=> Made(p)) /\ (Heap(p)' <=> Heap(p)) /\ (ListedMode(p)' <=> ListedMode(p))
  BY SamePdev
<1> QED
  BY <1>1 DEF Fresh, Shows

LEMMA SameContexts ==
  ASSUME UNCHANGED contexts PROVE InUse' = InUse /\ (ContextsAgree' <=> ContextsAgree)
BY DEF contexts, InUse, ContextsAgree

LEMMA PositionType == Hidden.pos \in Positions
BY DriverAssumption DEF Hidden

LEMMA UnsetListed == Unset \in ListedModes
BY DEF ListedModes

LEMMA DriverInitInv == DriverInit => DriverIInv
<1> SUFFICES ASSUME DriverInit PROVE DriverIInv
  OBVIOUS
<1>1. gdi = [at |-> "boot", cur |-> NULL, new |-> NULL]
  BY DEF DriverInit, Gdi
<1>2. DriverTypeOK
  <2>1. /\ fb_len \in VramSizes /\ exec \in BOOLEAN /\ accepts \in BOOLEAN /\ ddflags \in FlagSets
        /\ sprite \in {"none", "shape"}
    BY DEF DriverInit
  <2>2. mouse \in [pos : Positions, on : BOOLEAN]
    BY PositionType DEF DriverInit, Hidden
  <2>3. reg \in [enable : BOOLEAN, mode : ListedModes]
        /\ ext \in [mapped : BOOLEAN, cur_mode : ListedModes, enabled : BOOLEAN]
    BY UnsetListed DEF DriverInit, Off, Driver
  <2>4. pdev \in [PDEVs -> PdevType]
    BY UnsetListed DEF DriverInit, NoPdev, PdevType
  <2>5. host_ctx \subseteq 1..MaxContexts /\ d3d_ctx \in [1..MaxContexts -> Processes \cup {Free}]
        /\ d3d_pdev \in PDEVs \cup {NULL} /\ running \subseteq Processes /\ offered \subseteq BOOLEAN
    BY DEF DriverInit, NoContexts
  <2> QED
    BY <1>1, <2>1, <2>2, <2>3, <2>4, <2>5 DEF DriverTypeOK, PdevType
<1>3. InUse = {}
  BY DEF DriverInit, InUse, NoContexts
<1>4. ContextsAgree
  BY <1>3 DEF ContextsAgree, DriverInit
<1>5. \A p \in PDEVs : ~pdev[p].told
  BY DEF DriverInit, NoPdev
<1> QED
  BY <1>1, <1>2, <1>3, <1>4, <1>5
  DEF DriverIInv, PdevsOfPlace, ScreenOfPlace, PdevsMade, CallsGoHome, DriverInit

LEMMA FindAdapterInv == ASSUME DriverIInv, NEW mapped \in BOOLEAN, FindAdapter(mapped) PROVE DriverIInv'
<1>1. /\ UNCHANGED <<machine, reg, cursor, contexts, pdev, d3d_pdev, offered>>
      /\ ext' = [Driver EXCEPT !.mapped = mapped] /\ gdi' = Gdi("idle", NULL, NULL) /\ gdi.at = "boot"
  BY DEF FindAdapter
<1>2. gdi'.at = "idle" /\ gdi'.cur = NULL /\ gdi'.new = NULL
  BY <1>1 DEF Gdi
<1>3. DriverTypeOK'
  <2>1. ext' \in [mapped : BOOLEAN, cur_mode : ListedModes', enabled : BOOLEAN]
    BY <1>1, UnsetListed, SameMachine DEF Driver
  <2>2. gdi' \in [at : {"boot", "idle", "off", "made", "surface", "failed", "retire", "stopped"},
                  cur : PDEVs \cup {NULL}, new : PDEVs \cup {NULL}]
    BY <1>1 DEF Gdi
  <2> QED
    BY <1>1, <2>1, <2>2, SameMachine DEF DriverIInv, DriverTypeOK, machine, cursor, contexts
<1>4. gdi.cur = NULL
  BY <1>1 DEF DriverIInv, PdevsOfPlace
<1>5. PdevsMade'
  BY <1>1, <1>2, SamePdevs, SameMachine DEF DriverIInv, PdevsMade
<1>6. CallsGoHome'
  BY <1>1, <1>2, <1>4, SameContexts, SameMachine DEF DriverIInv, CallsGoHome
<1> QED
  BY <1>1, <1>2, <1>3, <1>5, <1>6, SameContexts DEF DriverIInv, PdevsOfPlace, ScreenOfPlace

(* The screen is given up. *)
LEMMA AssertModeOffInv == ASSUME DriverIInv, AssertModeOff PROVE DriverIInv'
<1>1. /\ UNCHANGED <<machine, sprite, contexts, pdev, d3d_pdev, offered>>
      /\ gdi.at = "idle" /\ gdi.cur # NULL /\ gdi' = [gdi EXCEPT !.at = "off"]
      /\ reg' = [reg EXCEPT !.enable = FALSE] /\ ext' = [ext EXCEPT !.enabled = FALSE]
      /\ mouse' = [mouse EXCEPT !.on = FALSE]
  BY DEF AssertModeOff, reset_to_vga, Hide, cursor_show
<1>2. gdi'.at = "off" /\ gdi'.cur = gdi.cur /\ gdi'.new = gdi.new /\ ~mouse'.on
  BY <1>1 DEF DriverIInv, DriverTypeOK
<1>3. DriverTypeOK'
  BY <1>1, SameMachine DEF DriverIInv, DriverTypeOK, machine, contexts
<1>4. PdevsMade'
  BY <1>1, <1>2, SamePdevs, SameMachine DEF DriverIInv, PdevsMade
<1>5. CallsGoHome'
  BY <1>1, <1>2, SameContexts, SameMachine DEF DriverIInv, CallsGoHome
<1> QED
  BY <1>1, <1>2, <1>3, <1>4, <1>5, SameContexts DEF DriverIInv, PdevsOfPlace, ScreenOfPlace

(* A PDEV is made, in a mode of the list. *)
LEMMA EnablePDEVInv ==
  ASSUME DriverIInv, NEW p \in PDEVs, NEW r \in Requests, EnablePDEV(p, r)
  PROVE  DriverIInv'
<1>1. /\ UNCHANGED <<machine, reg, cursor, contexts, ext, d3d_pdev, offered>>
      /\ gdi.at = "off" \/ (gdi.at = "idle" /\ gdi.cur = NULL)
      /\ p # gdi.cur /\ gdi' = Gdi("made", gdi.cur, p)
  BY DEF EnablePDEV
<1>2. PICK i \in ModeTable : pdev' = [pdev EXCEPT ![p] = [NoPdev EXCEPT !.mode = fb_mode_entry(i)]]
  BY DEF EnablePDEV, pick_mode
<1>3. gdi'.at = "made" /\ gdi'.cur = gdi.cur /\ gdi'.new = p /\ p # NULL
  BY <1>1, DriverTypes DEF DriverIInv, Gdi
<1>4. /\ \A q \in PDEVs \ {p} : pdev'[q] = pdev[q]
      /\ pdev'[p].mode = fb_mode_entry(i) /\ ~pdev'[p].d3d /\ ~pdev'[p].told
      /\ pdev' \in [PDEVs -> PdevType]
  <2>1. fb_mode_entry(i) \in ListedModes
    BY DEF ListedModes
  <2> QED
    BY <1>2, <2>1, DriverTypes DEF DriverIInv, PdevType, NoPdev
<1>5. DriverTypeOK'
  <2>1. gdi' \in [at : {"boot", "idle", "off", "made", "surface", "failed", "retire", "stopped"},
                  cur : PDEVs \cup {NULL}, new : PDEVs \cup {NULL}]
    BY <1>1, DriverTypes DEF DriverIInv, Gdi
  <2> QED
    BY <1>1, <1>4, <2>1, SameMachine DEF DriverIInv, DriverTypeOK, machine, cursor, contexts, PdevType
<1>6. Fresh(p)'
  BY <1>1, <1>4, SameMachine DEF Fresh, ListedMode
<1>7. \A q \in PDEVs \ {p} : (Made(q)' <=> Made(q)) /\ (Heap(q)' <=> Heap(q)) /\ pdev'[q] = pdev[q]
  BY <1>1, <1>4, SamePdev
<1>8. PdevsMade'
  <2>1. gdi'.cur # NULL => Made(gdi.cur)' /\ (pdev'[gdi.cur].d3d <=> Direct3D')
    BY <1>1, <1>3, <1>7, DriverTypes, SameMachine DEF DriverIInv, PdevsMade
  <2>2. \A q \in PDEVs : pdev'[q].told => Made(q)' /\ Heap(q)' /\ (pdev'[q].d3d <=> Direct3D')
    BY <1>1, <1>4, <1>7, SameMachine DEF DriverIInv, PdevsMade
  <2> QED
    BY <1>3, <1>6, <2>1, <2>2 DEF PdevsMade, Made, ListedMode
<1>9. CallsGoHome'
  BY <1>1, <1>3, SameContexts, SameMachine DEF DriverIInv, CallsGoHome
<1> QED
  BY <1>1, <1>3, <1>5, <1>8, <1>9, SameContexts
  DEF DriverIInv, PdevsOfPlace, ScreenOfPlace, cursor
LEMMA SetModeShows ==
  ASSUME DriverTypeOK, NEW p \in PDEVs, set_mode(p), pdev'[p].mode = pdev[p].mode, UNCHANGED machine
  PROVE  /\ Shows(p)'
         /\ reg' \in [enable : BOOLEAN, mode : ListedModes]
         /\ ext' \in [mapped : BOOLEAN, cur_mode : ListedModes, enabled : BOOLEAN]
<1>1. pdev[p].mode \in ListedModes
  BY DriverTypes DEF PdevType
<1>2. /\ reg' = [enable |-> TRUE, mode |-> pdev[p].mode]
      /\ ext' = [ext EXCEPT !.cur_mode = pdev[p].mode, !.enabled = TRUE]
  BY DEF set_mode
<1>3. ext' \in [mapped : BOOLEAN, cur_mode : ListedModes, enabled : BOOLEAN]
      /\ ext'.cur_mode = pdev[p].mode /\ ext'.enabled
  BY <1>1, <1>2 DEF DriverTypeOK
<1> QED
  BY <1>1, <1>2, <1>3 DEF Shows

LEMMA EnableSurfaceFailsInv == ASSUME DriverIInv, EnableSurfaceFails PROVE DriverIInv'
<1>1. /\ UNCHANGED <<machine, cursor, contexts, pdev, d3d_pdev, offered>>
      /\ gdi.at = "made" /\ gdi' = [gdi EXCEPT !.at = "failed"] /\ set_mode(gdi.new)
  BY DEF EnableSurfaceFails
<1>2. gdi'.at = "failed" /\ gdi'.cur = gdi.cur /\ gdi'.new = gdi.new /\ gdi.new \in PDEVs
  BY <1>1, DriverTypes DEF DriverIInv, DriverTypeOK, PdevsOfPlace
<1>3. DriverTypeOK'
  <2>1. /\ reg' \in [enable : BOOLEAN, mode : ListedModes]
        /\ ext' \in [mapped : BOOLEAN, cur_mode : ListedModes, enabled : BOOLEAN]
    BY <1>1, <1>2, SetModeShows DEF DriverIInv
  <2> QED
    BY <1>1, <2>1, SameMachine DEF DriverIInv, DriverTypeOK, machine, cursor, contexts
<1>4. PdevsMade'
  BY <1>1, <1>2, SamePdevs, SameMachine DEF DriverIInv, PdevsMade
<1>5. CallsGoHome'
  BY <1>1, <1>2, SameContexts, SameMachine DEF DriverIInv, CallsGoHome
<1> QED
  BY <1>1, <1>2, <1>3, <1>4, <1>5, SameContexts DEF DriverIInv, PdevsOfPlace, ScreenOfPlace, cursor

LEMMA EnableSurfaceInv == ASSUME DriverIInv, EnableSurface PROVE DriverIInv'
<1>1. /\ UNCHANGED <<machine, cursor, contexts, d3d_pdev, offered>>
      /\ gdi.at = "made" /\ gdi' = [gdi EXCEPT !.at = "surface"] /\ set_mode(gdi.new)
      /\ pdev' = [pdev EXCEPT ![gdi.new].surface = Surface, ![gdi.new].cmd = cmd_offset]
  BY DEF EnableSurface, Surface
<1>2. gdi'.at = "surface" /\ gdi'.cur = gdi.cur /\ gdi'.new = gdi.new /\ gdi.new \in PDEVs
      /\ gdi.new # gdi.cur
  BY <1>1, DriverTypes DEF DriverIInv, DriverTypeOK, PdevsOfPlace
<1>3. /\ \A q \in PDEVs \ {gdi.new} : pdev'[q] = pdev[q]
      /\ pdev'[gdi.new].mode = pdev[gdi.new].mode
      /\ pdev'[gdi.new].d3d = pdev[gdi.new].d3d /\ pdev'[gdi.new].told = pdev[gdi.new].told
      /\ pdev'[gdi.new].surface = Surface /\ pdev'[gdi.new].cmd = cmd_offset
      /\ pdev' \in [PDEVs -> PdevType]
  <2>1. Surface \in {"device", "bitmap"} /\ cmd_offset \in {0, cmd_offset}
    BY DEF Surface
  <2> QED
    BY <1>1, <1>2, <2>1, DriverTypes DEF DriverIInv, PdevType
<1>4. Shows(gdi.new)' /\ DriverTypeOK'
  <2>1. /\ reg' \in [enable : BOOLEAN, mode : ListedModes]
        /\ ext' \in [mapped : BOOLEAN, cur_mode : ListedModes, enabled : BOOLEAN]
        /\ reg' = [enable |-> TRUE, mode |-> pdev'[gdi'.new].mode]
        /\ ext'.enabled /\ ext'.cur_mode = pdev'[gdi'.new].mode
    BY <1>1, <1>2, <1>3, SetModeShows DEF DriverIInv, Shows
  <2> QED
    BY <1>1, <1>2, <1>3, <2>1, SameMachine
    DEF DriverIInv, DriverTypeOK, machine, cursor, contexts, PdevType, Shows
<1>5. \A q \in PDEVs \ {gdi.new} : (Made(q)' <=> Made(q)) /\ (Heap(q)' <=> Heap(q)) /\ pdev'[q] = pdev[q]
  BY <1>1, <1>3, SamePdev
<1>6. PdevsMade'
  <2>1. /\ pdev'[gdi.new].mode = pdev[gdi.new].mode /\ ListedMode(gdi.new)
        /\ ~pdev'[gdi.new].d3d /\ ~pdev'[gdi.new].told
        /\ pdev'[gdi.new].surface = Surface' /\ pdev'[gdi.new].cmd = cmd_offset'
        /\ ModeTable' = ModeTable
    BY <1>1, <1>3, SameMachine DEF DriverIInv, PdevsMade, Fresh
  <2>2. \E i \in ModeTable' : pdev'[gdi'.new].mode = fb_mode_entry(i)
    BY <1>2, <2>1 DEF ListedMode
  <2>3. Made(gdi.new)' /\ Fresh(gdi.new)'
    BY <1>2, <2>1, <2>2 DEF Made, Fresh, ListedMode
  <2>4. gdi'.cur # NULL => Made(gdi.cur)' /\ (pdev'[gdi.cur].d3d <=> Direct3D')
    BY <1>1, <1>2, <1>5, DriverTypes, SameMachine DEF DriverIInv, PdevsMade, Made, ListedMode
  <2>5. \A q \in PDEVs : pdev'[q].told => Made(q)' /\ Heap(q)' /\ (pdev'[q].d3d <=> Direct3D')
    BY <1>1, <1>5, <2>1, SameMachine DEF DriverIInv, PdevsMade
  <2>6. gdi'.cur # NULL => Made(gdi.cur)' /\ (pdev'[gdi'.cur].d3d <=> Direct3D')
    BY <1>2, <2>4
  <2> QED
    BY <1>2, <2>3, <2>5, <2>6 DEF PdevsMade
<1>7. CallsGoHome'
  BY <1>1, <1>2, SameContexts, SameMachine DEF DriverIInv, CallsGoHome
<1> QED
  BY <1>1, <1>2, <1>4, <1>6, <1>7, SameContexts DEF DriverIInv, PdevsOfPlace, ScreenOfPlace, cursor

(* A PDEV that goes was not shown yet, or is no longer. *)
LEMMA Gone ==
  ASSUME DriverIInv, UNCHANGED machine, gdi.new \in PDEVs, gdi.new # gdi.cur,
         pdev' = [pdev EXCEPT ![gdi.new] = NoPdev]
  PROVE  /\ pdev' \in [PDEVs -> PdevType]
         /\ gdi.cur # NULL => /\ \E i \in ModeTable' : pdev'[gdi.cur].mode = fb_mode_entry(i)
                              /\ pdev'[gdi.cur] = pdev[gdi.cur]
                              /\ pdev'[gdi.cur].cmd = cmd_offset' /\ pdev'[gdi.cur].surface = Surface'
                              /\ (pdev'[gdi.cur].d3d <=> Direct3D')
         /\ \A q \in PDEVs : pdev'[q].told => Made(q)' /\ Heap(q)' /\ (pdev'[q].d3d <=> Direct3D')
<1>1. /\ pdev' \in [PDEVs -> PdevType] /\ \A q \in PDEVs \ {gdi.new} : pdev'[q] = pdev[q]
      /\ ~pdev'[gdi.new].told
  BY UnsetListed, DriverTypes DEF DriverIInv, PdevType, NoPdev
<1>2. \A q \in PDEVs \ {gdi.new} : (Made(q)' <=> Made(q)) /\ (Heap(q)' <=> Heap(q))
  BY <1>1, SamePdev
<1>3. \A q \in PDEVs : pdev'[q].told => Made(q)' /\ Heap(q)' /\ (pdev'[q].d3d <=> Direct3D')
  BY <1>1, <1>2, SameMachine DEF DriverIInv, PdevsMade
<1>4. gdi.cur # NULL => gdi.cur \in PDEVs \ {gdi.new} /\ Made(gdi.cur) /\ (pdev[gdi.cur].d3d <=> Direct3D)
  BY DriverTypes DEF DriverIInv, PdevsMade
<1> QED
  BY <1>1, <1>3, <1>4, SameMachine DEF Made, ListedMode

LEMMA DisablePDEVInv == ASSUME DriverIInv, DisablePDEV PROVE DriverIInv'
<1>1. /\ UNCHANGED <<machine, reg, cursor, contexts, ext, d3d_pdev, offered>>
      /\ gdi.at = "failed" /\ pdev' = [pdev EXCEPT ![gdi.new] = NoPdev]
      /\ gdi' = Gdi(IF gdi.cur = NULL THEN "idle" ELSE "off", gdi.cur, NULL)
  BY DEF DisablePDEV
<1>2. /\ gdi'.at = (IF gdi.cur = NULL THEN "idle" ELSE "off") /\ gdi'.cur = gdi.cur /\ gdi'.new = NULL
      /\ gdi.new \in PDEVs /\ gdi.new # gdi.cur
  BY <1>1, DriverTypes DEF DriverIInv, PdevsOfPlace, Gdi
<1>3. DriverTypeOK'
  <2>1. gdi' \in [at : {"boot", "idle", "off", "made", "surface", "failed", "retire", "stopped"},
                  cur : PDEVs \cup {NULL}, new : PDEVs \cup {NULL}]
    BY <1>1, DriverTypes DEF DriverIInv, Gdi
  <2> QED
    BY <1>1, <1>2, <2>1, Gone, SameMachine
    DEF DriverIInv, DriverTypeOK, machine, cursor, contexts, PdevType
<1>4. PdevsMade'
  BY <1>1, <1>2, Gone DEF PdevsMade, Made, ListedMode
<1>5. CallsGoHome'
  BY <1>1, <1>2, SameContexts, SameMachine DEF DriverIInv, CallsGoHome
<1> QED
  BY <1>1, <1>2, <1>3, <1>4, <1>5, SameContexts
  DEF DriverIInv, PdevsOfPlace, ScreenOfPlace, cursor

(* The new PDEV is asked, and Direct3D's calls go to it from now on. *)
LEMMA ShownInv == ASSUME DriverIInv, Shown PROVE DriverIInv'
<1>1. /\ UNCHANGED <<machine, reg, cursor, contexts, ext>>
      /\ gdi.at = "surface" /\ EnableDirectDraw(gdi.new)
      /\ gdi' = IF gdi.cur = NULL THEN Gdi("idle", gdi.new, NULL) ELSE Gdi("retire", gdi.new, gdi.cur)
  BY DEF Shown
<1>2. /\ gdi.new \in PDEVs /\ gdi.new # gdi.cur /\ Made(gdi.new) /\ ~pdev[gdi.new].d3d
      /\ Shows(gdi.new)
  BY <1>1, DriverTypes DEF DriverIInv, PdevsOfPlace, PdevsMade, ScreenOfPlace, Fresh
<1>3. /\ gdi'.at = (IF gdi.cur = NULL THEN "idle" ELSE "retire") /\ gdi'.cur = gdi.new
      /\ gdi'.new = (IF gdi.cur = NULL THEN NULL ELSE gdi.cur) /\ gdi'.new # gdi'.cur
      /\ gdi.new # NULL
  BY <1>1, <1>2, DriverTypes DEF DriverIInv, Gdi
<1> DEFINE n == gdi.new
<1>4. /\ pdev' \in [PDEVs -> PdevType]
      /\ \A q \in PDEVs \ {n} : pdev'[q] = pdev[q]
      /\ pdev'[n].mode = pdev[n].mode /\ pdev'[n].cmd = pdev[n].cmd
      /\ pdev'[n].surface = pdev[n].surface
      /\ pdev'[n].d3d <=> Direct3D
      /\ pdev'[n].told => Heap(n)
      /\ d3d_pdev' = IF Direct3D THEN n ELSE d3d_pdev
      /\ offered' = offered \cup {Direct3D}
  BY <1>1, <1>2, Asked DEF DriverIInv
<1> HIDE DEF n
<1>5. \A q \in PDEVs : (Made(q)' <=> Made(q)) /\ (Heap(q)' <=> Heap(q))
  <2> SUFFICES ASSUME NEW q \in PDEVs PROVE (Made(q)' <=> Made(q)) /\ (Heap(q)' <=> Heap(q))
    OBVIOUS
  <2>1. pdev'[q].mode = pdev[q].mode /\ pdev'[q].cmd = pdev[q].cmd /\ pdev'[q].surface = pdev[q].surface
    BY <1>4
  <2> QED
    BY <1>1, <2>1, SamePdev
<1>6. DriverTypeOK'
  <2>1. gdi' \in [at : {"boot", "idle", "off", "made", "surface", "failed", "retire", "stopped"},
                  cur : PDEVs \cup {NULL}, new : PDEVs \cup {NULL}]
    BY <1>1, <1>2, DriverTypes DEF DriverIInv, Gdi
  <2>2. offered' \subseteq BOOLEAN /\ d3d_pdev' \in PDEVs \cup {NULL}
    <3>1. Direct3D \in BOOLEAN
      BY DEF Direct3D
    <3> QED
      BY <1>2, <1>4, <3>1 DEF DriverIInv, DriverTypeOK, n
  <2> QED
    BY <1>1, <1>4, <2>1, <2>2, SameMachine
    DEF DriverIInv, DriverTypeOK, machine, cursor, contexts, PdevType
<1>7. Made(n) /\ n \in PDEVs /\ gdi'.cur = n
  BY <1>2, <1>3 DEF n
<1>8. PdevsMade'
  <2>2. \E i \in ModeTable' : pdev'[gdi'.cur].mode = fb_mode_entry(i)
    BY <1>1, <1>4, <1>7, SameMachine DEF Made, ListedMode
  <2>3. pdev'[gdi'.cur].cmd = cmd_offset' /\ pdev'[gdi'.cur].surface = Surface'
        /\ (pdev'[gdi'.cur].d3d <=> Direct3D')
    BY <1>1, <1>4, <1>7, SameMachine DEF Made
  <2>4. \A q \in PDEVs : pdev'[q].told => Made(q)' /\ Heap(q)' /\ (pdev'[q].d3d <=> Direct3D')
    BY <1>1, <1>4, <1>5, <1>7, SameMachine DEF DriverIInv, PdevsMade
  <2>5. gdi'.at \notin {"made", "surface", "failed"}
    BY <1>3
  <2> QED
    BY <2>2, <2>3, <2>4, <2>5 DEF PdevsMade, Made, ListedMode
<1>9. CallsGoHome'
  <2>1. InUse' # {} => Direct3D
    BY <1>1, SameContexts DEF DriverIInv, CallsGoHome
  <2>2. offered' \subseteq {Direct3D}
    BY <1>4 DEF DriverIInv, CallsGoHome
  <2> QED
    BY <1>1, <1>3, <1>4, <1>7, <2>1, <2>2, SameMachine DEF CallsGoHome
<1>10. ScreenOfPlace'
  <2>1. reg' = reg /\ ext' = ext /\ pdev'[gdi'.cur].mode = pdev[gdi.new].mode
    BY <1>1, <1>4, <1>7 DEF n
  <2> QED
    BY <1>2, <1>3, <2>1 DEF ScreenOfPlace, Shows
<1> QED
  BY <1>1, <1>3, <1>6, <1>8, <1>9, <1>10, SameContexts DEF DriverIInv, PdevsOfPlace

LEMMA RetireInv == ASSUME DriverIInv, Retire PROVE DriverIInv'
<1>1. /\ UNCHANGED <<machine, reg, cursor, contexts, ext, offered>>
      /\ gdi.at = "retire" /\ pdev' = [pdev EXCEPT ![gdi.new] = NoPdev]
      /\ gdi' = Gdi("idle", gdi.cur, NULL)
      /\ d3d_pdev' = IF pdev[gdi.new].d3d /\ d3d_pdev = gdi.new THEN NULL ELSE d3d_pdev
  BY DEF Retire, Forget
<1>2. /\ gdi'.at = "idle" /\ gdi'.cur = gdi.cur /\ gdi'.new = NULL
      /\ gdi.new \in PDEVs /\ gdi.new # gdi.cur /\ gdi.cur # NULL
  BY <1>1, DriverTypes DEF DriverIInv, PdevsOfPlace, Gdi
<1>3. DriverTypeOK'
  <2>1. gdi' \in [at : {"boot", "idle", "off", "made", "surface", "failed", "retire", "stopped"},
                  cur : PDEVs \cup {NULL}, new : PDEVs \cup {NULL}]
    BY <1>1, DriverTypes DEF DriverIInv, Gdi
  <2> QED
    BY <1>1, <1>2, <2>1, Gone, SameMachine
    DEF DriverIInv, DriverTypeOK, machine, cursor, contexts, PdevType
<1>4. PdevsMade'
  BY <1>1, <1>2, Gone DEF PdevsMade, Made, ListedMode
<1>5. CallsGoHome'
  BY <1>1, <1>2, SameContexts, SameMachine DEF DriverIInv, CallsGoHome
<1>6. ScreenOfPlace'
  <2>1. pdev'[gdi.cur] = pdev[gdi.cur] /\ Shows(gdi.cur)
    BY <1>1, <1>2, Gone DEF DriverIInv, ScreenOfPlace
  <2> QED
    BY <1>1, <1>2, <2>1 DEF ScreenOfPlace, Shows
<1> QED
  BY <1>1, <1>2, <1>3, <1>4, <1>5, <1>6, SameContexts DEF DriverIInv, PdevsOfPlace

(* The old PDEV is shown and asked again. *)
LEMMA AssertModeOnInv == ASSUME DriverIInv, AssertModeOn PROVE DriverIInv'
<1>1. /\ UNCHANGED <<machine, cursor, contexts>>
      /\ gdi.at = "off" /\ set_mode(gdi.cur) /\ EnableDirectDraw(gdi.cur)
      /\ gdi' = [gdi EXCEPT !.at = "idle"]
  BY DEF AssertModeOn, AssertMode
<1>2. /\ gdi.cur \in PDEVs /\ Made(gdi.cur) /\ (pdev[gdi.cur].d3d <=> Direct3D)
      /\ gdi.new = NULL
  BY <1>1, DriverTypes DEF DriverIInv, PdevsOfPlace, PdevsMade
<1>3. gdi'.at = "idle" /\ gdi'.cur = gdi.cur /\ gdi'.new = NULL /\ gdi.cur # NULL
  BY <1>1, <1>2, DriverTypes DEF DriverIInv, DriverTypeOK
<1> DEFINE n == gdi.cur
<1>4. /\ pdev' \in [PDEVs -> PdevType]
      /\ \A q \in PDEVs \ {n} : pdev'[q] = pdev[q]
      /\ pdev'[n].mode = pdev[n].mode /\ pdev'[n].cmd = pdev[n].cmd
      /\ pdev'[n].surface = pdev[n].surface
      /\ pdev'[n].d3d <=> Direct3D
      /\ pdev'[n].told => Heap(n)
      /\ d3d_pdev' = d3d_pdev
      /\ offered' = offered \cup {Direct3D}
  BY <1>1, <1>2, Asked DEF DriverIInv
<1>5. /\ reg' \in [enable : BOOLEAN, mode : ListedModes]
      /\ ext' \in [mapped : BOOLEAN, cur_mode : ListedModes, enabled : BOOLEAN]
      /\ reg' = [enable |-> TRUE, mode |-> pdev'[gdi'.cur].mode]
      /\ ext'.enabled /\ ext'.cur_mode = pdev'[gdi'.cur].mode
  BY <1>1, <1>2, <1>3, <1>4, SetModeShows DEF DriverIInv, Shows
<1>6. n \in PDEVs /\ gdi'.cur = n /\ Made(n)
  BY <1>2, <1>3
<1> HIDE DEF n
<1>7. \A q \in PDEVs : (Made(q)' <=> Made(q)) /\ (Heap(q)' <=> Heap(q))
  <2> SUFFICES ASSUME NEW q \in PDEVs PROVE (Made(q)' <=> Made(q)) /\ (Heap(q)' <=> Heap(q))
    OBVIOUS
  <2>1. pdev'[q].mode = pdev[q].mode /\ pdev'[q].cmd = pdev[q].cmd /\ pdev'[q].surface = pdev[q].surface
    BY <1>4
  <2> QED
    BY <1>1, <2>1, SamePdev
<1>8. DriverTypeOK'
  <2>1. offered' \subseteq BOOLEAN
    BY <1>4 DEF Direct3D, DriverIInv, DriverTypeOK
  <2>2. gdi' \in [at : {"boot", "idle", "off", "made", "surface", "failed", "retire", "stopped"},
                  cur : PDEVs \cup {NULL}, new : PDEVs \cup {NULL}]
    BY <1>1 DEF DriverIInv, DriverTypeOK
  <2> QED
    BY <1>1, <1>4, <1>5, <2>1, <2>2, SameMachine
    DEF DriverIInv, DriverTypeOK, machine, cursor, contexts, PdevType
<1>9. PdevsMade'
  <2>1. \E i \in ModeTable' : pdev'[gdi'.cur].mode = fb_mode_entry(i)
    BY <1>1, <1>4, <1>6, SameMachine DEF Made, ListedMode
  <2>2. pdev'[gdi'.cur].cmd = cmd_offset' /\ pdev'[gdi'.cur].surface = Surface'
        /\ (pdev'[gdi'.cur].d3d <=> Direct3D')
    BY <1>1, <1>4, <1>6, SameMachine DEF Made
  <2>3. \A q \in PDEVs : pdev'[q].told => Made(q)' /\ Heap(q)' /\ (pdev'[q].d3d <=> Direct3D')
    BY <1>1, <1>4, <1>6, <1>7, SameMachine DEF DriverIInv, PdevsMade
  <2>4. gdi'.at \notin {"made", "surface", "failed"}
    BY <1>3
  <2> QED
    BY <2>1, <2>2, <2>3, <2>4 DEF PdevsMade, Made, ListedMode
<1>10. CallsGoHome'
  <2>1. InUse' # {} => Direct3D
    BY <1>1, SameContexts DEF DriverIInv, CallsGoHome
  <2>2. offered' \subseteq {Direct3D}
    BY <1>4 DEF DriverIInv, CallsGoHome
  <2>3. Direct3D => d3d_pdev = gdi.cur
    BY <1>1, <1>3 DEF DriverIInv, CallsGoHome
  <2> QED
    BY <1>1, <1>3, <1>4, <2>1, <2>2, <2>3, SameMachine DEF CallsGoHome
<1> QED
  BY <1>1, <1>3, <1>5, <1>8, <1>9, <1>10, SameContexts DEF DriverIInv, PdevsOfPlace, ScreenOfPlace, Shows
(* The cursor is apart from all this, and drawn only where GDI draws. *)
LEMMA CursorInv ==
  ASSUME DriverIInv, UNCHANGED <<machine, reg, contexts, ext, pdev, d3d_pdev, gdi, offered>>,
         gdi.at = "idle", sprite' \in {"none", "shape"}, mouse' \in [pos : Positions, on : BOOLEAN]
  PROVE  DriverIInv'
<1>1. DriverTypeOK'
  BY SameMachine DEF DriverIInv, DriverTypeOK, machine, contexts
<1>2. PdevsMade'
  BY SamePdevs, SameMachine DEF DriverIInv, PdevsMade
<1>3. CallsGoHome'
  BY SameContexts, SameMachine DEF DriverIInv, CallsGoHome
<1> QED
  BY <1>1, <1>2, <1>3, SameContexts DEF DriverIInv, PdevsOfPlace, ScreenOfPlace, Shows

LEMMA CursorSteps ==
  ASSUME DriverIInv, NEW q \in Positions,
         HidePointer \/ MovePointer(q) \/ \E side \in {32, 64, 96} : SetPointerShape(side, q)
  PROVE  DriverIInv'
<1>1. mouse \in [pos : Positions, on : BOOLEAN] /\ sprite \in {"none", "shape"}
  BY DEF DriverIInv, DriverTypeOK
<1>2. CASE HidePointer
  BY <1>1, <1>2, CursorInv DEF HidePointer, Hide, cursor_show, GdiDraws
<1>3. CASE MovePointer(q)
  BY <1>1, <1>3, CursorInv DEF MovePointer, cursor_show, GdiDraws
<1>4. CASE \E side \in {32, 64, 96} : SetPointerShape(side, q)
  <2>1. PICK side \in {32, 64, 96} : SetPointerShape(side, q)
    BY <1>4
  <2>2. mouse' = [pos |-> q, on |-> TRUE] /\ (sprite' = "shape" \/ sprite' = sprite)
        /\ UNCHANGED <<machine, reg, contexts, ext, pdev, d3d_pdev, gdi, offered>> /\ gdi.at = "idle"
    BY <2>1 DEF SetPointerShape, cursor_show, GdiDraws
  <2> QED
    BY <1>1, <2>2, CursorInv
<1> QED
  BY <1>2, <1>3, <1>4

---------------------------------------------------------------------------
(* What is left of the invariant when only contexts change. *)
LEMMA ContextStep ==
  ASSUME DriverIInv, UNCHANGED <<machine, reg, cursor, ext, pdev, d3d_pdev, gdi, offered>>,
         d3d_ctx' \in [1..MaxContexts -> Processes \cup {Free}], running' \subseteq Processes,
         host_ctx' = InUse', \A i \in InUse' : d3d_ctx'[i] \in running',
         InUse' # {} => Direct3D /\ gdi.cur # NULL
  PROVE  DriverIInv'
<1>1. host_ctx' \subseteq 1..MaxContexts
  BY DEF InUse
<1>2. DriverTypeOK'
  BY <1>1, SameMachine DEF DriverIInv, DriverTypeOK, machine, cursor
<1>3. PdevsMade'
  BY SamePdevs, SameMachine DEF DriverIInv, PdevsMade
<1>4. CallsGoHome'
  BY SameMachine DEF DriverIInv, CallsGoHome
<1> QED
  BY <1>2, <1>3, <1>4 DEF DriverIInv, PdevsOfPlace, ScreenOfPlace, Shows, ContextsAgree, cursor

LEMMA ContextCreateInv == ASSUME DriverIInv, NEW pid \in Processes, ContextCreate(pid) PROVE DriverIInv'
<1> DEFINE i == CHOOSE i \in 1..MaxContexts \ InUse : \A j \in 1..MaxContexts \ InUse : i <= j
<1>1. /\ UNCHANGED <<machine, reg, cursor, ext, pdev, d3d_pdev, gdi, offered>>
      /\ gdi.at = "idle" /\ gdi.cur # NULL /\ pdev[gdi.cur].d3d /\ InUse # 1..MaxContexts
      /\ running' = running \cup {pid}
      /\ IF i \in host_ctx
           THEN UNCHANGED <<host_ctx, d3d_ctx>>
           ELSE host_ctx' = host_ctx \cup {i} /\ d3d_ctx' = [d3d_ctx EXCEPT ![i] = pid]
  BY DEF ContextCreate, GdiDraws
<1>2. i \in 1..MaxContexts \ InUse
  <2>1. InUse \subseteq 1..MaxContexts /\ 1..MaxContexts \ InUse # {}
    BY <1>1 DEF InUse
  <2> DEFINE S == 1..MaxContexts \ InUse
  <2>2. PICK k \in S : \A j \in S : k <= j
    <3>1. S \subseteq Nat /\ S # {}
      BY <2>1
    <3>2. PICK x \in S : \A y \in S : ~ (<<y, x>> \in OpToRel(<, Nat))
      BY <3>1, WFMin, NatLessThanWellFounded
    <3>3. \A y \in S : y \in Nat /\ x \in Nat /\ ~ (y < x)
      BY <3>1, <3>2 DEF OpToRel
    <3>4. \A y \in S : x <= y
      BY <3>3
    <3> QED
      BY <3>4
  <2> QED
    BY <2>2
<1> HIDE DEF i
<1>3. Direct3D
  BY <1>1 DEF DriverIInv, PdevsMade
<1>4. i \notin host_ctx
  BY <1>2 DEF DriverIInv, ContextsAgree
<1>5. host_ctx' = host_ctx \cup {i} /\ d3d_ctx' = [d3d_ctx EXCEPT ![i] = pid]
  BY <1>1, <1>4
<1>6. d3d_ctx \in [1..MaxContexts -> Processes \cup {Free}] /\ running \subseteq Processes /\ pid # Free
  BY DriverAssumption DEF DriverIInv, DriverTypeOK
<1>7. InUse' = InUse \cup {i}
  BY <1>2, <1>5, <1>6 DEF InUse
<1>8. \A j \in InUse' : d3d_ctx'[j] \in running'
  <2> SUFFICES ASSUME NEW j \in InUse' PROVE d3d_ctx'[j] \in running'
    OBVIOUS
  <2>1. CASE j = i
    BY <1>1, <1>2, <1>5, <1>6, <2>1
  <2>2. CASE j # i
    <3>1. j \in InUse /\ d3d_ctx'[j] = d3d_ctx[j]
      BY <1>5, <1>6, <1>7, <2>2 DEF InUse
    <3> QED
      BY <1>1, <3>1 DEF DriverIInv, ContextsAgree
  <2> QED
    BY <2>1, <2>2
<1>9. host_ctx' = InUse'
  BY <1>5, <1>7 DEF DriverIInv, ContextsAgree
<1>10. d3d_ctx' \in [1..MaxContexts -> Processes \cup {Free}] /\ running' \subseteq Processes
  BY <1>1, <1>5, <1>6
<1> QED
  BY <1>1, <1>3, <1>8, <1>9, <1>10, ContextStep

(* With contexts in use, there is a PDEV for Direct3D's calls, and they are gone. *)
LEMMA Destroyed ==
  ASSUME DriverIInv, NEW S \in SUBSET InUse, Destroy(S), gdi.at # "stopped"
  PROVE  /\ UNCHANGED <<machine, reg, cursor, ext, pdev, d3d_pdev, gdi, offered>>
         /\ host_ctx' = InUse \ S /\ InUse' = InUse \ S
         /\ d3d_ctx' \in [1..MaxContexts -> Processes \cup {Free}]
         /\ \A i \in InUse' : d3d_ctx'[i] = d3d_ctx[i]
<1>1. S # {} => d3d_pdev # NULL
  BY DriverTypes DEF DriverIInv, CallsGoHome
<1>2. (IF d3d_pdev = NULL THEN {} ELSE S) = S
  BY <1>1
<1>3. /\ UNCHANGED <<machine, reg, cursor, ext, pdev, d3d_pdev, gdi, offered>>
      /\ host_ctx' = host_ctx \ S
      /\ d3d_ctx' = [i \in 1..MaxContexts |-> IF i \in S THEN Free ELSE d3d_ctx[i]]
  BY <1>2 DEF Destroy
<1>4. InUse' = InUse \ S
  BY <1>3 DEF InUse
<1>5. d3d_ctx' \in [1..MaxContexts -> Processes \cup {Free}]
  BY <1>3 DEF DriverIInv, DriverTypeOK
<1>6. \A i \in InUse' : d3d_ctx'[i] = d3d_ctx[i]
  BY <1>3, <1>4 DEF InUse
<1> QED
  BY <1>3, <1>4, <1>5, <1>6 DEF DriverIInv, ContextsAgree

LEMMA ContextDestroyInv ==
  ASSUME DriverIInv, NEW i \in 1..MaxContexts, ContextDestroy(i)
  PROVE  DriverIInv'
<1>1. gdi.at \in {"idle", "off"} /\ i \in InUse /\ Destroy({i}) /\ running' = running
  BY DEF ContextDestroy
<1>2. {i} \in SUBSET InUse /\ gdi.at # "stopped"
  BY <1>1
<1>3. /\ UNCHANGED <<machine, reg, cursor, ext, pdev, d3d_pdev, gdi, offered>>
      /\ host_ctx' = InUse \ {i} /\ InUse' = InUse \ {i}
      /\ d3d_ctx' \in [1..MaxContexts -> Processes \cup {Free}]
      /\ \A j \in InUse' : d3d_ctx'[j] = d3d_ctx[j]
  BY <1>1, <1>2, Destroyed
<1>4. \A j \in InUse' : d3d_ctx'[j] \in running'
  BY <1>1, <1>3 DEF DriverIInv, ContextsAgree
<1>5. running' \subseteq Processes
  BY <1>1 DEF DriverIInv, DriverTypeOK
<1>6. InUse' # {} => Direct3D /\ gdi.cur # NULL
  BY <1>2, <1>3 DEF DriverIInv, CallsGoHome
<1> QED
  BY <1>3, <1>4, <1>5, <1>6, ContextStep

LEMMA ContextDestroyAllInv ==
  ASSUME DriverIInv, NEW pid \in Processes, ContextDestroyAll(pid)
  PROVE  DriverIInv'
<1> DEFINE S == {i \in 1..MaxContexts : d3d_ctx[i] = pid}
<1>1. gdi.at \in {"idle", "off"} /\ Destroy(S) /\ running' = running \ {pid}
  BY DEF ContextDestroyAll
<1>2. S \in SUBSET InUse /\ gdi.at # "stopped"
  BY <1>1, DriverAssumption DEF InUse
<1>3. \A i \in InUse \ S : d3d_ctx[i] # pid
  BY DEF InUse
<1> HIDE DEF S
<1>4. /\ UNCHANGED <<machine, reg, cursor, ext, pdev, d3d_pdev, gdi, offered>>
      /\ host_ctx' = InUse \ S /\ InUse' = InUse \ S
      /\ d3d_ctx' \in [1..MaxContexts -> Processes \cup {Free}]
      /\ \A j \in InUse' : d3d_ctx'[j] = d3d_ctx[j]
  BY <1>1, <1>2, Destroyed
<1>5. \A j \in InUse' : d3d_ctx'[j] \in running'
  BY <1>1, <1>3, <1>4 DEF DriverIInv, ContextsAgree
<1>6. running' \subseteq Processes
  BY <1>1 DEF DriverIInv, DriverTypeOK
<1>7. InUse' # {} => Direct3D /\ gdi.cur # NULL
  BY <1>2, <1>4 DEF DriverIInv, CallsGoHome
<1> QED
  BY <1>4, <1>5, <1>6, <1>7, ContextStep

---------------------------------------------------------------------------
LEMMA HwResetHwInv == ASSUME DriverIInv, HwResetHw PROVE DriverIInv'
<1>1. /\ UNCHANGED <<machine, cursor, contexts, pdev, d3d_pdev, offered>>
      /\ gdi' = [gdi EXCEPT !.at = "stopped"] /\ gdi.at \notin {"boot", "stopped"}
      /\ reg' = [reg EXCEPT !.enable = FALSE] /\ ext' = [ext EXCEPT !.enabled = FALSE]
  BY DEF HwResetHw, reset_to_vga
<1>2. gdi'.at = "stopped" /\ gdi'.cur = gdi.cur /\ gdi'.new = gdi.new
  BY <1>1 DEF DriverIInv, DriverTypeOK
<1>3. DriverTypeOK'
  BY <1>1, SameMachine DEF DriverIInv, DriverTypeOK, machine, contexts, cursor
<1>4. PdevsMade'
  BY <1>1, <1>2, SamePdevs, SameMachine DEF DriverIInv, PdevsMade
<1>5. CallsGoHome'
  BY <1>1, <1>2, SameContexts, SameMachine DEF DriverIInv, CallsGoHome
<1> QED
  BY <1>1, <1>2, <1>3, <1>4, <1>5, SameContexts DEF DriverIInv, PdevsOfPlace, ScreenOfPlace

LEMMA RebootInv == ASSUME DriverIInv, Reboot PROVE DriverIInv'
<1>1. /\ reg' = Off /\ host_ctx' = {} /\ d3d_ctx' = NoContexts /\ running' = {}
      /\ ext' = Driver /\ pdev' = [p \in PDEVs |-> NoPdev] /\ d3d_pdev' = NULL
      /\ gdi' = [at |-> "boot", cur |-> NULL, new |-> NULL] /\ offered' = {}
      /\ UNCHANGED <<machine, cursor>>
  BY DEF Reboot, Gdi
<1>2. DriverTypeOK'
  <2>1. pdev' \in [PDEVs -> PdevType]
    BY <1>1, UnsetListed DEF NoPdev, PdevType
  <2>2. reg' \in [enable : BOOLEAN, mode : ListedModes]
        /\ ext' \in [mapped : BOOLEAN, cur_mode : ListedModes, enabled : BOOLEAN]
    BY <1>1, UnsetListed DEF Off, Driver
  <2>3. d3d_ctx' \in [1..MaxContexts -> Processes \cup {Free}]
    BY <1>1 DEF NoContexts
  <2> QED
    BY <1>1, <2>1, <2>2, <2>3, SameMachine DEF DriverIInv, DriverTypeOK, machine, cursor, PdevType
<1>3. InUse' = {}
  BY <1>1 DEF InUse, NoContexts
<1>4. \A p \in PDEVs : ~pdev'[p].told
  BY <1>1 DEF NoPdev
<1> QED
  BY <1>1, <1>2, <1>3, <1>4
  DEF DriverIInv, PdevsOfPlace, ScreenOfPlace, PdevsMade, CallsGoHome, ContextsAgree

LEMMA DriverStutter == ASSUME DriverIInv, UNCHANGED driverVars PROVE DriverIInv'
<1>1. UNCHANGED <<machine, reg, cursor, contexts, ext, pdev, d3d_pdev, gdi, offered>>
  BY DEF driverVars
<1>2. DriverTypeOK'
  BY <1>1, SameMachine DEF DriverIInv, DriverTypeOK, machine, contexts, cursor
<1>3. PdevsMade'
  BY <1>1, SamePdevs, SameMachine DEF DriverIInv, PdevsMade
<1>4. CallsGoHome'
  BY <1>1, SameContexts, SameMachine DEF DriverIInv, CallsGoHome
<1> QED
  BY <1>1, <1>2, <1>3, <1>4, SameContexts DEF DriverIInv, PdevsOfPlace, ScreenOfPlace, Shows, cursor

LEMMA DriverNextInv == DriverIInv /\ [DriverNext]_driverVars => DriverIInv'
<1> SUFFICES ASSUME DriverIInv, [DriverNext]_driverVars PROVE DriverIInv'
  OBVIOUS
<1>1. CASE \E mapped \in BOOLEAN : FindAdapter(mapped)
  BY <1>1, FindAdapterInv
<1>2. CASE \E p \in PDEVs, r \in Requests : EnablePDEV(p, r)
  BY <1>2, EnablePDEVInv
<1>3. CASE HidePointer \/ \E q \in Positions : MovePointer(q) \/ \E side \in {32, 64, 96} : SetPointerShape(side, q)
  <2>1. PICK q \in Positions : TRUE
    BY DriverAssumption
  <2> QED
    BY <1>3, <2>1, CursorSteps
<1>4. CASE \E pid \in Processes : ContextCreate(pid) \/ ContextDestroyAll(pid)
  BY <1>4, ContextCreateInv, ContextDestroyAllInv
<1>5. CASE \E i \in 1..MaxContexts : ContextDestroy(i)
  BY <1>5, ContextDestroyInv
<1>6. CASE UNCHANGED driverVars
  BY <1>6, DriverStutter
<1> QED
  BY <1>1, <1>2, <1>3, <1>4, <1>5, <1>6, AssertModeOffInv, AssertModeOnInv, EnableSurfaceInv,
     EnableSurfaceFailsInv, DisablePDEVInv, ShownInv, RetireInv, HwResetHwInv, RebootInv DEF DriverNext

(* The invariant is one. *)
THEOREM DriverInductive == DriverSpec => []DriverIInv
BY DriverInitInv, DriverNextInv, PTL DEF DriverSpec

(* The driver's, the miniport's and the device's state stay within their types. *)
THEOREM DriverTypeCorrect == DriverSpec => []DriverTypeOK
BY DriverInductive, PTL DEF DriverIInv

(* Whatever mode changes come between, the driver and the host agree about    *)
(* Direct3D's contexts (d3dptdisp.c:168), with any number of programs.         *)
THEOREM ContextsStayInStep == DriverSpec => []ContextsAgree
BY DriverInductive, PTL DEF DriverIInv

(* The screen is in the mode GDI draws for, after any sequence of mode changes, *)
(* failed ones too.                                                           *)
THEOREM ScreenStaysGdis == DriverSpec => []ScreenIsGdis
<1>1. DriverIInv => ScreenIsGdis
  BY DEF DriverIInv, PdevsOfPlace, ScreenOfPlace, ScreenIsGdis, GdiDraws, Shows
<1> QED
  BY <1>1, DriverInductive, PTL
---------------------------------------------------------------------------
(* From any told PDEV to the bounds of its memory. *)
LEMMA ToldMemory ==
  ASSUME DriverIInv, NEW p \in Told
  PROVE  /\ Mode(p).pitch * Mode(p).h <= heap_start(p)
         /\ heap_start(p) < dd_heap_end(p) /\ dd_heap_end(p) <= cursor_offset(p)
         /\ cursor_offset(p) + D3DPT_FB_CURSOR_BYTES <= heap_end(p)
         /\ pdev[p].d3d => pdev[p].cmd + D3DPT_SHM_SIZE <= fb_len
         /\ fb_cursor_define(cursor_offset(p), D3DPT_FB_CURSOR_MAX)
<1>1. Made(p) /\ Heap(p) /\ (pdev[p].d3d => Direct3D)
  BY DEF DriverIInv, PdevsMade, Told
<1>10. fb_len \in VramSizes
  BY DEF DriverIInv, DriverTypeOK
<1>2. heap_start(p) \in HeapStarts /\ Mode(p).pitch * Mode(p).h <= heap_start(p)
  BY <1>1, <1>10, HeapOfMode DEF Made
<1>3. heap_start(p) < heap_end(p) /\ pdev[p].cmd = cmd_offset /\ (pdev[p].d3d => Direct3D)
  BY <1>1 DEF Made, Heap
<1>4. heap_end(p) \in Nat /\ heap_end(p) % MiB = 0 /\ heap_end(p) <= fb_len /\ fb_len \in Nat
  BY <1>3, <1>10, MemoryEnds, Megabytes DEF heap_end
<1>5. heap_start(p) < heap_end(p) - D3DPT_FB_CURSOR_BYTES
  BY <1>2, <1>3, <1>4, CursorFits
<1>6. D3DPT_FB_CURSOR_BYTES = 16384 /\ D3DPT_FB_CURSOR_MAX = 64
  BY DEF D3DPT_FB_CURSOR_BYTES, D3DPT_FB_CURSOR_MAX
<1>7. pdev[p].d3d => pdev[p].cmd + D3DPT_SHM_SIZE <= fb_len
  <2>1. cmd_offset # 0 => cmd_offset + D3DPT_SHM_SIZE <= fb_len
    BY <1>10, MemoryEnds, Megabytes
  <2> QED
    BY <1>3, <2>1 DEF Direct3D
<1>8. fb_cursor_define(cursor_offset(p), D3DPT_FB_CURSOR_MAX)
  BY <1>4, <1>6 DEF fb_cursor_define, cursor_offset
<1>9. heap_start(p) < dd_heap_end(p) /\ dd_heap_end(p) <= cursor_offset(p)
      /\ cursor_offset(p) + D3DPT_FB_CURSOR_BYTES <= heap_end(p)
  BY <1>4, <1>5, <1>6 DEF dd_heap_end, cursor_offset
<1> QED
  BY <1>2, <1>7, <1>8, <1>9

(* The primary, the heap, the cursor and the command window do not overlap, in   *)
(* each of the 63 modes and at each size of memory in whole MiB.              *)
THEOREM MemoryStaysApart == DriverSpec => []MemoryApart
<1>1. DriverIInv => MemoryApart
  BY ToldMemory DEF MemoryApart
<1> QED
  BY <1>1, DriverInductive, PTL

---------------------------------------------------------------------------
(* dxg keeps the driver, whatever the flags take away. *)
LEMMA DxgKeepsIt ==
  ASSUME DriverTypeOK, NEW p \in PDEVs
  PROVE  DxgKeeps(p) /\ (AsksDriverInfo2(p) => "GetDriverInfo2" \in DriverInfo(p))
<1>1. ddflags \in FlagSets
  BY DEF DriverTypeOK
<1>2. /\ ~Flag("GDI_CAP") /\ ~Flag("NO_SURFACE_CB") /\ ~Flag("CKEY_NOBLTCB")
      /\ ~Flag("NO_D3D_INFO") /\ ~Flag("NO_D3D_CB3")
  BY <1>1, DriverAssumption DEF Flag
<1>3. "gdi" \notin ddCaps(p)
  BY <1>2 DEF ddCaps
<1>4. "colorkey" \in ddCaps(p) => "Blt" \in SurfaceCallbacks(p)
  BY <1>2 DEF ddCaps, SurfaceCallbacks
<1>5. "3d" \in ddCaps(p) => pdev[p].d3d
  BY DEF ddCaps
<1>6. pdev[p].d3d => "D3DCallbacks3" \in DriverInfo(p)
  BY <1>2 DEF DriverInfo
<1>7. AsksDriverInfo2(p) => "GetDriverInfo2" \in DriverInfo(p)
  BY <1>2 DEF DriverInfo, AsksDriverInfo2
<1> QED
  BY <1>3, <1>4, <1>5, <1>6, <1>7 DEF DxgKeeps

(* Every format on a list names one that both sides measure. *)
LEMMA FormatsMeasured ==
  \A f \in TextureFormats \cup ZFormats \cup Formats8 : pf_format(f) \in Measured /\ pf_format(f) # "none"
<1>1. \A f \in ZFormats : pf_format(f) \in Measured
  BY DEF ZFormats, pf_format, Measured
<1>2. \A f \in Formats8 : pf_format(f) \in Measured
  BY DEF Formats8, Other, pf_format, Measured
<1>3. \A f \in TextureFormats : pf_format(f) \in Measured
  <2>1. \A f \in {Other("fourcc", g) : g \in {"DXT1", "DXT3", "DXT5"}} \cup {Other("p8", "P8")} : pf_format(f) \in Measured
    BY DEF Other, pf_format, Measured
  <2>2. \A f \in {Rgb(32, 16, FALSE), Rgb(32, 16, TRUE)} : pf_format(f) \in Measured
    BY DEF Rgb, pf_format, Measured
  <2>3. \A f \in {Rgb(16, 11, FALSE), Rgb(16, 10, FALSE), Rgb(16, 10, TRUE), Rgb(16, 8, TRUE)} : pf_format(f) \in Measured
    BY DEF Rgb, pf_format, Measured
  <2> QED
    BY <2>1, <2>2, <2>3 DEF TextureFormats
<1>4. "none" \notin Measured
  BY DEF Measured
<1> QED
  BY <1>1, <1>2, <1>3, <1>4

LEMMA OneOffer ==
  ASSUME DriverIInv
  PROVE  Cardinality(offered) <= 1
<1>1. offered \subseteq {Direct3D}
  BY DEF DriverIInv, CallsGoHome, PdevsMade
<1>2. IsFiniteSet({Direct3D}) /\ Cardinality({Direct3D}) = 1
  BY FS_Singleton
<1> QED
  BY <1>1, <1>2, FS_Subset

(* What DirectDraw is told keeps dxg from dropping the driver, whichever of the  *)
(* ddflags the machine has.                                                   *)
THEOREM OffersHold == DriverSpec => []OffersStand
<1>1. DriverIInv => OffersStand
  <2> SUFFICES ASSUME DriverIInv, NEW p \in Told
               PROVE /\ Cardinality(offered) <= 1
                     /\ DxgKeeps(p)
                     /\ AsksDriverInfo2(p) => "GetDriverInfo2" \in DriverInfo(p)
                     /\ AsksForVideoMemory => CreateD3DBuffer(TRUE) = "heap"
                     /\ pdev[p].d3d => \A f \in TextureFormats \cup ZFormats \cup Formats8 :
                          CanCreateSurface(p, f) /\ pf_format(f) \in Measured
    BY OneOffer DEF OffersStand
  <2>1. AsksForVideoMemory => CreateD3DBuffer(TRUE) = "heap"
    BY DEF AsksForVideoMemory, CreateD3DBuffer
  <2>2. p \in PDEVs
    BY DEF Told
  <2> QED
    BY <2>1, <2>2, OneOffer, DxgKeepsIt, FormatsMeasured DEF DriverIInv, CanCreateSurface
<1> QED
  BY <1>1, DriverInductive, PTL

---------------------------------------------------------------------------
(* The adapter's screen. *)

(* A part of the rows is converted only while the console is set up for a   *)
(* mode.                                                                    *)
RefreshHasMode == refreshing # {} => lin \in Linear

(* The rows left alone show what the console's own mode and place in memory *)
(* say: the registers may name others until the next refresh, and name the  *)
(* same again before it.                                                    *)
ShownIsTrue ==
  lin # NoLinear /\ ~full_update /\ ~(pal_dirty /\ lin.mode \in Palettized) =>
    \A r \in Rows \ (refreshing \cup dirty[lin.offset]) :
      shown[r] = Pixel(lin.mode, vram[lin.offset][r])

(* What the held frame still has, or had. *)
GraceRuns == lin # NoLinear /\ ~enable => dark + vga_grace >= GraceRefreshes

(* A call runs with GDI's lock held, in a mode that is set. *)
CallsHoldTheLock == caller # Nobody => setting = NotSetting /\ enabled

(* A flip no vertical blank has followed is one that is still to be noted,  *)
(* or noted at this count; and a DdFlip that waits has waited since.        *)
FlipInAir ==
  /\ recent /\ enabled /\ setting = NotSetting /\ caller.call # "flipped" =>
       flip.pending /\ flip.frame = frames /\ ~flip.late
  /\ recent /\ caller.call = "flip" => caller.f = frames /\ ~caller.late

IInv == TypeOK /\ RefreshHasMode /\ ShownIsTrue /\ GraceRuns /\ CallsHoldTheLock /\ FlipInAir
---------------------------------------------------------------------------
(* The type, a part at a time. *)
MemoryTyped == vram \in [Buffers -> [Rows -> Colours]] /\ dirty \in [Buffers -> SUBSET Rows]
Switches == {enable, pal_dirty, full_update, enabled, recent} \subseteq BOOLEAN
RegsTyped == mode \in Modes \cup {NoMode} /\ offset \in Buffers /\ frames \in 0..MaxFrames /\ pal \in Colours
ConsoleTyped ==
  /\ lin \in Linear \cup {NoLinear} /\ vga_grace \in 0..GraceRefreshes
  /\ shown \in [Rows -> Colours] /\ refreshing \subseteq Rows /\ dark \in 0..GraceRefreshes + 1
SettingTyped == setting \in [at : {"no", "off", "zeroed", "programmed", "stopped"}, mode : Modes \cup {NoMode}]
Callers ==
  {Nobody, [call |-> "flipped"]} \cup [call : {"wait"}, f : 0..MaxFrames, late : BOOLEAN]
  \cup [call : {"flip"}, f : 0..MaxFrames, late : BOOLEAN, b : Buffers]
Flips == {NoFlip} \cup [pending : {TRUE}, frame : 0..MaxFrames, late : BOOLEAN]
CallsTyped == caller \in Callers /\ flip \in Flips
WritesTyped == writes \in 0..MaxWrites

LEMMA TypeParts ==
  TypeOK <=> /\ MemoryTyped /\ Switches /\ RegsTyped /\ ConsoleTyped
             /\ SettingTyped /\ CallsTyped /\ WritesTyped
BY Zenon DEF TypeOK, MemoryTyped, Switches, RegsTyped, ConsoleTyped, SettingTyped, CallsTyped, Callers, Flips, WritesTyped

LEMMA Pixels == ASSUME NEW m, NEW v \in Colours, NEW p \in Colours, pal = p PROVE Pixel(m, v) \in Colours
BY DEF Pixel, Colours

(* What a step leaves alone stays typed, and stays true of the screen. *)
LEMMA ScreenKept ==
  ASSUME RefreshHasMode, ShownIsTrue, UNCHANGED <<memory, pal, pal_dirty, lin, full_update, shown, refreshing>>
  PROVE  RefreshHasMode' /\ ShownIsTrue'
BY DEF RefreshHasMode, ShownIsTrue, Pixel, memory

LEMMA AllRepainted == ASSUME full_update' = TRUE PROVE ShownIsTrue'
BY DEF ShownIsTrue

LEMMA CallKinds ==
  ASSUME CallsTyped
  PROVE  /\ caller.call \in {"none", "flipped", "wait", "flip"}
         /\ caller.call = "none" <=> caller = Nobody
         /\ caller.call \in {"wait", "flip"} => caller.f \in 0..MaxFrames /\ caller.late \in BOOLEAN
         /\ caller.call = "flip" => caller.b \in Buffers
         /\ flip.pending \in BOOLEAN
         /\ flip.pending => flip.frame \in 0..MaxFrames /\ flip.late \in BOOLEAN
         /\ ~flip.pending => flip = NoFlip
<1>1. caller.call \in {"none", "flipped", "wait", "flip"} /\ (caller.call = "none" <=> caller = Nobody)
  BY DEF CallsTyped, Callers, Nobody
<1>2. /\ caller.call \in {"wait", "flip"} => caller.f \in 0..MaxFrames
      /\ caller.call = "flip" => caller.b \in Buffers
  BY DEF CallsTyped, Callers, Nobody
<1>3. caller.call \in {"wait", "flip"} => caller.late \in BOOLEAN
  BY DEF CallsTyped, Callers, Nobody
<1>4. CASE flip = NoFlip
  BY <1>1, <1>2, <1>3, <1>4 DEF NoFlip
<1>5. CASE flip \in [pending : {TRUE}, frame : 0..MaxFrames, late : BOOLEAN]
  BY <1>1, <1>2, <1>3, <1>5
<1> QED
  BY <1>4, <1>5 DEF CallsTyped, Flips
LEMMA TypePartsNext ==
  TypeOK' <=> /\ MemoryTyped' /\ Switches' /\ RegsTyped' /\ ConsoleTyped'
              /\ SettingTyped' /\ CallsTyped' /\ WritesTyped'
BY Zenon DEF TypeOK, MemoryTyped, Switches, RegsTyped, ConsoleTyped, SettingTyped, CallsTyped, Callers, Flips, WritesTyped

LEMMA Bounds == GraceRefreshes \in Nat /\ MaxFrames \in Nat /\ MaxWrites \in Nat
BY ScreenAssumption

---------------------------------------------------------------------------
(* Memory is written: by a program, the executor, or the miniport. *)
LEMMA WroteKeeps ==
  ASSUME TypeOK, RefreshHasMode, ShownIsTrue, NEW b \in Buffers, NEW S \in SUBSET Rows, NEW v \in Colours, Wrote(b, S, v),
         UNCHANGED <<pal, pal_dirty, lin, full_update, shown, refreshing>>
  PROVE  MemoryTyped' /\ RefreshHasMode' /\ ShownIsTrue'
<1>1. MemoryTyped
  BY TypeParts
<1>2. MemoryTyped'
  BY <1>1 DEF MemoryTyped, Wrote
<1>3. RefreshHasMode'
  BY DEF RefreshHasMode
<1>4. ShownIsTrue'
  <2> SUFFICES ASSUME lin # NoLinear, ~full_update, ~(pal_dirty /\ lin.mode \in Palettized),
                      NEW r \in Rows, r \notin refreshing, r \notin dirty'[lin.offset]
               PROVE  shown[r] = Pixel(lin.mode, vram'[lin.offset][r])
    BY DEF ShownIsTrue, Pixel
  <2>1. lin.offset \in Buffers
    BY TypeParts DEF ConsoleTyped, Linear
  <2>2. r \notin dirty[lin.offset] /\ vram'[lin.offset][r] = vram[lin.offset][r]
    BY <1>1, <2>1 DEF Wrote, MemoryTyped
  <2> QED
    BY <2>2 DEF ShownIsTrue
<1> QED
  BY <1>2, <1>3, <1>4

LEMMA OthersKept ==
  ASSUME IInv, UNCHANGED <<enable, frames, vga_grace, dark, enabled, setting, caller, flip, recent, lin>>
  PROVE  GraceRuns' /\ CallsHoldTheLock' /\ FlipInAir'
BY DEF IInv, GraceRuns, CallsHoldTheLock, FlipInAir

LEMMA WritesGrow == ASSUME WritesTyped, writes < MaxWrites, writes' = writes + 1 PROVE WritesTyped'
BY Bounds DEF WritesTyped

LEMMA ProgramWritesInv ==
  ASSUME IInv, NEW b \in Buffers, NEW r \in Rows, NEW v \in Colours, ProgramWrites(b, r, v) PROVE IInv'
<1>1. /\ writes < MaxWrites /\ writes' = writes + 1 /\ Wrote(b, {r}, v)
      /\ UNCHANGED <<regs, console, enabled, setting, flipping>>
  BY DEF ProgramWrites
<1>2. TypeOK /\ RefreshHasMode /\ ShownIsTrue
  BY DEF IInv
<1>3. MemoryTyped' /\ RefreshHasMode' /\ ShownIsTrue'
  BY <1>1, <1>2, WroteKeeps DEF regs, console
<1>4. WritesTyped'
  BY <1>1, <1>2, WritesGrow, TypeParts
<1>5. Switches' /\ RegsTyped' /\ ConsoleTyped' /\ SettingTyped' /\ CallsTyped'
  BY <1>1, <1>2, TypeParts DEF Switches, RegsTyped, ConsoleTyped, SettingTyped, CallsTyped, regs, console, flipping
<1>6. GraceRuns' /\ CallsHoldTheLock' /\ FlipInAir'
  BY <1>1, OthersKept DEF regs, console, flipping
<1> QED
  BY <1>3, <1>4, <1>5, <1>6, TypePartsNext DEF IInv

LEMMA ReadBackInv ==
  ASSUME IInv, NEW b \in Buffers, NEW v \in Colours, ReadBack(b, v) PROVE IInv'
<1>1. /\ writes < MaxWrites /\ writes' = writes + 1 /\ Wrote(b, Rows, v)
      /\ UNCHANGED <<regs, console, enabled, setting, flipping>>
  BY DEF ReadBack
<1>2. TypeOK /\ RefreshHasMode /\ ShownIsTrue
  BY DEF IInv
<1>3. MemoryTyped' /\ RefreshHasMode' /\ ShownIsTrue'
  BY <1>1, <1>2, WroteKeeps DEF regs, console
<1>4. WritesTyped'
  BY <1>1, <1>2, WritesGrow, TypeParts
<1>5. Switches' /\ RegsTyped' /\ ConsoleTyped' /\ SettingTyped' /\ CallsTyped'
  BY <1>1, <1>2, TypeParts DEF Switches, RegsTyped, ConsoleTyped, SettingTyped, CallsTyped, regs, console, flipping
<1>6. GraceRuns' /\ CallsHoldTheLock' /\ FlipInAir'
  BY <1>1, OthersKept DEF regs, console, flipping
<1> QED
  BY <1>3, <1>4, <1>5, <1>6, TypePartsNext DEF IInv

LEMMA SetModeZeroInv == ASSUME IInv, SetModeZero PROVE IInv'
<1>1. /\ setting.at = "off" /\ Wrote(Primary, Rows, 0) /\ setting' = Setting("zeroed", setting.mode)
      /\ UNCHANGED <<regs, console, enabled, flipping, writes>>
  BY DEF SetModeZero
<1>2. TypeOK /\ RefreshHasMode /\ ShownIsTrue /\ Primary \in Buffers /\ 0 \in Colours
  BY ScreenAssumption DEF IInv, Colours
<1>3. MemoryTyped' /\ RefreshHasMode' /\ ShownIsTrue'
  BY <1>1, <1>2, WroteKeeps DEF regs, console
<1>4. SettingTyped'
  BY <1>1, <1>2, TypeParts DEF SettingTyped, Setting
<1>5. Switches' /\ RegsTyped' /\ ConsoleTyped' /\ WritesTyped' /\ CallsTyped'
  BY <1>1, <1>2, TypeParts DEF Switches, RegsTyped, ConsoleTyped, WritesTyped, CallsTyped, regs, console, flipping
<1>6. setting # NotSetting /\ setting' # NotSetting
  BY <1>1 DEF Setting, NotSetting
<1>7. GraceRuns' /\ CallsHoldTheLock' /\ FlipInAir'
  BY <1>1, <1>6 DEF IInv, GraceRuns, CallsHoldTheLock, FlipInAir, regs, console, flipping
<1> QED
  BY <1>3, <1>4, <1>5, <1>7, TypePartsNext DEF IInv
---------------------------------------------------------------------------
(* ENABLE is written. *)
LEMMA EnableTyped ==
  ASSUME TypeOK, NEW on \in BOOLEAN, WriteEnable(on), enabled' \in BOOLEAN, recent' \in BOOLEAN,
         mode' \in Modes \cup {NoMode}, offset' \in Buffers
  PROVE  Switches' /\ RegsTyped' /\ ConsoleTyped'
<1>1. Switches /\ RegsTyped /\ ConsoleTyped
  BY TypeParts
<1>2. Switches'
  BY <1>1, Zenon DEF Switches, WriteEnable
<1>3. RegsTyped'
  BY <1>1, Bounds DEF RegsTyped, WriteEnable
<1>4. ConsoleTyped'
  BY <1>1, Bounds DEF ConsoleTyped, WriteEnable
<1> QED
  BY <1>2, <1>3, <1>4

LEMMA EnableOffKeeps ==
  ASSUME IInv, WriteEnable(FALSE)
  PROVE  GraceRuns' /\ ShownIsTrue' /\ RefreshHasMode'
<1>1. vga_grace \in Nat /\ dark \in Nat /\ enable \in BOOLEAN
  BY TypeParts, Bounds DEF IInv, ConsoleTyped, Switches
<1>2. GraceRuns'
  BY <1>1, Bounds DEF IInv, GraceRuns, WriteEnable
<1>3. ShownIsTrue' /\ RefreshHasMode'
  BY AllRepainted DEF IInv, WriteEnable, RefreshHasMode
<1> QED
  BY <1>2, <1>3

LEMMA SetModeOffInv == ASSUME IInv, NEW m \in Modes, SetModeOff(m) PROVE IInv'
<1>1. /\ Idle /\ WriteEnable(FALSE) /\ setting' = Setting("off", m)
      /\ UNCHANGED <<memory, mode, offset, enabled, flipping, writes>>
  BY DEF SetModeOff
<1>2. TypeOK /\ enabled \in BOOLEAN /\ recent \in BOOLEAN /\ RegsTyped
  BY TypeParts DEF IInv, Switches
<1>3. Switches' /\ RegsTyped' /\ ConsoleTyped'
  BY <1>1, <1>2, EnableTyped DEF flipping, RegsTyped
<1>4. MemoryTyped' /\ CallsTyped' /\ WritesTyped' /\ SettingTyped'
  BY <1>1, <1>2, TypeParts DEF MemoryTyped, CallsTyped, WritesTyped, SettingTyped, Setting, memory, flipping
<1>5. GraceRuns' /\ ShownIsTrue' /\ RefreshHasMode'
  BY <1>1, EnableOffKeeps
<1>6. setting' # NotSetting /\ caller = Nobody /\ caller.call # "flip"
  BY <1>1 DEF Setting, NotSetting, Idle, Nobody
<1>7. CallsHoldTheLock' /\ FlipInAir'
  BY <1>1, <1>6 DEF CallsHoldTheLock, FlipInAir, flipping
<1> QED
  BY <1>3, <1>4, <1>5, <1>7, TypePartsNext DEF IInv

LEMMA SetModeProgramInv == ASSUME IInv, SetModeProgram PROVE IInv'
<1>1. /\ setting.at = "zeroed" /\ mode' = setting.mode /\ offset' = Primary
      /\ setting' = Setting("programmed", setting.mode)
      /\ UNCHANGED <<memory, enable, frames, pal, pal_dirty, console, enabled, flipping, writes>>
  BY DEF SetModeProgram
<1>2. TypeOK
  BY DEF IInv
<1>3. SettingTyped' /\ RegsTyped'
  BY <1>1, <1>2, TypeParts, ScreenAssumption DEF SettingTyped, Setting, RegsTyped
<1>4. MemoryTyped' /\ CallsTyped' /\ WritesTyped' /\ Switches' /\ ConsoleTyped'
  BY <1>1, <1>2, TypeParts DEF MemoryTyped, CallsTyped, WritesTyped, Switches, ConsoleTyped, memory, flipping, console
<1>5. RefreshHasMode' /\ ShownIsTrue'
  BY <1>1, ScreenKept DEF IInv, console
<1>6. setting # NotSetting /\ setting' # NotSetting
  BY <1>1 DEF Setting, NotSetting
<1>7. GraceRuns' /\ CallsHoldTheLock' /\ FlipInAir'
  BY <1>1, <1>6 DEF IInv, GraceRuns, CallsHoldTheLock, FlipInAir, console, flipping
<1> QED
  BY <1>3, <1>4, <1>5, <1>7, TypePartsNext DEF IInv

LEMMA SetModeOnInv == ASSUME IInv, SetModeOn PROVE IInv'
<1>1. /\ setting.at = "programmed" /\ WriteEnable(TRUE) /\ enabled' = TRUE /\ setting' = NotSetting /\ recent' = FALSE
      /\ UNCHANGED <<memory, mode, offset, caller, flip, writes>>
  BY DEF SetModeOn
<1>2. TypeOK /\ RegsTyped
  BY TypeParts DEF IInv
<1>3. Switches' /\ RegsTyped' /\ ConsoleTyped'
  BY <1>1, <1>2, EnableTyped DEF RegsTyped
<1>4. MemoryTyped' /\ CallsTyped' /\ WritesTyped' /\ SettingTyped'
  BY <1>1, <1>2, TypeParts DEF MemoryTyped, CallsTyped, WritesTyped, SettingTyped, Setting, NotSetting, memory
<1>5. ShownIsTrue' /\ RefreshHasMode' /\ GraceRuns'
  BY <1>1, AllRepainted DEF IInv, WriteEnable, RefreshHasMode, GraceRuns
<1>6. CallsHoldTheLock' /\ FlipInAir'
  BY <1>1 DEF CallsHoldTheLock, FlipInAir
<1> QED
  BY <1>3, <1>4, <1>5, <1>6, TypePartsNext DEF IInv

LEMMA ResetToVgaInv ==
  ASSUME IInv, ResetToVga, caller' = Nobody, SettingTyped'
  PROVE  IInv'
<1>1. /\ WriteEnable(FALSE) /\ enabled' = FALSE
      /\ UNCHANGED <<memory, mode, offset, flip, recent, writes>>
  BY DEF ResetToVga
<1>2. TypeOK /\ RegsTyped /\ recent \in BOOLEAN
  BY TypeParts DEF IInv, Switches
<1>3. Switches' /\ RegsTyped' /\ ConsoleTyped'
  BY <1>1, <1>2, EnableTyped DEF RegsTyped
<1>4. MemoryTyped' /\ CallsTyped' /\ WritesTyped'
  BY <1>1, <1>2, TypeParts DEF MemoryTyped, CallsTyped, Callers, WritesTyped, memory
<1>5. GraceRuns' /\ ShownIsTrue' /\ RefreshHasMode'
  BY <1>1, EnableOffKeeps
<1>6. CallsHoldTheLock' /\ FlipInAir'
  BY <1>1 DEF CallsHoldTheLock, FlipInAir, Nobody
<1> QED
  BY <1>3, <1>4, <1>5, <1>6, TypePartsNext DEF IInv

LEMMA ResetDeviceInv == ASSUME IInv, ResetDevice PROVE IInv'
<1>1. ResetToVga /\ caller' = Nobody /\ setting' = setting
  BY DEF ResetDevice, Idle
<1>2. SettingTyped'
  BY <1>1, TypeParts DEF IInv, SettingTyped
<1> QED
  BY <1>1, <1>2, ResetToVgaInv

LEMMA StopScreenInv == ASSUME IInv, StopScreen PROVE IInv'
<1>1. ResetToVga /\ caller' = Nobody /\ SettingTyped'
  BY DEF StopScreen, SettingTyped, Setting
<1> QED
  BY <1>1, ResetToVgaInv

LEMMA ResetInv == ASSUME IInv, Reset PROVE IInv'
<1>1. /\ refreshing = {} /\ enable' = FALSE /\ mode' = NoMode /\ offset' = Primary /\ frames' = 0
      /\ vga_grace' = 0 /\ dark' = GraceRefreshes + 1
      /\ UNCHANGED <<pal, pal_dirty, lin, full_update, shown, refreshing>>
      /\ enabled' = FALSE /\ setting' = NotSetting /\ caller' = Nobody /\ flip' = NoFlip /\ recent' = FALSE
      /\ UNCHANGED <<memory, writes>>
  BY DEF Reset, ResetRegisters, Access
<1>2. TypeOK
  BY DEF IInv
<1>3. Switches'
  BY <1>1, <1>2, TypeParts, Zenon DEF Switches
<1>4. RegsTyped' /\ ConsoleTyped' /\ SettingTyped'
  BY <1>1, <1>2, TypeParts, ScreenAssumption, Bounds DEF RegsTyped, ConsoleTyped, SettingTyped, NotSetting, Setting
<1>5. MemoryTyped' /\ CallsTyped' /\ WritesTyped'
  BY <1>1, <1>2, TypeParts DEF MemoryTyped, CallsTyped, Callers, Flips, WritesTyped, memory
<1>6. RefreshHasMode' /\ ShownIsTrue'
  BY <1>1, ScreenKept DEF IInv
<1>7. GraceRuns' /\ CallsHoldTheLock' /\ FlipInAir'
  BY <1>1, Bounds DEF GraceRuns, CallsHoldTheLock, FlipInAir, Nobody
<1> QED
  BY <1>3, <1>4, <1>5, <1>6, <1>7, TypePartsNext DEF IInv
---------------------------------------------------------------------------
(* The refresh. *)
LEMMA TickInv == ASSUME IInv, Tick PROVE IInv'
<1>1. /\ enable /\ frames < MaxFrames /\ frames' = frames + 1 /\ recent' = FALSE
      /\ UNCHANGED <<memory, enable, mode, offset, pal, pal_dirty, console, enabled, setting, caller, flip, writes>>
  BY DEF Tick
<1>2. TypeOK
  BY DEF IInv
<1>3. Switches'
  BY <1>1, <1>2, TypeParts, Zenon DEF Switches, console
<1>4. RegsTyped'
  BY <1>1, <1>2, TypeParts, Bounds DEF RegsTyped
<1>5. MemoryTyped' /\ CallsTyped' /\ WritesTyped' /\ ConsoleTyped' /\ SettingTyped'
  BY <1>1, <1>2, TypeParts DEF MemoryTyped, CallsTyped, WritesTyped, ConsoleTyped, SettingTyped, memory, console
<1>6. RefreshHasMode' /\ ShownIsTrue'
  BY <1>1, ScreenKept DEF IInv, console
<1>7. GraceRuns' /\ CallsHoldTheLock' /\ FlipInAir'
  BY <1>1 DEF IInv, GraceRuns, CallsHoldTheLock, FlipInAir, console
<1> QED
  BY <1>3, <1>4, <1>5, <1>6, <1>7, TypePartsNext DEF IInv

LEMMA CurrentLinear == ASSUME RegsTyped PROVE Current \in Linear /\ Current # NoLinear
BY ScreenAssumption DEF RegsTyped, Current, Linear, NoLinear

LEMMA RefreshLinearInv == ASSUME IInv, RefreshLinear PROVE IInv'
<1> DEFINE S == IF (lin # Current) \/ (pal_dirty /\ mode \in Palettized) \/ full_update THEN Rows ELSE dirty[offset]
<1>1. /\ refreshing = {} /\ enable /\ lin' = Current /\ full_update' = FALSE
      /\ pal_dirty' = IF mode \in Palettized THEN FALSE ELSE pal_dirty
      /\ refreshing' = S /\ dirty' = [dirty EXCEPT ![offset] = {}]
      /\ UNCHANGED <<vram, enable, mode, offset, frames, pal, vga_grace, shown, dark, enabled, setting, flipping, writes>>
  BY DEF RefreshLinear, Snapshot, Access
<1>2. TypeOK /\ MemoryTyped /\ RegsTyped /\ ConsoleTyped
  BY TypeParts DEF IInv
<1>3. Current \in Linear /\ Current # NoLinear
  BY <1>2, CurrentLinear
<1>4. Switches'
  <2>1. pal_dirty' = FALSE \/ pal_dirty' = pal_dirty
    BY <1>1
  <2> QED
    BY <2>1, <1>1, <1>2, TypeParts, Zenon DEF Switches, flipping
<1>5. S \subseteq Rows /\ offset \in Buffers
  BY <1>2 DEF MemoryTyped, RegsTyped
<1>6. MemoryTyped' /\ ConsoleTyped'
  BY <1>1, <1>2, <1>3, <1>5 DEF MemoryTyped, ConsoleTyped
<1>7. RegsTyped' /\ CallsTyped' /\ WritesTyped' /\ SettingTyped'
  BY <1>1, <1>2, TypeParts DEF RegsTyped, CallsTyped, WritesTyped, SettingTyped, flipping
<1>8. RefreshHasMode'
  BY <1>1, <1>3 DEF RefreshHasMode
<1>9. ShownIsTrue'
  <2> SUFFICES ASSUME ~(pal_dirty' /\ mode \in Palettized), NEW r \in Rows, r \notin S
               PROVE  shown[r] = Pixel(mode, vram[offset][r])
    BY <1>1 DEF ShownIsTrue, Current, Pixel
  <2>1. lin = Current /\ ~(pal_dirty /\ mode \in Palettized) /\ ~full_update /\ r \notin dirty[offset]
    OBVIOUS
  <2>2. lin # NoLinear /\ lin.mode = mode /\ lin.offset = offset
    BY <2>1, <1>3 DEF Current
  <2> QED
    BY <2>1, <2>2, <1>1 DEF IInv, ShownIsTrue
<1>10. GraceRuns' /\ CallsHoldTheLock' /\ FlipInAir'
  BY <1>1 DEF IInv, GraceRuns, CallsHoldTheLock, FlipInAir, flipping
<1> QED
  BY <1>4, <1>6, <1>7, <1>8, <1>9, <1>10, TypePartsNext DEF IInv

LEMMA RefreshRowInv == ASSUME IInv, NEW r \in Rows, RefreshRow(r) PROVE IInv'
<1>1. /\ r \in refreshing /\ refreshing' = refreshing \ {r}
      /\ shown' = [shown EXCEPT ![r] = Pixel(lin.mode, vram[lin.offset][r])]
      /\ UNCHANGED <<memory, regs, lin, full_update, vga_grace, dark, enabled, setting, flipping, writes>>
  BY DEF RefreshRow
<1>2. TypeOK /\ MemoryTyped /\ RegsTyped /\ ConsoleTyped
  BY TypeParts DEF IInv
<1>3. lin.offset \in Buffers
  BY <1>1 DEF IInv, RefreshHasMode, Linear
<1>4. Pixel(lin.mode, vram[lin.offset][r]) \in Colours
  BY <1>2, <1>3, Pixels DEF MemoryTyped, RegsTyped
<1>5. ConsoleTyped'
  BY <1>1, <1>2, <1>4 DEF ConsoleTyped
<1>6. MemoryTyped' /\ Switches' /\ RegsTyped' /\ CallsTyped' /\ WritesTyped' /\ SettingTyped'
  BY <1>1, <1>2, TypeParts DEF MemoryTyped, Switches, RegsTyped, CallsTyped, WritesTyped, SettingTyped, memory, regs, flipping
<1>7. RefreshHasMode'
  BY <1>1 DEF IInv, RefreshHasMode
<1>8. ShownIsTrue'
  <2> SUFFICES ASSUME lin # NoLinear, ~full_update, ~(pal_dirty /\ lin.mode \in Palettized),
                      NEW q \in Rows, q \notin refreshing', q \notin dirty[lin.offset]
               PROVE  shown'[q] = Pixel(lin.mode, vram[lin.offset][q])
    BY <1>1 DEF ShownIsTrue, Pixel, memory, regs
  <2>1. CASE q = r
    BY <2>1, <1>1, <1>2 DEF ConsoleTyped
  <2>2. CASE q # r
    <3>1. shown'[q] = shown[q] /\ q \notin refreshing
      BY <2>2, <1>1, <1>2 DEF ConsoleTyped
    <3> QED
      BY <3>1 DEF IInv, ShownIsTrue
  <2> QED
    BY <2>1, <2>2
<1>9. GraceRuns' /\ CallsHoldTheLock' /\ FlipInAir'
  BY <1>1 DEF IInv, GraceRuns, CallsHoldTheLock, FlipInAir, regs, flipping
<1> QED
  BY <1>5, <1>6, <1>7, <1>8, <1>9, TypePartsNext DEF IInv

LEMMA RefreshVgaInv == ASSUME IInv, RefreshVga PROVE IInv'
<1>1. /\ refreshing = {} /\ ~enable /\ dark' = (IF dark > GraceRefreshes THEN dark ELSE dark + 1)
      /\ UNCHANGED <<memory, regs, full_update, refreshing, enabled, setting, flipping, writes>>
  BY DEF RefreshVga, NotEnabled, Access
<1>2. TypeOK /\ ConsoleTyped
  BY TypeParts DEF IInv
<1>3. dark \in Nat /\ dark <= GraceRefreshes + 1 /\ vga_grace \in Nat /\ vga_grace <= GraceRefreshes
  BY <1>2, Bounds DEF ConsoleTyped
<1>4. dark' \in 0..GraceRefreshes + 1 /\ (dark' = dark + 1 \/ dark' > GraceRefreshes)
  BY <1>1, <1>3, Bounds
<1>5. MemoryTyped' /\ Switches' /\ RegsTyped' /\ CallsTyped' /\ WritesTyped' /\ SettingTyped'
  BY <1>1, <1>2, TypeParts DEF MemoryTyped, Switches, RegsTyped, CallsTyped, WritesTyped, SettingTyped, memory, regs, flipping
<1>6. CallsHoldTheLock' /\ FlipInAir'
  BY <1>1 DEF IInv, CallsHoldTheLock, FlipInAir, regs, flipping
<1>7. RefreshHasMode'
  BY <1>1 DEF RefreshHasMode
<1>8. CASE lin # NoLinear /\ vga_grace > 0
  <2>1. vga_grace' = vga_grace - 1 /\ UNCHANGED <<lin, shown>>
    BY <1>8 DEF RefreshVga
  <2>2. ConsoleTyped'
    BY <2>1, <1>1, <1>2, <1>3, <1>4, <1>8, Bounds DEF ConsoleTyped
  <2>3. ShownIsTrue'
    BY <1>1, <2>1, ScreenKept DEF IInv, regs
  <2>4. GraceRuns'
    BY <1>1, <1>3, <1>4, <2>1, <1>8, Bounds DEF IInv, GraceRuns, regs
  <2> QED
    BY <1>5, <1>6, <1>7, <2>2, <2>3, <2>4, TypePartsNext DEF IInv
<1>9. CASE ~(lin # NoLinear /\ vga_grace > 0)
  <2>1. lin' = NoLinear /\ shown' = Black /\ vga_grace' = vga_grace
    BY <1>9 DEF RefreshVga, GoesToVga
  <2>2. ConsoleTyped'
    BY <2>1, <1>1, <1>2, <1>4 DEF ConsoleTyped, Black, Colours
  <2>3. ShownIsTrue' /\ GraceRuns'
    BY <2>1 DEF ShownIsTrue, GraceRuns
  <2> QED
    BY <1>5, <1>6, <1>7, <2>2, <2>3, TypePartsNext DEF IInv
<1> QED
  BY <1>8, <1>9

LEMMA InvalidateInv == ASSUME IInv, Invalidate PROVE IInv'
<1>1. /\ full_update' = TRUE
      /\ UNCHANGED <<memory, regs, lin, vga_grace, shown, refreshing, dark, enabled, setting, flipping, writes>>
  BY DEF Invalidate
<1>2. TypeOK
  BY DEF IInv
<1>3. Switches'
  BY <1>1, <1>2, TypeParts, Zenon DEF Switches, regs, flipping
<1>4. MemoryTyped' /\ RegsTyped' /\ CallsTyped' /\ WritesTyped' /\ SettingTyped' /\ ConsoleTyped'
  BY <1>1, <1>2, TypeParts DEF MemoryTyped, RegsTyped, CallsTyped, WritesTyped, SettingTyped, ConsoleTyped, memory, regs, flipping
<1>5. RefreshHasMode' /\ ShownIsTrue'
  BY <1>1, AllRepainted DEF IInv, RefreshHasMode
<1>6. GraceRuns' /\ CallsHoldTheLock' /\ FlipInAir'
  BY <1>1, OthersKept DEF regs, flipping
<1> QED
  BY <1>3, <1>4, <1>5, <1>6, TypePartsNext DEF IInv

LEMMA SetPaletteInv == ASSUME IInv, NEW v \in Colours, SetPalette(v) PROVE IInv'
<1>1. /\ mode \in Palettized /\ writes < MaxWrites /\ writes' = writes + 1 /\ pal' = v /\ pal_dirty' = TRUE
      /\ UNCHANGED <<memory, enable, mode, offset, frames, console, enabled, setting, flipping>>
  BY DEF SetPalette
<1>2. TypeOK
  BY DEF IInv
<1>3. Switches'
  BY <1>1, <1>2, TypeParts, Zenon DEF Switches, console, flipping
<1>4. MemoryTyped' /\ RegsTyped' /\ CallsTyped' /\ SettingTyped' /\ ConsoleTyped'
  BY <1>1, <1>2, TypeParts DEF MemoryTyped, RegsTyped, CallsTyped, SettingTyped, ConsoleTyped, memory, console, flipping
<1>5. WritesTyped'
  BY <1>1, <1>2, WritesGrow, TypeParts
<1>6. RefreshHasMode' /\ ShownIsTrue'
  BY <1>1 DEF IInv, RefreshHasMode, ShownIsTrue, Pixel, memory, console
<1>7. GraceRuns' /\ CallsHoldTheLock' /\ FlipInAir'
  BY <1>1, OthersKept DEF console, flipping
<1> QED
  BY <1>3, <1>4, <1>5, <1>6, <1>7, TypePartsNext DEF IInv
---------------------------------------------------------------------------
(* DirectDraw's calls change no more than OFFSET, the call and the flip. *)
LEMMA CallStep ==
  ASSUME IInv, UNCHANGED <<enable, mode, frames, pal, pal_dirty, Others>>,
         offset' \in Buffers, CallsTyped', recent' \in BOOLEAN, CallsHoldTheLock', FlipInAir'
  PROVE  IInv'
<1>1. TypeOK
  BY DEF IInv
<1>2. Switches'
  BY <1>1, TypeParts, Zenon DEF Switches, Others, console
<1>3. RegsTyped' /\ MemoryTyped' /\ WritesTyped' /\ ConsoleTyped' /\ SettingTyped'
  BY <1>1, TypeParts DEF RegsTyped, MemoryTyped, WritesTyped, ConsoleTyped, SettingTyped, memory, console, Others
<1>4. RefreshHasMode' /\ ShownIsTrue'
  BY ScreenKept DEF IInv, console, Others
<1>5. GraceRuns'
  BY DEF IInv, GraceRuns, console, Others
<1> QED
  BY <1>2, <1>3, <1>4, <1>5, TypePartsNext DEF IInv

LEMMA Displays == ASSUME IInv, Displaying PROVE enabled /\ setting = NotSetting /\ caller = Nobody /\ caller.call = "none"
BY DEF Displaying, Idle, Nobody

LEMMA CallFacts ==
  ASSUME IInv
  PROVE  /\ CallsTyped /\ offset \in Buffers /\ frames \in 0..MaxFrames /\ recent \in BOOLEAN
         /\ caller.call \in {"none", "flipped", "wait", "flip"}
         /\ caller.call # "none" => setting = NotSetting /\ enabled
BY TypeParts, CallKinds DEF IInv, RegsTyped, Switches, CallsHoldTheLock

LEMMA WriteOffsetInv ==
  ASSUME IInv, NEW b \in Buffers, WriteOffset(b), setting = NotSetting, enabled
  PROVE  IInv'
<1>1. /\ offset' = b /\ caller' = [call |-> "flipped"] /\ flip' = NoFlip /\ recent' = TRUE
      /\ UNCHANGED <<enable, mode, frames, pal, pal_dirty, Others>>
  BY DEF WriteOffset
<1>2. CallsTyped'
  BY <1>1 DEF CallsTyped, Callers, Flips
<1>3. CallsHoldTheLock' /\ FlipInAir'
  BY <1>1 DEF CallsHoldTheLock, FlipInAir, Others
<1> QED
  BY <1>1, <1>2, <1>3, CallStep

LEMMA FlipInv == ASSUME IInv, NEW b \in Buffers, Flip(b) PROVE IInv'
BY Displays, WriteOffsetInv DEF Flip

LEMMA FlipGoesOnInv == ASSUME IInv, FlipGoesOn PROVE IInv'
<1>1. caller.call = "flip" /\ WriteOffset(caller.b)
  BY DEF FlipGoesOn
<1>2. caller.b \in Buffers /\ setting = NotSetting /\ enabled
  BY <1>1, CallFacts, CallKinds
<1> QED
  BY <1>1, <1>2, WriteOffsetInv

LEMMA FlipWaitsInv == ASSUME IInv, NEW b \in Buffers, FlipWaits(b) PROVE IInv'
<1>1. /\ Displaying /\ ~flip_done /\ caller' = [call |-> "flip", b |-> b, f |-> frames, late |-> FALSE]
      /\ UNCHANGED <<regs, flip, recent, Others>>
  BY DEF FlipWaits
<1>2. CallsTyped'
  BY <1>1, CallFacts DEF CallsTyped, Callers
<1>3. CallsHoldTheLock'
  BY <1>1, Displays DEF CallsHoldTheLock, Others
<1>4. FlipInAir'
  BY <1>1, Displays DEF IInv, FlipInAir, Others, regs
<1> QED
  BY <1>1, <1>2, <1>3, <1>4, CallFacts, CallStep DEF regs

LEMMA FlipNotedInv == ASSUME IInv, FlipNoted PROVE IInv'
<1>1. /\ caller' = Nobody /\ flip' = [pending |-> TRUE, frame |-> frames, late |-> FALSE]
      /\ UNCHANGED <<regs, recent, Others>>
  BY DEF FlipNoted
<1>2. CallsTyped'
  BY <1>1, CallFacts DEF CallsTyped, Callers, Flips
<1>3. CallsHoldTheLock' /\ FlipInAir'
  BY <1>1 DEF CallsHoldTheLock, FlipInAir, Others, regs, Nobody
<1> QED
  BY <1>1, <1>2, <1>3, CallFacts, CallStep DEF regs

(* What is forgotten has been followed by a vertical blank, or by 50 ms. *)
LEMMA DoneIsNotRecent == ASSUME IInv, Displaying, flip_done, recent PROVE FALSE
<1>1. flip.pending /\ flip.frame = frames /\ ~flip.late
  BY Displays DEF IInv, FlipInAir
<1> QED
  BY <1>1 DEF flip_done

LEMMA WaitedIsNotRecent == ASSUME IInv, caller.call = "flip", WaitOver, recent PROVE FALSE
BY DEF IInv, FlipInAir, WaitOver

LEMMA FlipStatusInv == ASSUME IInv, FlipStatus PROVE IInv'
<1>1. /\ Displaying /\ flip_done /\ flip' = NoFlip /\ UNCHANGED <<regs, caller, recent, Others>>
  BY DEF FlipStatus
<1>2. ~recent
  BY <1>1, DoneIsNotRecent
<1>3. CallsTyped'
  BY <1>1, CallFacts DEF CallsTyped, Flips
<1>4. CallsHoldTheLock' /\ FlipInAir'
  BY <1>1, <1>2, Displays DEF CallsHoldTheLock, FlipInAir, Others
<1> QED
  BY <1>1, <1>3, <1>4, CallFacts, CallStep DEF regs

LEMMA FlipToGDISurfaceInv == ASSUME IInv, FlipToGDISurface PROVE IInv'
<1>1. /\ Displaying /\ offset' = Primary /\ flip' = NoFlip /\ recent' = FALSE
      /\ UNCHANGED <<enable, mode, frames, pal, pal_dirty, caller, Others>>
  BY DEF FlipToGDISurface
<1>2. CallsTyped'
  BY <1>1, CallFacts DEF CallsTyped, Flips
<1>3. CallsHoldTheLock' /\ FlipInAir'
  BY <1>1, Displays DEF CallsHoldTheLock, FlipInAir, Others
<1> QED
  BY <1>1, <1>2, <1>3, ScreenAssumption, CallStep

LEMMA WaitForVerticalBlankInv == ASSUME IInv, WaitForVerticalBlank PROVE IInv'
<1>1. /\ Displaying /\ caller' = [call |-> "wait", f |-> frames, late |-> FALSE]
      /\ UNCHANGED <<regs, flip, recent, Others>>
  BY DEF WaitForVerticalBlank
<1>2. CallsTyped'
  BY <1>1, CallFacts DEF CallsTyped, Callers
<1>3. CallsHoldTheLock'
  BY <1>1, Displays DEF CallsHoldTheLock, Others
<1>4. FlipInAir'
  BY <1>1, Displays DEF IInv, FlipInAir, Others, regs
<1> QED
  BY <1>1, <1>2, <1>3, <1>4, CallFacts, CallStep DEF regs

LEMMA WaitEndsInv == ASSUME IInv, WaitEnds PROVE IInv'
<1>1. /\ caller.call = "wait" /\ caller' = Nobody /\ UNCHANGED <<regs, flip, recent, Others>>
  BY DEF WaitEnds
<1>2. CallsTyped'
  BY <1>1, CallFacts DEF CallsTyped, Callers
<1>3. CallsHoldTheLock'
  BY <1>1 DEF CallsHoldTheLock, Others
<1>4. FlipInAir'
  BY <1>1 DEF IInv, FlipInAir, Others, regs, Nobody
<1> QED
  BY <1>1, <1>2, <1>3, <1>4, CallFacts, CallStep DEF regs

LEMMA LateCaller == ASSUME CallsTyped PROVE Late(caller) \in Callers /\ (caller # Nobody <=> Late(caller) # Nobody)
<1>1. CASE caller \in {Nobody, [call |-> "flipped"]}
  <2>1. "late" \notin DOMAIN caller
    BY <1>1 DEF Nobody
  <2>2. Late(caller) = caller
    BY <2>1 DEF Late
  <2> QED
    BY <2>2, <1>1 DEF Callers
<1>2. CASE caller \in [call : {"wait"}, f : 0..MaxFrames, late : BOOLEAN]
  <2>1. Late(caller) = [caller EXCEPT !.late = TRUE]
    BY <1>2 DEF Late
  <2>2. [caller EXCEPT !.late = TRUE] \in [call : {"wait"}, f : 0..MaxFrames, late : BOOLEAN]
    BY <1>2
  <2>3. Late(caller).call = "wait" /\ caller.call = "wait" /\ Nobody.call = "none"
    BY <2>1, <2>2, <1>2 DEF Nobody
  <2>4. Late(caller) \in Callers
    BY <2>1, <2>2 DEF Callers
  <2> QED
    BY <2>3, <2>4
<1>3. CASE caller \in [call : {"flip"}, f : 0..MaxFrames, late : BOOLEAN, b : Buffers]
  <2>1. Late(caller) = [caller EXCEPT !.late = TRUE]
    BY <1>3 DEF Late
  <2>2. [caller EXCEPT !.late = TRUE] \in [call : {"flip"}, f : 0..MaxFrames, late : BOOLEAN, b : Buffers]
    BY <1>3
  <2>3. Late(caller).call = "flip" /\ caller.call = "flip" /\ Nobody.call = "none"
    BY <2>1, <2>2, <1>3 DEF Nobody
  <2>4. Late(caller) \in Callers
    BY <2>1, <2>2 DEF Callers
  <2> QED
    BY <2>3, <2>4
<1> QED
  BY <1>1, <1>2, <1>3 DEF CallsTyped, Callers

LEMMA LateFlip == ASSUME CallsTyped PROVE Late(flip) \in Flips
<1>1. CASE flip = NoFlip
  <2>1. "late" \notin DOMAIN flip
    BY <1>1 DEF NoFlip
  <2> QED
    BY <2>1, <1>1 DEF Late, CallsTyped, Callers, Flips
<1>2. CASE flip \in [pending : {TRUE}, frame : 0..MaxFrames, late : BOOLEAN]
  <2>1. Late(flip) = [flip EXCEPT !.late = TRUE]
    BY <1>2 DEF Late
  <2>2. [flip EXCEPT !.late = TRUE] \in [pending : {TRUE}, frame : 0..MaxFrames, late : BOOLEAN]
    BY <1>2
  <2> QED
    BY <2>1, <2>2 DEF CallsTyped, Callers, Flips
<1> QED
  BY <1>1, <1>2 DEF CallsTyped, Flips

LEMMA ClockInv == ASSUME IInv, Clock PROVE IInv'
<1>1. /\ caller' = Late(caller) /\ flip' = Late(flip) /\ recent' = FALSE
      /\ UNCHANGED <<regs, Others>>
  BY DEF Clock
<1>2. CallsTyped'
  BY <1>1, LateCaller, LateFlip, CallFacts DEF CallsTyped
<1>3. CallsHoldTheLock' /\ FlipInAir'
  BY <1>1, LateCaller, LateFlip, CallFacts DEF IInv, CallsHoldTheLock, FlipInAir, Others
<1> QED
  BY <1>1, <1>2, <1>3, CallFacts, CallStep DEF regs

---------------------------------------------------------------------------
LEMMA InitInv == Init => IInv
<1> SUFFICES ASSUME Init PROVE IInv
  OBVIOUS
<1>1. MemoryTyped /\ RegsTyped /\ ConsoleTyped
  BY ScreenAssumption, Bounds DEF Init, MemoryTyped, RegsTyped, ConsoleTyped, Black, Colours
<1>2. Switches
  BY Zenon DEF Init, Switches
<1>3. SettingTyped /\ CallsTyped /\ WritesTyped
  BY Bounds DEF Init, SettingTyped, NotSetting, Setting, CallsTyped, Callers, Flips, WritesTyped
<1>4. RefreshHasMode /\ ShownIsTrue /\ GraceRuns /\ CallsHoldTheLock /\ FlipInAir
  BY DEF Init, RefreshHasMode, ShownIsTrue, GraceRuns, CallsHoldTheLock, FlipInAir, Nobody
<1> QED
  BY <1>1, <1>2, <1>3, <1>4, TypeParts DEF IInv

LEMMA StutterInv == ASSUME IInv, UNCHANGED vars PROVE IInv'
<1>1. UNCHANGED <<memory, regs, console, enabled, setting, flipping, writes>>
  BY DEF vars
<1>2. TypeOK' <=> TypeOK
  BY <1>1 DEF TypeOK, memory, regs, console, flipping, Colours, Linear
<1>3. RefreshHasMode' /\ ShownIsTrue'
  BY <1>1, ScreenKept DEF IInv, console, regs
<1>4. GraceRuns' /\ CallsHoldTheLock' /\ FlipInAir'
  BY <1>1, OthersKept DEF console, regs, flipping
<1> QED
  BY <1>2, <1>3, <1>4 DEF IInv

LEMMA NextInv == IInv /\ [Next]_vars => IInv'
<1> SUFFICES ASSUME IInv, [Next]_vars PROVE IInv'
  OBVIOUS
<1>1. CASE Guest
  <2>1. CASE \E b \in Buffers, v \in Colours : ReadBack(b, v) \/ \E r \in Rows : ProgramWrites(b, r, v)
    BY <2>1, ReadBackInv, ProgramWritesInv
  <2>2. CASE (\E m \in Modes : SetModeOff(m)) \/ SetModeZero \/ SetModeProgram \/ SetModeOn \/ ResetDevice \/ StopScreen
    BY <2>2, SetModeOffInv, SetModeZeroInv, SetModeProgramInv, SetModeOnInv, ResetDeviceInv, StopScreenInv
  <2>3. CASE \E v \in Colours : SetPalette(v)
    BY <2>3, SetPaletteInv
  <2>4. CASE (\E b \in Buffers : Flip(b) \/ FlipWaits(b)) \/ FlipGoesOn \/ FlipNoted \/ FlipStatus \/ FlipToGDISurface
    BY <2>4, FlipInv, FlipWaitsInv, FlipGoesOnInv, FlipNotedInv, FlipStatusInv, FlipToGDISurfaceInv
  <2>5. CASE WaitForVerticalBlank \/ WaitEnds
    BY <2>5, WaitForVerticalBlankInv, WaitEndsInv
  <2> QED
    BY <1>1, <2>1, <2>2, <2>3, <2>4, <2>5 DEF Guest
<1>2. CASE Refresh
  BY <1>2, RefreshLinearInv, RefreshVgaInv, RefreshRowInv DEF Refresh
<1>3. CASE UNCHANGED vars
  BY <1>3, StutterInv
<1> QED
  BY <1>1, <1>2, <1>3, InvalidateInv, TickInv, ClockInv, ResetInv DEF Next

(* The invariant is one. *)
THEOREM ScreenInductive == Spec => []IInv
BY InitInv, NextInv, PTL DEF Spec

(* The device's and the console's state stays within its type. *)
THEOREM ScreenTypeCorrect == Spec => []TypeOK
BY ScreenInductive, PTL DEF IInv

(* Between refreshes that repaint all, what the dirty log does not name is on   *)
(* the screen already: with any number of rows, buffers and modes.            *)
THEOREM NothingGoesStale == Spec => []NothingStale
<1>1. IInv => NothingStale
  <2> SUFFICES ASSUME IInv, lin = Current, ~full_update, ~(pal_dirty /\ mode \in Palettized),
                      NEW r \in Rows \ (refreshing \cup dirty[offset])
               PROVE  shown[r] = Pixel(mode, vram[offset][r])
    BY DEF NothingStale
  <2>1. lin # NoLinear /\ lin.mode = mode /\ lin.offset = offset
    BY TypeParts, CurrentLinear DEF IInv, Current
  <2> QED
    BY <2>1 DEF IInv, ShownIsTrue
<1> QED
  BY <1>1, ScreenInductive, PTL

(* The VGA core shows only after the grace, however often ENABLE goes on and off. *)
THEOREM LastFrameIsHeld == Spec => NoVgaBetweenModes
<1>1. IInv /\ [Next]_vars => [lin # NoLinear /\ lin' = NoLinear => dark' > GraceRefreshes]_vars
  <2> SUFFICES ASSUME IInv, Next, lin # NoLinear, lin' = NoLinear PROVE dark' > GraceRefreshes
    OBVIOUS
  <2>1. RefreshVga \/ lin' = lin \/ RefreshLinear
    BY DEF Next, Guest, Refresh, ReadBack, ProgramWrites, SetModeOff, SetModeZero, SetModeProgram, SetModeOn, ResetDevice,
       StopScreen, ResetToVga, WriteEnable, SetPalette, Flip, FlipWaits, FlipGoesOn, FlipNoted, FlipStatus, WriteOffset,
       FlipToGDISurface, WaitForVerticalBlank, WaitEnds, RefreshRow, Invalidate, Tick, Clock, Reset, ResetRegisters,
       Others, console
  <2>2. RefreshVga
    <3>1. RefreshLinear => lin' = Current
      BY DEF RefreshLinear
    <3>2. Current # NoLinear
      BY TypeParts, CurrentLinear DEF IInv
    <3> QED
      BY <2>1, <3>1, <3>2
  <2>3. ~enable /\ vga_grace \in 0..GraceRefreshes /\ dark \in 0..GraceRefreshes + 1
    BY <2>2, TypeParts DEF RefreshVga, NotEnabled, IInv, ConsoleTyped
  <2>4. ~(vga_grace > 0) /\ dark' = (IF dark > GraceRefreshes THEN dark ELSE dark + 1)
    BY <2>2 DEF RefreshVga, NotEnabled
  <2>5. dark + vga_grace >= GraceRefreshes
    BY <2>3 DEF IInv, GraceRuns
  <2> QED
    BY <2>3, <2>4, <2>5, Bounds
<1> QED
  BY <1>1, ScreenInductive, PTL DEF Spec, NoVgaBetweenModes

(* No flip follows another within the same vertical blank (d3dptdisp.c:991). *)
THEOREM FlipsArePaced == Spec => FlipsPaced
<1>1. IInv /\ [Next]_vars => [caller'.call = "flipped" /\ caller.call # "flipped" => ~recent]_vars
  <2> SUFFICES ASSUME IInv, Next, caller'.call = "flipped", caller.call # "flipped" PROVE ~recent
    OBVIOUS
  <2>1. (\E b \in Buffers : Flip(b)) \/ FlipGoesOn \/ caller'.call # "flipped" \/ caller' = caller \/ caller' = Late(caller)
    <3>1. CASE Guest
      <4>1. CASE \E b \in Buffers, v \in Colours : ReadBack(b, v) \/ \E r \in Rows : ProgramWrites(b, r, v)
        BY <4>1 DEF ReadBack, ProgramWrites, flipping
      <4>2. CASE (\E m \in Modes : SetModeOff(m)) \/ SetModeZero \/ SetModeProgram \/ SetModeOn \/ ResetDevice
        BY <4>2 DEF SetModeOff, SetModeZero, SetModeProgram, SetModeOn, ResetDevice, flipping
      <4>3. CASE StopScreen \/ FlipNoted \/ WaitEnds
        BY <4>3 DEF StopScreen, FlipNoted, WaitEnds, Nobody
      <4>4. CASE (\E v \in Colours : SetPalette(v)) \/ FlipStatus \/ FlipToGDISurface
        BY <4>4 DEF SetPalette, FlipStatus, FlipToGDISurface, flipping
      <4>5. CASE (\E b \in Buffers : FlipWaits(b)) \/ WaitForVerticalBlank
        BY <4>5 DEF FlipWaits, WaitForVerticalBlank
      <4> QED
        BY <3>1, <4>1, <4>2, <4>3, <4>4, <4>5 DEF Guest
    <3>2. CASE Refresh \/ Invalidate \/ Tick
      BY <3>2 DEF Refresh, RefreshRow, RefreshLinear, RefreshVga, NotEnabled, Invalidate, Tick, flipping
    <3>3. CASE Clock
      BY <3>3 DEF Clock
    <3>4. CASE Reset
      BY <3>4 DEF Reset, Nobody
    <3> QED
      BY <3>1, <3>2, <3>3, <3>4 DEF Next
  <2>2. caller' # caller /\ caller' # Late(caller)
    <3>1. Late(caller).call = caller.call
      <4>1. CASE "late" \in DOMAIN caller
        BY <4>1, CallFacts DEF Late, CallsTyped, Callers, Nobody
      <4>2. CASE "late" \notin DOMAIN caller
        BY <4>2 DEF Late
      <4> QED
        BY <4>1, <4>2
    <3> QED
      BY <3>1
  <2>3. CASE \E b \in Buffers : Flip(b)
    BY <2>3, DoneIsNotRecent DEF Flip
  <2>4. CASE FlipGoesOn
    BY <2>4, WaitedIsNotRecent DEF FlipGoesOn
  <2> QED
    BY <2>1, <2>2, <2>3, <2>4
<1> QED
  BY <1>1, ScreenInductive, PTL DEF Spec, FlipsPaced
=============================================================================
