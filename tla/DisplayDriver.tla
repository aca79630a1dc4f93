---------------------------- MODULE DisplayDriver ----------------------------
(***************************************************************************)
(* The display driver's own life: how Windows finds the adapter, makes a    *)
(* PDEV for each mode it changes to and takes the last one down, what the    *)
(* driver tells DirectDraw, which PDEV Direct3D's calls go to, and the       *)
(* hardware cursor.                                                         *)
(*                                                                         *)
(*   guest-tools/src/d3dptvid/d3dptvid.c   the miniport                     *)
(*   guest-tools/src/d3dptvid/d3dptdisp.c  the display driver               *)
(*   d3dpt/hw/d3dpt_vga.c                  the device                       *)
(*                                                                         *)
(* GDI and dxg call the driver with their lock held, so a call is a step.   *)
(* What they do with its answers is external: the order of a mode change,    *)
(* and why dxg drops a driver, as the driver's comments report it.          *)
(***************************************************************************)
EXTENDS Integers, Sequences, FiniteSets

CONSTANTS
  PDEVs, NULL,        \* what EngAllocMem gives for a PDEV; no PDEV
  VramSizes,          \* sizes of video memory the machine may be started with, in bytes
  Requests,           \* DEVMODEs asked for: [w, h, bpp, hz], 0 is any
  FlagSets,           \* values of the device's ddflags property, as sets of names
  Processes, Free,    \* programs that use Direct3D; a context of nobody
  MaxContexts,        \* D3D_MAX_CTX
  Positions           \* where the pointer may be

MiB == 1048576

(* QEMU rounds video memory up to a power of two of MiB; the flags take     *)
(* nothing away that dxg, by the driver's comments, insists on.            *)
ASSUME DriverAssumption ==
  /\ Cardinality(PDEVs) >= 2 /\ NULL \notin PDEVs /\ Free \notin Processes
  /\ VramSizes \subseteq Nat /\ \A n \in VramSizes : n % MiB = 0
  /\ MaxContexts \in Nat \ {0} /\ Positions # {}
  /\ \A F \in FlagSets :
       F \cap {"GDI_CAP", "NO_SURFACE_CB", "CKEY_NOBLTCB", "NO_D3D_INFO", "NO_D3D_CB3"} = {}

D3DPT_SHM_SIZE == 64 * MiB
D3DPT_FB_CURSOR_MAX == 64
D3DPT_FB_CURSOR_BYTES == D3DPT_FB_CURSOR_MAX * D3DPT_FB_CURSOR_MAX * 4

VARIABLES
  \* the machine, as it was started
  fb_len, exec, ddflags,
  accepts,            \* whether win32k takes the device surface
  \* the device
  reg,                \* the linear mode's registers
  sprite, mouse,      \* the console's cursor: its shape; place and whether it is shown
  host_ctx,           \* the executor's contexts
  \* the miniport
  ext,
  \* the display driver
  pdev, d3d_pdev, d3d_ctx,
  \* GDI and the programs
  gdi,                \* [at, cur, new]: the place in a mode change, the PDEV in use, the other one
  running,
  offered             \* history: whether Direct3D was offered, of every offer since Windows started

machine == <<fb_len, exec, ddflags, accepts>>
cursor == <<sprite, mouse>>
contexts == <<host_ctx, d3d_ctx, running>>
driverVars == <<machine, reg, cursor, contexts, ext, pdev, d3d_pdev, gdi, offered>>

---------------------------------------------------------------------------
(* The modes: the device's table, and the miniport's list of those that     *)
(* fit into its video memory.                                              *)

fb_sizes == <<<<640, 480>>, <<800, 600>>, <<1024, 768>>, <<1152, 864>>, <<1280, 960>>, <<1280, 1024>>, <<1600, 1200>>>>
fb_hz == <<60, 75, 85>>
fb_bpp == <<8, 16, 32>>
FB_MODE_COUNT == Len(fb_sizes) * Len(fb_hz) * Len(fb_bpp)

bpp_pitch(w, bpp) == ((w * (bpp \div 8) + 31) \div 32) * 32

fb_mode_entry(sel) ==
  LET size == fb_sizes[sel \div (Len(fb_bpp) * Len(fb_hz)) + 1]
      bpp  == fb_bpp[(sel % Len(fb_bpp)) + 1]
  IN [w |-> size[1], h |-> size[2], bpp |-> bpp, pitch |-> bpp_pitch(size[1], bpp),
      hz |-> fb_hz[((sel \div Len(fb_bpp)) % Len(fb_hz)) + 1]]

ModeTable == {i \in 0..FB_MODE_COUNT - 1 : fb_mode_entry(i).pitch * fb_mode_entry(i).h <= fb_len}

Allows(r, m) == r.w \in {0, m.w} /\ r.h \in {0, m.h} /\ r.bpp \in {0, m.bpp} /\ r.hz \in {0, 1, m.hz}

(* pick_mode takes the first mode of the list that a DEVMODE allows. *)
pick_mode(r) ==
  {i \in ModeTable : /\ Allows(r, fb_mode_entry(i))
                     /\ \A j \in ModeTable : Allows(r, fb_mode_entry(j)) => i <= j}

---------------------------------------------------------------------------
(* Video memory: the primary, DirectDraw's heap, the cursor's image and the *)
(* command window.                                                         *)

cmd_offset == IF fb_len >= 2 * D3DPT_SHM_SIZE THEN fb_len - D3DPT_SHM_SIZE ELSE 0

Mode(p) == pdev[p].mode
heap_start(p) == ((Mode(p).pitch * Mode(p).h + 4095) \div 4096) * 4096
heap_end(p) == IF pdev[p].cmd # 0 THEN pdev[p].cmd ELSE fb_len

(* A mutant: the heap reaches up to the command window. *)
dd_heap_end_whole(p) == heap_end(p)

dd_heap_end(p) == heap_end(p) - D3DPT_FB_CURSOR_BYTES
cursor_offset(p) == heap_end(p) - D3DPT_FB_CURSOR_BYTES

Unset == [w |-> 0, h |-> 0, bpp |-> 0, pitch |-> 0, hz |-> 0]
Off == [enable |-> FALSE, mode |-> Unset]
NoPdev == [mode |-> Unset, cmd |-> 0, surface |-> "none", d3d |-> FALSE, told |-> FALSE]
Hidden == [pos |-> CHOOSE q \in Positions : TRUE, on |-> FALSE]
Driver == [mapped |-> FALSE, cur_mode |-> Unset, enabled |-> FALSE]
Gdi(at, cur, new) == [at |-> at, cur |-> cur, new |-> new]

ListedModes == {Unset} \cup {fb_mode_entry(i) : i \in ModeTable}

DriverTypeOK ==
  /\ fb_len \in VramSizes /\ exec \in BOOLEAN /\ accepts \in BOOLEAN /\ ddflags \in FlagSets
  /\ reg \in [enable : BOOLEAN, mode : ListedModes]
  /\ ext \in [mapped : BOOLEAN, cur_mode : ListedModes, enabled : BOOLEAN]
  /\ pdev \in [PDEVs -> [mode : ListedModes, cmd : {0, cmd_offset}, surface : {"none", "device", "bitmap"},
                         d3d : BOOLEAN, told : BOOLEAN]]
  /\ sprite \in {"none", "shape"} /\ mouse \in [pos : Positions, on : BOOLEAN]
  /\ host_ctx \subseteq 1..MaxContexts /\ d3d_ctx \in [1..MaxContexts -> Processes \cup {Free}]
  /\ d3d_pdev \in PDEVs \cup {NULL} /\ running \subseteq Processes /\ offered \subseteq BOOLEAN
  /\ gdi \in [at : {"boot", "idle", "off", "made", "surface", "failed", "retire", "stopped"},
              cur : PDEVs \cup {NULL}, new : PDEVs \cup {NULL}]

NoContexts == [i \in 1..MaxContexts |-> Free]

DriverInit ==
  /\ fb_len \in VramSizes /\ exec \in BOOLEAN /\ accepts \in BOOLEAN /\ ddflags \in FlagSets
  /\ reg = Off /\ sprite = "none" /\ mouse = Hidden
  /\ host_ctx = {} /\ d3d_ctx = NoContexts /\ running = {}
  /\ ext = Driver /\ pdev = [p \in PDEVs |-> NoPdev] /\ d3d_pdev = NULL
  /\ gdi = Gdi("boot", NULL, NULL) /\ offered = {}

---------------------------------------------------------------------------
(* The miniport is loaded; the registers answer as they should. *)

FindAdapter(mapped) ==
  /\ gdi.at = "boot"
  /\ ext' = [Driver EXCEPT !.mapped = mapped]
  /\ gdi' = Gdi("idle", NULL, NULL)
  /\ UNCHANGED <<machine, reg, cursor, contexts, pdev, d3d_pdev, offered>>

(* IOCTL_VIDEO_SET_CURRENT_MODE. *)
set_mode(p) ==
  /\ reg' = [enable |-> TRUE, mode |-> pdev[p].mode]
  /\ ext' = [ext EXCEPT !.cur_mode = pdev[p].mode, !.enabled = TRUE]

reset_to_vga == reg' = [reg EXCEPT !.enable = FALSE] /\ ext' = [ext EXCEPT !.enabled = FALSE]

(* dpy_mouse_set. *)
cursor_show(at) == mouse' = at

Hide == cursor_show([mouse EXCEPT !.on = FALSE])

---------------------------------------------------------------------------
(* A mode change: the old PDEV leaves the screen, a new one is made and     *)
(* shown, DirectDraw asks it, and the old one goes.                        *)

AssertModeOff ==
  /\ gdi.at = "idle" /\ gdi.cur # NULL
  /\ reset_to_vga /\ Hide
  /\ gdi' = [gdi EXCEPT !.at = "off"]
  /\ UNCHANGED <<machine, sprite, contexts, pdev, d3d_pdev, offered>>

EnablePDEV(p, r) ==
  /\ gdi.at = "off" \/ (gdi.at = "idle" /\ gdi.cur = NULL)
  /\ p # gdi.cur
  /\ \E i \in pick_mode(r) : pdev' = [pdev EXCEPT ![p] = [NoPdev EXCEPT !.mode = fb_mode_entry(i)]]
  /\ gdi' = Gdi("made", gdi.cur, p)
  /\ UNCHANGED <<machine, reg, cursor, contexts, ext, d3d_pdev, offered>>

(* Neither a device surface nor a bitmap could be made: the mode is set     *)
(* already.                                                                *)
EnableSurfaceFails ==
  /\ gdi.at = "made"
  /\ set_mode(gdi.new)
  /\ gdi' = [gdi EXCEPT !.at = "failed"]
  /\ UNCHANGED <<machine, cursor, contexts, pdev, d3d_pdev, offered>>

EnableSurface ==
  /\ gdi.at = "made" /\ ext.mapped
  /\ set_mode(gdi.new)
  /\ pdev' = [pdev EXCEPT ![gdi.new].surface = IF accepts /\ "ENGINE_BITMAP" \notin ddflags THEN "device" ELSE "bitmap",
                          ![gdi.new].cmd = cmd_offset]
  /\ gdi' = [gdi EXCEPT !.at = "surface"]
  /\ UNCHANGED <<machine, cursor, contexts, d3d_pdev, offered>>

DisablePDEV ==
  /\ gdi.at = "failed"
  /\ pdev' = [pdev EXCEPT ![gdi.new] = NoPdev]
  /\ gdi' = Gdi(IF gdi.cur = NULL THEN "idle" ELSE "off", gdi.cur, NULL)
  /\ UNCHANGED <<machine, reg, cursor, contexts, ext, d3d_pdev, offered>>

(* A mutant: no Direct3D at 8 bits per pixel. *)
d3d_init_by_depth(p) ==
  /\ pdev[p].cmd # 0 /\ "NO_D3D" \notin ddflags /\ exec
  /\ Mode(p).bpp # 8

(* d3d_init, for a PDEV that has no Direct3D yet. *)
d3d_init(p) == pdev[p].cmd # 0 /\ "NO_D3D" \notin ddflags /\ exec

(* DrvGetDirectDrawInfo and DrvEnableDirectDraw. *)
EnableDirectDraw(p) ==
  LET taken == heap_start(p) < heap_end(p) /\ (pdev[p].surface = "device" \/ "ENGINE_BITMAP" \in ddflags)
      d3d   == pdev[p].d3d \/ (taken /\ d3d_init(p)) IN
  /\ pdev' = [pdev EXCEPT ![p].d3d = d3d, ![p].told = taken]
  /\ d3d_pdev' = IF d3d /\ ~pdev[p].d3d THEN p ELSE d3d_pdev
  /\ offered' = offered \cup {d3d}

Shown ==
  /\ gdi.at = "surface"
  /\ EnableDirectDraw(gdi.new)
  /\ gdi' = IF gdi.cur = NULL THEN Gdi("idle", gdi.new, NULL) ELSE Gdi("retire", gdi.new, gdi.cur)
  /\ UNCHANGED <<machine, reg, cursor, contexts, ext>>

(* A mutant: the PDEV that has Direct3D is forgotten whichever goes. *)
ForgetAny(p) == d3d_pdev' = NULL

(* The PDEV that goes, if it is the one Direct3D's calls go to, takes that  *)
(* with it.                                                                *)
Forget(p) == d3d_pdev' = IF pdev[p].d3d /\ d3d_pdev = p THEN NULL ELSE d3d_pdev

(* DrvDisableSurface and DrvDisablePDEV. *)
Retire ==
  /\ gdi.at = "retire"
  /\ Forget(gdi.new)
  /\ pdev' = [pdev EXCEPT ![gdi.new] = NoPdev]
  /\ gdi' = Gdi("idle", gdi.cur, NULL)
  /\ UNCHANGED <<machine, reg, cursor, contexts, ext, offered>>

(* A mutant: DrvAssertMode takes the mode to be set still. *)
AssertModeTrusts(p) ==
  /\ reg' = [reg EXCEPT !.enable = TRUE]
  /\ ext' = [ext EXCEPT !.enabled = TRUE]

AssertMode(p) == set_mode(p)

(* The old PDEV comes back, and DirectDraw asks it again. *)
AssertModeOn ==
  /\ gdi.at = "off"
  /\ AssertMode(gdi.cur) /\ EnableDirectDraw(gdi.cur)
  /\ gdi' = [gdi EXCEPT !.at = "idle"]
  /\ UNCHANGED <<machine, cursor, contexts>>

---------------------------------------------------------------------------
(* The hardware cursor. *)

GdiDraws == gdi.at = "idle" /\ gdi.cur # NULL

(* The device takes the image that its registers describe. *)
fb_cursor_define(addr, side) == side \in 1..D3DPT_FB_CURSOR_MAX /\ addr + side * side * 4 <= fb_len

SetPointerShape(side, q) ==
  /\ GdiDraws /\ side <= D3DPT_FB_CURSOR_MAX
  /\ sprite' = IF fb_cursor_define(cursor_offset(gdi.cur), side) THEN "shape" ELSE sprite
  /\ cursor_show([pos |-> q, on |-> TRUE])
  /\ UNCHANGED <<machine, reg, contexts, ext, pdev, d3d_pdev, gdi, offered>>

MovePointer(q) ==
  /\ GdiDraws /\ cursor_show([pos |-> q, on |-> TRUE])
  /\ UNCHANGED <<machine, reg, sprite, contexts, ext, pdev, d3d_pdev, gdi, offered>>

(* No shape, or a pointer moved off the screen. *)
HidePointer ==
  /\ GdiDraws /\ Hide
  /\ UNCHANGED <<machine, reg, sprite, contexts, ext, pdev, d3d_pdev, gdi, offered>>

---------------------------------------------------------------------------
(* Direct3D's contexts: dxg names none of the PDEVs. *)

InUse == {i \in 1..MaxContexts : d3d_ctx[i] # Free}

ContextCreate(pid) ==
  /\ GdiDraws /\ pdev[gdi.cur].told /\ pdev[gdi.cur].d3d
  /\ d3d_pdev # NULL /\ InUse # 1..MaxContexts
  /\ running' = running \cup {pid}
  /\ LET i == CHOOSE i \in 1..MaxContexts \ InUse : \A j \in 1..MaxContexts \ InUse : i <= j IN
     IF i \in host_ctx
       THEN UNCHANGED <<host_ctx, d3d_ctx>>
       ELSE host_ctx' = host_ctx \cup {i} /\ d3d_ctx' = [d3d_ctx EXCEPT ![i] = pid]
  /\ UNCHANGED <<machine, reg, cursor, ext, pdev, d3d_pdev, gdi, offered>>

Destroy(S) ==
  LET gone == IF d3d_pdev = NULL THEN {} ELSE S IN
  /\ host_ctx' = host_ctx \ gone
  /\ d3d_ctx' = [i \in 1..MaxContexts |-> IF i \in gone THEN Free ELSE d3d_ctx[i]]
  /\ UNCHANGED <<machine, reg, cursor, ext, pdev, d3d_pdev, gdi, offered>>

ContextDestroy(i) ==
  /\ gdi.at \in {"idle", "off"} /\ i \in InUse
  /\ Destroy({i}) /\ UNCHANGED running

(* The program ends: when dxg tells, the mode may be another one already. *)
ContextDestroyAll(pid) ==
  /\ gdi.at \in {"idle", "off"} /\ pid \in running
  /\ running' = running \ {pid}
  /\ Destroy({i \in 1..MaxContexts : d3d_ctx[i] = pid})

---------------------------------------------------------------------------
(* A stop screen resets the adapter without the display driver. *)
HwResetHw ==
  /\ gdi.at \notin {"boot", "stopped"} /\ ext.enabled
  /\ reset_to_vga
  /\ gdi' = [gdi EXCEPT !.at = "stopped"]
  /\ UNCHANGED <<machine, cursor, contexts, pdev, d3d_pdev, offered>>

Reboot ==
  /\ gdi.at # "boot"
  /\ reg' = Off /\ host_ctx' = {} /\ d3d_ctx' = NoContexts /\ running' = {}
  /\ ext' = Driver /\ pdev' = [p \in PDEVs |-> NoPdev] /\ d3d_pdev' = NULL
  /\ gdi' = Gdi("boot", NULL, NULL) /\ offered' = {}
  /\ UNCHANGED <<machine, cursor>>

DriverNext ==
  \/ \E mapped \in BOOLEAN : FindAdapter(mapped)
  \/ AssertModeOff \/ AssertModeOn
  \/ \E p \in PDEVs, r \in Requests : EnablePDEV(p, r)
  \/ EnableSurface \/ EnableSurfaceFails \/ DisablePDEV \/ Shown \/ Retire
  \/ \E q \in Positions : MovePointer(q) \/ \E side \in {32, 64, 96} : SetPointerShape(side, q)
  \/ HidePointer
  \/ \E pid \in Processes : ContextCreate(pid) \/ ContextDestroyAll(pid)
  \/ \E i \in 1..MaxContexts : ContextDestroy(i)
  \/ HwResetHw \/ Reboot

DriverSpec == DriverInit /\ [][DriverNext]_driverVars

---------------------------------------------------------------------------
(* What DirectDraw is told. *)

Flag(f) == f \in ddflags

ddCaps(p) ==
  (IF Flag("GDI_CAP") THEN {"gdi"} ELSE {})
  \cup (IF pdev[p].d3d /\ ~Flag("NO_CKEY") THEN {"colorkey"} ELSE {})
  \cup (IF pdev[p].d3d /\ ~Flag("NO_3D_CAP") THEN {"3d"} ELSE {})

SurfaceCallbacks(p) ==
  IF Flag("NO_SURFACE_CB") THEN {} ELSE
    {"Flip", "GetBltStatus", "GetFlipStatus"}
    \cup (IF pdev[p].d3d THEN {"DestroySurface", "Lock", "Unlock"} ELSE {})
    \cup (IF pdev[p].d3d /\ ~Flag("NO_CKEY") THEN {"SetColorKey"} ELSE {})
    \cup (IF pdev[p].d3d /\ ~Flag("CKEY_NOBLTCB") THEN {"Blt"} ELSE {})

(* The GUIDs DdGetDriverInfo answers. *)
DriverInfo(p) ==
  LET Unless(f, guid) == IF Flag(f) THEN {} ELSE {guid} IN
  IF ~pdev[p].d3d \/ Flag("NO_D3D_INFO")
    THEN {"NTCallbacks"}
    ELSE {"NTCallbacks", "D3DCallbacks2", "D3DExtendedCaps", "ZPixelFormats"}
         \cup Unless("NO_D3D_CB3", "D3DCallbacks3") \cup Unless("NO_MISC2", "Miscellaneous2Callbacks")
         \cup Unless("NO_PARSEUNKNOWN", "D3DParseUnknownCommandCallback") \cup Unless("NO_DX8", "GetDriverInfo2")

(* DDHALINFO_GETDRIVERINFO2: the DirectX 8 runtime asks only then. *)
AsksDriverInfo2(p) == pdev[p].d3d /\ ~Flag("NO_DX8")

(* Pixel formats, by kind and bits per pixel; 4444 and 565 by their name. *)
Rgb(bits, red, alpha) == [kind |-> "rgb", bits |-> bits, red |-> red, alpha |-> alpha]
Other(kind, name) == [kind |-> kind, name |-> name]

TextureFormats ==
  {Rgb(32, 16, FALSE), Rgb(32, 16, TRUE), Rgb(16, 11, FALSE), Rgb(16, 10, FALSE), Rgb(16, 10, TRUE), Rgb(16, 8, TRUE)}
  \cup {Other("fourcc", f) : f \in {"DXT1", "DXT3", "DXT5"}}
  \cup (IF Flag("NO_CKEY") THEN {} ELSE {Other("p8", "P8")})

ZFormats == {[kind |-> "z", bits |-> 16, stencil |-> 0], [kind |-> "z", bits |-> 32, stencil |-> 0],
             [kind |-> "z", bits |-> 32, stencil |-> 8]}

Formats8 ==
  {Other("d3dformat", f) : f \in {"X8R8G8B8", "A8R8G8B8", "R5G6B5", "X1R5G5B5", "A1R5G5B5", "A4R4G4B4",
                                 "DXT1", "DXT3", "DXT5", "D16", "D24X8", "D24S8"}}
  \cup (IF Flag("NO_CKEY") THEN {} ELSE {Other("d3dformat", "P8")})

(* The format the host mirrors, of a pixel format; "none": it does not. *)
pf_format(f) ==
  CASE f.kind \in {"d3dformat", "fourcc", "p8"} -> f.name
    [] f.kind = "z" -> IF f.bits = 16 THEN (IF f.stencil > 0 THEN "D15S1" ELSE "D16")
                       ELSE IF f.stencil > 0 THEN "D24S8" ELSE "D24X8"
    [] f.kind = "rgb" /\ f.bits = 32 -> IF f.red # 16 THEN "none" ELSE IF f.alpha THEN "A8R8G8B8" ELSE "X8R8G8B8"
    [] f.kind = "rgb" /\ f.bits = 16 ->
         CASE f.red = 11 -> "R5G6B5"
           [] f.red = 10 -> IF f.alpha THEN "A1R5G5B5" ELSE "X1R5G5B5"
           [] f.red = 8  -> IF f.alpha THEN "A4R4G4B4" ELSE "X4R4G4B4"

(* fmt_row_bytes, of the driver and of the executor: what both can measure. *)
Measured ==
  {"X8R8G8B8", "A8R8G8B8", "D24X8", "D24S8", "D32", "R5G6B5", "X1R5G5B5", "A1R5G5B5", "A4R4G4B4", "X4R4G4B4",
   "D16", "D15S1", "P8", "DXT1", "DXT2", "DXT3", "DXT4", "DXT5"}

CanCreateSurface(p, f) == pdev[p].d3d /\ pf_format(f) # "none"

(* Where a vertex or index buffer goes that the runtime wants in video      *)
(* memory: it asks for that by the caps of the DirectX 8 interface.        *)
AsksForVideoMemory == ~Flag("NO_HWVB")
CreateD3DBuffer(videomemory) == IF videomemory /\ ~Flag("NO_HWVB") THEN "heap" ELSE "system"

(* What makes dxg drop a driver's acceleration: external, as the driver's   *)
(* comments found it.                                                      *)
DxgKeeps(p) ==
  /\ "gdi" \notin ddCaps(p)
  /\ "colorkey" \in ddCaps(p) => "Blt" \in SurfaceCallbacks(p)
  /\ "3d" \in ddCaps(p) => "D3DCallbacks3" \in DriverInfo(p)

---------------------------------------------------------------------------
Told == {p \in PDEVs : pdev[p].told}

(* While GDI draws, the screen shows the mode its PDEV was made for and the *)
(* miniport knows it, after a mode change that failed half-way too; and    *)
(* while the driver has given the screen up, no cursor stands on it.       *)
ScreenIsGdis ==
  /\ GdiDraws => /\ reg = [enable |-> TRUE, mode |-> pdev[gdi.cur].mode]
                   /\ ext.enabled /\ ext.cur_mode = pdev[gdi.cur].mode
  /\ gdi.at = "off" => ~mouse.on

(* The primary, DirectDraw's heap, the cursor's image and the command       *)
(* window follow each other within video memory, in every mode of the       *)
(* table at every size of memory, and the device takes every cursor the    *)
(* driver accepts.                                                         *)
MemoryApart ==
  \A p \in Told :
    /\ Mode(p).pitch * Mode(p).h <= heap_start(p)
    /\ heap_start(p) < dd_heap_end(p) /\ dd_heap_end(p) <= cursor_offset(p)
    /\ cursor_offset(p) + D3DPT_FB_CURSOR_BYTES <= heap_end(p)
    /\ pdev[p].d3d => pdev[p].cmd + D3DPT_SHM_SIZE <= fb_len
    /\ fb_cursor_define(cursor_offset(p), D3DPT_FB_CURSOR_MAX)

(* DirectDraw keeps the driver, in each mode, and never loses Direct3D       *)
(* between two PDEVs, which makes it fail the mode change                   *)
(* (d3dptdisp.c:2096); every format on its lists can be made, and measured  *)
(* on both sides.                                                          *)
OffersStand ==
  /\ Cardinality(offered) <= 1
  /\ \A p \in Told :
       /\ DxgKeeps(p)
       /\ AsksDriverInfo2(p) => "GetDriverInfo2" \in DriverInfo(p)
       /\ AsksForVideoMemory => CreateD3DBuffer(TRUE) = "heap"
       /\ pdev[p].d3d => \A f \in TextureFormats \cup ZFormats \cup Formats8 :
            CanCreateSurface(p, f) /\ pf_format(f) \in Measured

(* The driver and the host agree about the contexts, and those of a program *)
(* that ended are gone: a context the host keeps has the next run of the   *)
(* game refused (d3dptdisp.c:168).                                         *)
ContextsAgree ==
  /\ host_ctx = InUse
  /\ \A i \in InUse : d3d_ctx[i] \in running
=============================================================================
