# A TLA+ development of 2ksbox

2ksbox runs Windows 98 and XP in a QEMU that lives inside the player's own process, and starts those players from a launcher.
Inside the guest its own display driver and Direct3D DLLs record drawing commands, which an executor on the host runs.
Most of what is hard about it is not in one function: QEMU's thread, the UI thread, the host's audio thread, the guest's drivers
and programs, and the launcher all work on shared state, with deadlines, and each may stop at any moment. The modules here model
the places where they meet. TLC checks them on small instances; TLAPS proves the safety properties for every value of the
constants. Paths below are relative to the repository's root.

## 1. The system

| Component | State it keeps | Operations | What is hard | What makes it correct |
|---|---|---|---|---|
| Player: input (`player/src/main.rs`, `keymap.rs`) | keys it believes the guest holds, pointer grab | window and device events, focus, grab hot key, key script | two threads produce; the guest may be paused; focus goes away mid-press | the guest holds what the player thinks it holds; focus loss lifts the keys |
| Embed: input queue (`embed/libqemu_embed.c`) | `in_q`, `in_bh_pending`, a copied batch | enqueue, flush, drain in a bottom half (BH) | flush and drain race, the queue is bounded | FIFO, no loss but on overflow, no lost wake-up |
| Player: life cycle (`player/src/qemu_vm.rs`, `main.rs`) | `Shared` (stopped, released, vm), `App.closing` | start, release, destroy, join, hard exit | two threads end each other, both with a deadline | nothing is called after destroy; `main` returns after the clean-up; the process ends |
| Audio (`embed/embedaudio.c`, `player/src/audio.rs`) | the ring, its two indices, the clock of the voice | mixer tick, audio callback, enable | no lock; pacing by wall time; stalls of both sides | samples in order, latency bounded, cushion refilled |
| Display hand-off (`player/src/qemu_vm.rs`, `main.rs`, `dmabuf.rs`, `iosurface.rs`) | the VGA surface, the published frame, offers, wakes | refresh, 3D frame, offer, redraw, import | two sources of pictures, timers, coalesced wakes, two critical sections per redraw | nothing published is forgotten, the surface comes back, what is shown is intact |
| Embed: 3D provider (`embed/mglcntx_embed.c`, `embedfx.c`) | contexts and levels, pbuffers, one drawable, the ring of shared buffers | create, delete, make current, present, resize, Glide's open and close | names mean something in one context only; OpenGL and Glide share the drawable; three platforms | frames are whole, no context is lost or destroyed twice, the desktop comes back |
| Launcher core: snapshots and control (`launcher-core/src/snaps.rs`, `control.rs`, `snapshots.rs`) | the window's job, whether to resume, list, error | save, load, delete; live by monitor jobs or offline by `qemu-img` | the player may exit or start between two commands; each command may fail | never `qemu-img` on an open image; a failure stays visible; the guest runs again |
| Launcher core: machines and players (`machines.rs`, `player.rs`, `library.rs`) | the running set | play, reap, rescan, publish the shelf | children end by themselves | the running set is right |
| Launcher core: disc shelf (`shelf.rs`, `disc_library.rs`) | `discs.toml`, the flat shelf file per machine, the boot disc | add, label, remove, flush, set boot, insert, eject | two stores, legacy import, files rewritten in place | no disc is lost; running machines see the current shelf |
| ATAPI disc shelf (`patches/qemu/52-atapi-disc-shelf.patch`, `guest-tools/src/cdshelf.c`, `cdshelf/cdshelf_proto.h`) | tray, `cdrom_changed`, pending load, the program's list | LIST, LOAD, EJECT, TEST UNIT READY | the change happens later, in a BH; a change is reported once, to whoever asks first | what is reported is in the drive; no disc is swapped unseen |
| d3dpt device (`d3dpt/hw`) | registers, mode, palette, vertical blank, cursor; windows and attach counts | MMIO, refresh, doorbell, attach, reset | refreshes between register writes; the guest writes memory at any time; programs are killed | the screen is what memory says; a reset leaves nothing behind |
| d3dpt executor (`d3dpt/exec`) | objects by handle, copies of video memory, shadows | batches of records, uploads, read-backs, draws | two copies of each surface, and writes nobody reports | one memory; the host's objects are the guest's |
| Guest tools: display driver (`guest-tools/src/d3dptvid`) | PDEVs, DirectDraw surfaces, Direct3D contexts, the batch | mode changes, flips, locks, blits, draw streams | mode changes that fail half-way; programs that vanish; streams walked twice | modes agree with the device, regions never overlap, each command is done once |
| Guest tools: Direct3D 8 and 9 (`guest-tools/src/d3dpt`) | COM objects with counts, shadow state, state blocks, wrappers | every method that creates, binds, releases or resets | objects own each other both ways; a device outlives its last release | handles, counts and state agree with the host's |
| Player: QMP client (`player/src/qmp.rs`) | pending replies by id, an event queue of 256 | execute, wait, take events | time-out against a late reply, dropped events | a reply goes to its command or to nobody |
| libdisc (`libdisc/src`), ATAPI disc model (`patches/qemu/51-*`) | an image's tracks and sectors; audio play state | reading, sub-channel, TOC, play audio | arithmetic of MSF, gaps and sector modes | equal to the reference definitions |
| Bundles, wizard, editor, CLI; front ends; shader chain | one document each | forms and files | sequential | - |
| Glide host operations, TCG patches, other guest tools | a host library, QEMU or Windows | - | the other half is not in the repository | - |

How they interact:

- The UI thread *calls* QEMU through the handle of `libqemu_embed` (input, pause, shutdown); QEMU's threads *call back* into the
  player (refresh done, 3D frame, cursor, offer), under QEMU's big lock, and leave their results in `Shared` under a mutex, then
  *wake* the event loop with a user event that stands for all of them.
- QEMU's mixer and the host's audio thread *share memory*, a ring with two indices, and nothing else.
- The launcher *spawns* players and *talks* to each over its monitor socket, one command and one reply at a time. It *writes*
  the shelf file that QEMU's drive reads at each command.
- The guest's program *sends* ATAPI packets to the drive; Windows and the host's monitor change or poll the same drive.
- The display driver and the Direct3D DLLs *record* commands in a window of video memory and *ring* a doorbell; the executor runs
  the batch while the guest waits. The program *writes* video memory at any time and nobody is told.
- The 3D provider *offers* its buffers and *presents* frames to the player (the display hand-off).

`PROJECT.json` lists every part with its sources and status, and the hazards, each at its line.

## 2. Modules

| Module | Models | Composed or refined with | Proofs |
|---|---|---|---|
| `InputQueue` (`MCInputQueue`) | player input, embed input queue, drain, the guest's keyboard | implements `InputChannel`, a FIFO channel | `ChannelProofs` |
| `PlayerLifecycle` | the QEMU thread's body, start, the event loop's end, join, destroy | - | `PlayerProofs` |
| `AudioRing` | both sides of the ring and the pacing of the voice | - | `ChannelProofs` |
| `FrameArbiter` | which of surface and 3D is published, and how it gets to a redraw | - | `PlayerProofs` |
| `FrameRing` | how the pixels get there: slots, offers, imports, copies | - | `ChannelProofs` |
| `MachineControl` | launcher, one player process, its monitor, the snapshot window, both front ends | - | `PlayerProofs` |
| `ShelfDrive` (`MCShelfDrive`) | the drive, the guest's program, and the host's hand on both | - | `PlayerProofs` |
| `SurfaceMirror` (`MCSurfaceMirror`) | surfaces in video memory and their copies on the host, through driver, batch and executor | implements `VideoMemory`, one memory | `SurfaceMirrorProofs` |
| `DisplayAdapter` | the device's modes, scan-out, palette and vertical blank; flips and waits | composed with `DisplayDriver` in `MCDisplayAdapter` | `DisplayAdapterProofs` |
| `DisplayDriver` | miniport and display driver: PDEVs, mode changes, memory layout, offers, contexts, cursor | as above | `DisplayAdapterProofs` |
| `Passthrough` | Direct3D 9: objects, counts, shadow state, blocks; device windows; executor's table | extended by `Direct3D8` | `PassthroughHeapProofs`, `PassthroughProofs` |
| `Direct3D8` (`MCPassthrough`) | the Direct3D 8 layer: wrappers, its tables of shaders and blocks | extends `Passthrough` | - |
| `GLPlatform` | the GL of the three platforms, one operator per `plat_*` call | extended by `Provider3D` | `Provider3DProofs` |
| `Provider3D` (`MCProvider3D`) | levels, pbuffers, Glide, the drawable, the ring, the 3D edge | extends `GLPlatform` | `Provider3DProofs` |
| `DrawStream` (`MCDrawStream`) | the two passes of the driver over a draw stream, and the executor's run of it | implements `DrawDevice` | `DrawStreamProofs` |

`FrameArbiter` and `FrameRing` divide one hand-off: the first has the timing (whether a redraw happens at all), the second the
buffers (whether what is drawn is right), with the UI's handlers at any time. The `map` of `PROJECT.json` gives the lines each
definition stands for.

### InputQueue
Each of the two producing threads is at `idle`, `enqueue`, `flush` or `schedule`. Every critical section of `in_lock` is one
action: `Enqueue` is one `enqueue()` (a full queue drops the event), `Flush` the test and set of
`in_bh_pending`, `Schedule` the `qemu_bh_schedule` after the unlock, `DrainTake` the copy, `DrainDeliver` the delivery of the
whole copy, after the unlock. The handlers of `window_event` and `device_event` say which events a handler enqueues: `FocusLost` lifts all
keys, `GrabHotkey` swallows the hot key. `ScriptStep` presses a chord from QEMU's thread. QEMU's input layer is external: it
hands an event on, or ignores it while the VM is paused. `lost` names the codes whose last event was dropped or ignored, which
is what `HeldKeysAgree` has to leave out.
Left out: the table of key codes and the arithmetic of pointer coordinates.

### PlayerLifecycle
The QEMU thread goes `running`, `announcing`, `waiting`, `destroying`, `done`; the UI thread goes from `startup` through the
event loop to `returned` or `killed`. A handler of the event loop may call in (`CallIn`) and may block (`blocked`), for at most
`UiBlock` ticks. Time is ticks, and passes only while somebody waits; the ratio of the constants is the code's: 5 s for the
release, 15 s for the join, 10 s for a monitor command.

### AudioRing
The producer's tick is `get_free`, the mixer's delivery, and `get_buffer_out`/`put_buffer_out` cut at each load of the consumer's
index; the consumer pops whole frames. `owed` is the clock: wall time less what was taken from it, resynchronised after a stall.
Left out: a player with no output device (it has no ring), statistics, conversion of samples, and the cap of one write at the
scratch buffer's size.

### FrameArbiter
A picture is the number of the drawing that made it. `VgaDraws` and `Frame3D` are the guest, `RefreshDone` is the callback that
decides whether the surface is published, with the fallback timer, the grace after a mode switch and the uniform fill that is
published as black. A callback publishes, then wakes: two steps. Wakes coalesce, a redraw may get no image (`skipped`).
The model starts after the first refresh.

### FrameRing
`zc_present` is cut at the blit and the offer; the UI takes the offers and the frame in two critical sections. An import may
fail. A slot may be allocated again at each resize, and each allocation has a picture of its own. Shader chain, cursor and
frame dumps are left out.

### MachineControl
One machine. The launcher is one thread whose handlers are cut at each monitor command, because between two of them the player
may exit, a job conclude, or somebody else pause the guest. `FrontEnd` selects the egui launcher, which goes round `reap`,
`grid`, `show`, `poll`, `buttons` in each frame, or the Qt one, whose timers and handlers run in any order. A fault is a command
whose reply is lost: it may have been carried out. A machine that stops with a job open, a refused job and a vanished job are
all there. Left out: names, sizes and dates, the choice of the block node, machines whose bundle cannot be read. Closing the
window also stands for opening it for another machine.

### ShelfDrive
One action per ATAPI command, one for the BH, one per poll of `TEST UNIT READY`; the launcher truncates and then writes the
shelf file; images vanish and return; the host changes the disc itself; Windows polls the drive too and may take the report of
a change. `cdrom_changed` counts 2, 1, 0 as QEMU does: not ready, then unit attention, then quiet. Labels, the transports and
the DOS program are left out (its difference is a finding).

### SurfaceMirror and VideoMemory
A surface has a picture in video memory, and on the host a texture and a shadow (what the executor last saw in video memory).
`dirty` and `rendered` say which side is ahead. The driver's calls (create, destroy, lock, flip, blit, clear, draw, set target,
lose, restore) change memory at once and append records; `Doorbell` and the calls that need an answer run the batch. GDI writes
behind the driver's back, and the executor finds those pixels by comparing with the shadow. `VideoMemory` is what the two promise
together: one memory, in which a write nobody was told of stays over a frame's drawings if it came after the frame's first one.
`SurfaceMirror` is shown to implement it, but for two departures of the code (section 5): a full clear over writes that nobody
told the executor of (`EarlyClears`), and a device that goes before its frame was looked at (`LooksFirst`). The run takes
`EarlyClears = FALSE` and `LooksFirst = TRUE`, where neither can happen; the theorem is about every value of both, and holds for
the histories in which neither step is taken (`Departs`).

### DisplayAdapter and DisplayDriver
`DisplayAdapter` is the screen: one action per register write that counts, a refresh in two steps (the dirty log read, then each
row converted), page flips and waits by vertical blank with their 50 ms limit, the palette, and the grace during which the last
frame is held. Programs write memory between any two of these. `DisplayDriver` is the driver's life: the miniport's register
mapping and mode set, PDEVs from `DrvEnablePDEV` to `DrvDisablePDEV`, the layout of video memory, what DirectDraw is told, the
context table, the cursor, stop screens and resets. The order in which GDI calls the driver for a mode change, and the reasons for
which dxg drops a driver, are external: the driver's comments report them. The mapping of the registers never fails, and a call of
the display driver is one step. The two share no variable; `MCDisplayAdapter` runs one or the other.

### Passthrough and Direct3D8
Every kind of object of Direct3D 9 is in `Passthrough` with the counts, owners and bindings of the DLL; `bind_slot`, `res_release`
and its cascades, the shadow state, and state blocks (`capture`, `apply`); the encoder's window, attach, doorbell and reset of the
device; and the executor's table of objects. `Direct3D8` adds what `d3d8.c` keeps over it: a wrapper per object that is revived
when it is found again, and the tables of shaders and blocks that a program knows by number. A slot of the state stands for all of
its kind (`texture`, `stage`, `shader`, `pixel`, ...). State that is no object is in four parts (`States`), since the setters treat
them differently: `state` (render, texture and sampler states, transforms, lights), `constant` (the shader constants and the clip
planes, which `shadow_defaults` leaves alone), `format` (the vertex format, which on the host takes the place of a declaration and
gives way to one) and `view` (viewport and scissor, which a render target sets back). Where the shadow loses sight of the host by
the code's own doing, the history `apart` in the host's record names the parts until they are set again (section 5).
Assumed of programs: one at a time (`FXPTL` is opened exclusively, `d3d9.c:40`), one recording state block at a time, a device
is created when the program holds nothing of another, back buffers are given back before their device goes, and after a failed Reset only Reset and Release
are called. Direct3D's own Reset clears all of its state, of which the DLL follows all but the constants. Present parameters whose
size the executor refuses come back before it touches its device; others may make Direct3D fail, and then the old device is gone
(a creation) or lost (a reset). A number that `d3d8.c` has freed is not used again by the program, nor is a
wrapper after its last release. Left out: modes and capabilities, the constants of a declaration, log records, and the render
states that only Direct3D 8 keeps (`rs8`). Records reach the window at the end of a call.

### GLPlatform and Provider3D
`GLPlatform` has the host's GL as a record: contexts with share groups, framebuffers, pbuffers, and one operator per `plat_*`
function for each of Linux (EGL), macOS (CGL) and Windows (WGL). `Provider3D` is one action per call of `hw/mesa` and of the Glide
wrapper: pixel format, contexts and their levels, pbuffers, swap, resize, window release, Glide's open, swap, control and close, and
the reset of a guest that went away. The ring's buffers carry the context that named them. The order of calls is the guest's:
arbitrary, but that a swap needs a current context and Glide's calls an open Glide. `shared` remembers whether OpenGL and Glide ever had the
drawable together, where the code promises nothing (section 5), and `bare` whether the host had refused the drawable while the
current context was so: that context stays without one (section 5). Destruction is of a set of contexts, the main one last; the
order of the others leaves no trace. Context names are unbounded. An attribute list is compared with the last one as
`CompareAttribArray` does, and another list makes all contexts anew. A host may refuse a context, the drawable, and each part of a
pbuffer, and each platform cleans up after a pbuffer as its own code does; on Linux that loses a context (section 5), which the
history `lost` names.

### DrawStream and DrawDevice
A request is a stream of commands. The driver walks it twice: the first pass measures and does the blits, the second writes the
records, replaying the bindings from the same start; the executor runs them on one device. Vertex and index buffers, formats and
shaders (DirectX 8), draws with their own vertices (DirectX 7), execute buffers that are given back in the middle (DirectX 3),
palettes, colour keys, texture blending and state sets are all there. `DrawDevice` is the promise: each command acts at once. Vertex
format, shaders, vertices and indices are those of the stream's context, as in the driver's `D3DCTX`. Texture, states, keying,
blend and state sets are those of *one* device that all contexts share, since the executor keeps them once in `Ddi`; that
Direct3D gives each device its own is a disagreement (section 5), not something the model promises. A draw names at most
`MaxVertices` (65536 in the code), and indices of four bytes are refused. Left out: only one texture stage is kept, the alpha test of the program itself, the mirror of render states,
refusals for lack of output room, tracing. The vertices of an execute buffer are all of one type (`ProcessedType`); an
instruction that is given back is done by d3dim itself, which asks again from the next one (`Ours`, `Proceed`). Assumed of the runtime (`Written`): the blits of a call come first in it, a legacy draw names the
format of its request, and each context's runtime nests its state sets well (`recorded` has the contexts whose runtime records) and
binds no texture in them (section 5 says what an executed set leaves behind).

## 3. Runs

| Run | Distinct states | What it asks |
|---|---|---|
| `input_queue` | 197 793 | agreement of the key record with the guest; the refinement of `InputChannel`; liveness |
| `player_end` | 1 733 | all the ways a player ends, with both deadlines |
| `audio_ring` | 158 956 | order and latency of the lock-free ring, and the cushion |
| `frame_arbiter` | 24 166 | nothing published is forgotten; the surface comes back; what is published is shown |
| `frame_ring` | 162 636 | nothing older is shown; nothing half drawn is shown |
| `snapshots` | 100 279 | the snapshot window of the egui launcher against a player that comes and goes |
| `shelf_drive` | 268 552 | the program, the drive, the host and Windows on one tray |
| `surface_mirror` | 1 167 659 | guest memory, host copies and batches against one memory |
| `display_adapter` | 399 294 | refreshes against modes, flips and writes; mode changes that fail; programs that vanish |
| `passthrough` | 145 062 | two programs on one device: objects, counts, shadow state and wrappers |
| `provider_3d` | 441 890 | contexts and frames of OpenGL and Glide on three platforms |
| `draw_stream` | 150 898 | nine families of streams, request after request, against immediate execution |

Each property of a run has a mutant in `PROJECT.json`: a plausible bug in the code under which TLC finds it violated.

### What the properties say
- **Input.** `ImplementsChannel`: seen from outside, enqueue, flush and drain are a FIFO channel. `EventuallyHanded`: an accepted
  event is handed on. `HeldKeysAgree`: with no input under way the guest holds what the player has recorded, but for keys whose
  last event was lost. `FocusLossLiftsKeys`: after focus loss the guest's keys go up.
- **The end.** `EndsInOrder`: release, then destroy (or the time-out), then return. `PlayerEnds`: the process ends after a power-off and after
  the window is closed, also when QEMU hangs.
- **Audio.** `InOrder`: each sample once, in order. `LatencyBounded`: at most the cushion and twice the slack.
  `CushionKept`: a tick that got what it asked for refills the cushion.
- **Pictures.** `PicturesArrive`: what is published is shown, and the VGA surface comes back when 3D falls silent. `NeverOlder`,
  `IntactUnlessLapped`: what is shown is the frame taken, or a later one, and whole.
- **Snapshots.** `OfflineOnlyWhenStopped`, `ResumesOnlyWhatRan`, `FailureStays`, `ListIsCurrent`, `JobEnds`.
- **The drive.** `EmptiesFirst`: no disc takes another's place unseen. It excludes, by `settled`, a change by the host during the operation
  and one from before it that nobody had polled yet. `OperationEnds`: the program is never stuck.
- **Surfaces.** `TablesAgree`: at rest driver and executor know the same surfaces and targets, and no batch was given up.
  `ImplementsMemory`: one memory.
- **Display.** `NothingStale`: what a refresh leaves alone is on the screen already. `NoVgaBetweenModes`, `FlipsPaced`,
  `CallsReturn`, `ScreenFollows`. `ScreenIsGdis`: while GDI draws the device is in its mode. `MemoryApart`: primary, heap, cursor
  and command window never overlap. `OffersStand`: what DirectDraw is told never makes dxg drop the driver. `ContextsAgree`:
  driver and host agree about contexts, and none outlives its program.
- **Direct3D.** `HandlesAgree`: the executor's objects are the DLL's. `ShadowAgrees`: what Get methods answer is the host's state,
  through every bind, value, recording, capture, applied block and reset. It excludes, by `apart`, the constants after a Reset until they are
  set again, the declaration beside a format (and after either was taken away), and what a refused Reset left bound on the host.
  `CountsExact`: every count is the number of references there are, wrappers and tables included.
- **OpenGL.** `FrameIsWhole`, `RingStaysHome`, `LevelsShare`, `DesktopComesBack`. `ContextsHeld`: no context is destroyed twice
  and none is lost, whatever the host refuses, but on Linux after a refused pbuffer (`lost`).
- **Streams.** `ImplementsDevice`: a stream is what its commands are one by one, on the one device that all contexts share. `InstructionsOnce`: an instruction of an execute buffer
  that was given back in the middle is done once.

### Bounds
- `input_queue`: one user key, a chord of two script keys, one button and the wheel, a queue of two, three events. Two entries
  are enough for overflow and for order inside a batch; three events fill the queue while a batch is being delivered.
- `player_end`: 4, 12 and 8 ticks keep the code's order of 5 s, 15 s and 10 s; every other instance is covered by the proofs.
- `audio_ring`: frames of 2, ring of 16, cushion of 10 (so that the ring's half, 8, caps it), slack of 2, catch-up of 10, 32
  samples: two rounds of the ring.
- `frame_arbiter`: four pictures, that is surface, 3D, surface, 3D in any order. `frame_ring`: three slots and six frames, two
  rounds, each slot allocated twice.
- `snapshots`: two jobs, two players, one lost reply: a job of an earlier player, and one whose id is used again.
- `shelf_drive`: two discs, three shelf files, two polls for the 40 of the code, three acts of the host.
- `surface_mirror`: a plain target and one that is a texture too, so that a frame is sampled; two pixels, one written and one
  not; one context; two writes; batches of two, so that they fill in the middle of a call.
- `display_adapter`: two buffers of one row, a true-colour and a palettized mode, a grace of one refresh, one frame, two writes:
  a buffer can be flipped away from, written and flipped back to. Two PDEVs (a mode change has the old and the new), the smallest video
  memory and one of 128 MiB, two programs, two contexts, machines with at most one oddity (no memory for commands, no
  executor, a refused surface, a set of flags).
- `passthrough`: two programs, the first of six families with the kinds of objects that meet in one program and three handles, the
  second with two textures on what the first left; one reference at most beside the creating one, batches of one record. Each family
  sets the parts of the state that its objects and blocks interact with (its `sets`).
- `provider_3d`: three levels (`MAX_LVLCNTX` is larger; two pushes out and one return fit), one pbuffer, a ring of one slot, two sizes,
  one refusal of the host (a context, the drawable, or a part of a pbuffer), two attribute lists that differ (symmetric); levels,
  pbuffers and Glide each beside the main context, on each platform.
- `draw_stream`: every stream of one or two commands of each family, request after request without end, so that what a request leaves
  meets every other. Two contexts alternate in the families of shaders, DirectX 7 draws, palettes, colour keys, blending and state sets,
  that is wherever contexts share something or have the same handle; those of shaders and DirectX 7 draws also come and go. The families of
  buffers and formats and of indices have one, as that state is each context's own in the driver. The family of execute buffers has one
  too: it asks where an execution stops and goes on, and the texture and value it shares are those of the families above. `MaxVertices` is 3, so that draws and ranges of four are refused. One texture changes its key, beside one
  whose key stays. All execute buffers of three instructions with a return in the middle, and one of five.

### Fairness
- `input_queue`: a handler that has begun ends, and a scheduled BH is dispatched: threads run. Nothing makes the user act or the
  VM continue.
- `player_end`: both threads run and time passes; `UserEvent` has strong fairness because the event loop reaches a queued wake
  among other events. Nothing makes QEMU's main loop or its clean-up end: that is what the deadlines are for.
- `frame_arbiter`: the refresh timer and both time-outs elapse; the event loop reaches a wake and a redraw (strong fairness, as
  other events compete). Nothing makes the guest draw.
- `snapshots`: a frame follows a frame, since egui repaints at least every 500 ms (`launcher/src/main.rs:70`); a poll is skipped by
  its 400 ms throttle, so polling has strong fairness; a started player comes up or exits, a job concludes. Nothing makes the
  user click.
- `shelf_drive`: only the program's own thread runs. The BH, the host and Windows may never act, and `OperationEnds` holds still.
- `display_adapter`: the player asks for refreshes every 16 ms and the guest's clock runs; a call that waits gets its register
  accesses in between (strong fairness, since a refresh excludes them). Nothing makes the device count blanks.
- The other runs check safety and refinement only.

Deadlock is not checked where the model's bound ends its history (`input_queue`, `audio_ring`, `frame_ring`) or where programs
may simply stop (`passthrough`, `provider_3d`, `draw_stream`); elsewhere it is.

## 4. Proofs

All theorems are about `Spec` (`AudioSpec` and `FrameSpec` for the two rings, `DriverSpec` for the display driver, `DriveSpec` for the disc drive,
`ControlSpec` for the launcher), for all values of the constants that satisfy the named
assumptions. Those state that sizes are natural numbers, that a ring is a whole number of frames, that a value that stands for
"none" is none of the others, that an execute buffer is a list (`BuffersAreLists`), and three things that the code decides:

- `CodesApart`: key codes and button codes are disjoint (they are different fields of an event).
- `CatchUpAssumption`: the backlog that is kept covers the cushion. At 48 kHz in stereo the code keeps two seconds, 384000 bytes, and the cushion is at most
  half of a ring of 65536.
- `DriverAssumption`: video memory is a whole number of MiB, and the device's flags do not hold the five without which dxg drops the driver.

Four theorems meet a disagreement of section 5. `OneMemory` is about the histories without it, and its statement says so: no step
that `Departs`, whatever the two constants are. The others are about all histories: the properties of `ShadowsAlwaysAgree` and
`NoneIsLost` name what they leave out (`apart`, `lost`), and `OnlyBlockingIsLate` says which calls may come late.

The bounds of the models are constants too: the theorems hold for every one of them.

| Module | Proved | Along which argument |
|---|---|---|
| `ChannelProofs` | Input: `TypeOK`, `QueueFIFO`, `OneDrainOwed`, `NoStrandedEvent`, `ImplementsChannel`, `HeldKeysAgree`. Sound: `AudioTypeOK`, `InOrder`, `LatencyBounded`, `CushionKept`. Frames: `FrameTypeOK`, `IntactUnlessLapped`, `NeverOlder` | Input: `IInv` adds that a handler is enqueueing exactly while it has events left, and that the batch is empty outside the drain. For the refinement, an accepted event is `Accept`, a delivered batch is `Hand`, everything else stutters. For `HeldKeysAgree` the last event of a key is followed through handler, queue, batch and guest: wherever it is, it says what the record says. Sound: what a tick chose from an old load of the read index still fits, since the fill can only have fallen (`Locals`, `Bound`); the stretch being filled lies outside of what may be read (`InFlight`). For the cushion: at each place of a tick the ring, what was played since it began and what the mix buffer still has to give are the target, but for the slack and a part of a frame (`Kept`, `Tick`). Frames: after n frames the slot on screen is n + 1 behind `zc_next` (`Behind`), and only the slot at `zc_next` is ever being drawn (`OnlyNextDrawn`). `NeverOlder` needs what every buffer known to the UI shows, imported or still among the offers: nothing older than what was taken (`Dated`, `Selected`, `OnScreen`) |
| `PlayerProofs` | life cycle: `TypeOK`, `EndsInOrder`, `OnlyBlockingIsLate`. Arbiter: `TypeOK`, `NoFrameForgotten`. Disc drive: `DriveTypeOK`, `LastCommandWins`, `SuccessIsThere`, `EmptiesFirst`. Launcher: `ControlTypeOK`, `ResumesOnlyWhatRan`, `FailureStays`, `ListIsCurrent`; `OfflineOnlyWhenStopped` for egui | the UI is past its loop exactly when it has released; the handle is destroyed only then or after the time-out. A call on a destroyed handle needs the time-out (`hasty`), and the wait for the release advances only while a handler blocks: a lost or late wake cannot cause one, whatever the deadlines (`OnlyBlockingIsLate`). The arbiter's invariant is inductive by itself: each step that takes one messenger away leaves the next. The drive: a scheduled BH does what was asked last (`Pending`); the wait for the empty tray is not deceived by an older change (`ToldAll`), so the tray is empty when LOAD is sent (`OutFirst`, `Clean`), and while the program waits for the disc it is that disc or none (`Arriving`). The launcher: the running set is exact, and the window knows it before its buttons can be clicked (`ChildKnown`, `LiveKnown`); whether to resume is always that of the job at hand (`Waiting`, `Tidies`); while the handler tidies up a job's failure is in its locals (`FailureHeld`, `FailureShown`); a window without a job and without an error, and not tidying up, has read its list (`ListRead`) |
| `DisplayAdapterProofs` | screen: `TypeOK`, `NothingStale`, `NoVgaBetweenModes`, `FlipsPaced`. Driver: `DriverTypeOK`, `ScreenIsGdis`, `MemoryApart`, `OffersStand`, `ContextsAgree` | screen (`IInv`): the rows left alone show what the *console's* own mode and place in memory say, since the registers may name others and come back before the next refresh (`ShownIsTrue`); the refreshes that were dark and the grace that is left make up the whole grace (`GraceRuns`); a flip no blank has followed is noted at this count, or is still to be noted (`FlipInAir`). Driver (`DriverIInv`): which PDEVs there are and whose mode the device has, at each place of a mode change (`PdevsOfPlace`, `ScreenOfPlace`, `PdevsMade`); Direct3D is offered by all modes of a machine or by none, so its calls find the PDEV that is shown (`CallsGoHome`). `MemoryApart` is arithmetic: the heap of each of the 63 modes begins at one of a few whole MiB (`HeapStarts`), and memory ends at one (`CursorFits`) |
| `SurfaceMirrorProofs` | `TypeOK`, `TablesAgree`, `ImplementsMemory` while no step `Departs` (`OneMemory`) | a sequence of tables leads from the host's to the guest's, a record of the batch at a time, and the executor accepts each (`TablesMeet`). `MemInv` adds where a record can stand in a batch (`Order`, `Aims`); that no picture is from the future, so that a write differs from everything before it (`Dated`); that a frame is under way only on a target that was looked at, and that a target's shadow is what host and guest last agreed on (`Copies`); where no frame is under way or about to begin (`QuietWhen`); that a waiting clear is of a target the guest did not touch (`ClearIsTold`); and that an unmarked texture's copy is the guest's (`TexturesTrue`, `StageStands`). Every step is then a step of `VideoMemory` or a stutter |
| `DrawStreamProofs` | `InstructionsOnce` | three folds are compared: the driver's walk of a request, the executor's run of what the walk let through, and the property's reading of the buffer. One instruction is followed through all three (`WalksOn`, `RunDoes`, `InstructionDoes`), and `WalkMeets` is the induction on the number of instructions, for a request that begins anywhere in the buffer: after n instructions the executor has drawn what the buffer's reading has, and a walk that gives an instruction back stands just before it. `ExecInv` says that of the state: the place reached lies in the buffer (`Placed`), what was drawn before it is `Once`, a buffer that is not over goes on from there (`Going`), and what an answer reports is what the instructions between draw (`UnderWay`) |
| `Provider3DProofs` | `TypeOK`, `ContextsHeld`, `LevelsShare`, `DesktopComesBack`, `RingStaysHome`, `FrameIsWhole` | in two layers, each stated of the state in the middle of a call too, so that one lemma per `plat_*` function serves every call. The books (`BookInv`): each context that is not in `lost` is live and in one place, `lost` grows on Linux only, the levels share, a free slot of `hPbuffer` has none. The screen, over the books: the current context is known, and Glide's is alone (`CurrentKnown`, `GlideAlone`); the ring's names are the main context's or Glide's (`RingNamed`); the drawable, the buffer and what `win_w` says agree, and a current context draws there (`Sized`, `Drawing`); on macOS each framebuffer is of one context and, with a main context, has the renderbuffers and their size (`Framed`). That every context finds a framebuffer there is a count: as many as levels, one each (`RoomForAll`) |
| `PassthroughHeapProofs`, `PassthroughProofs` | `HandlesAgree`, `ShadowAgrees`, and that all counts are exact (`RefsExact`) | a call changes heap and records in many steps, so everything is said of the worlds in between. *Records:* a record is thought of as run when it is said: `Tells` is what the host will be like when the window and the call's records are run, and `Sound` that no batch of it is refused. That needs what a fold does with a concatenation, by induction on its length (`EveryNumber`, from the well-foundedness of <). *Counts:* an object counts the links to it and the references from outside the heap; a link that leads elsewhere moves one (`Rebalance`), and while a call is under way the links it has already taken out are named (`Balance(H, e, X)`). *Releases:* each `Release` uses up one reference and leaves a heap in shape and the host with just the handles there are, or no device, whatever it takes with it (`DropDrops`); so can be cited for the next in a cascade. *Calls:* who holds what between the steps of a creation that may fail (`Makes`, `Gives`), of a bind (`Adds`, `Sets`), of the five slots a state block copies or applies. `Inv` puts it together: `WorldOK` and that nothing is under way before a program runs |

Only model-checked:

- Every liveness property (`EventuallyHanded`, `FocusLossLiftsKeys`, `PlayerEnds`, `PicturesArrive`, `JobEnds`, `OperationEnds`,
  `CallsReturn`, `ScreenFollows`), because liveness under fairness and `ENABLED` are out of the prover's reach.
- `ImplementsDevice`: it compares every kind of command on both sides, some twenty of them, and state that the executor learns late (a
  texture's copy, a shader already set). The folds and the walk of `DrawStreamProofs` would carry it, command by command; it was not
  attempted. What it would need first is an invariant for each way in which a texture's copy on the
  host can differ from what the next draw samples.
- What `CountsExact` says of Direct3D 8's wrappers and tables, and `HandlesAgree` and `ShadowAgrees` under Direct3D 8 programs: the run
  checks `Spec8`, both interfaces; the theorems are about `Spec`, the Direct3D 9 one.

## 5. Disagreements met on the way

`PROJECT.json` quotes each in full, with the line it contradicts. They were met while translating the code; where the model has the
case, the property says what it excludes.

- *Player.* The record of held keys after a dropped event; a call on a destroyed handle, after a handler that blocks for longer than the 5 s
  the QEMU thread waits; the audio latency that reaches twice the slack above the cushion; a VGA surface older than the
  last 3D frame that covers it; a frame that counts as taken and is not shown, because its slot's offer came between the two
  critical sections.
- *Launcher.* Under Qt `qemu-img` runs on the image of a machine that was started under the window; a window that is opened anew
  forgets its job, and the guest stays stopped.
- *Discs.* The shelf's "In the drive" marker, which is what was asked for; the DOS program that goes on after an eject that was not
  confirmed; the Insert button with nothing selected, which ejects; the wait for an empty tray that is satisfied by an older change.
- *Surfaces.* A full clear skips the upload and leaves the shadow: what GDI wrote before it comes back over the cleared frame
  (`EarlyClears = TRUE` shows it). A stream that changes the target leaves the driver's own note of it (`D3DCTX.rt`) behind.
- *Display.* The cursor survives a stop screen and a reset; a failed mode change leaks its register mapping; contexts of a program that ended while
  a PDEV without Direct3D was shown would stay (no machine offers it so); a program that was killed is never counted off at the device.
- *Direct3D.* `Reset` leaves the shader constants and clip planes in the DLL's shadow, where the host's are cleared; `SetFVF` leaves the
  declaration that it replaces on the host, and `SetFVF(0)` or no declaration leaves the host with the one before; a `Reset` whose size is refused has already
  unbound everything in the shadow; `UpdateTexture` into a level without memory loses the rest of its batch; `Reset` of Direct3D 8 leaves the current
  shaders' numbers.
- *OpenGL.* OpenGL's end releases the drawable under Glide and Glide's under OpenGL; the ring's names left from Glide's context; on macOS the
  renderbuffers left from it; `SetPixelFormat` destroys the main context under level 1; on Windows a pbuffer's context is bound to the new
  drawable; a context made current while the host refused the drawable stays without one, and its frames are handed over all the same; on Linux a
  pbuffer whose surface the host refuses leaves its context alive, and the next creation in its slot writes over the only handle of it.
- *Streams.* Contexts share the textures, states, keying, blend and state sets that Direct3D gives each device; `dwErrorOffset` is the place in the rewritten record; the alpha test under a colour key; textures and shaders after a state block is
  executed; a texture bound by its handle whose key the host was not told of.

## 6. Plan

1. *Done*: the modules of section 2 and the proofs of section 4.
2. Proofs still worth having: `CountsExact` of `Direct3D8`, from `AlwaysInv` of `PassthroughProofs` and what a wrapper holds.
3. `DiscShelf`: `shelf.rs` and `disc_library.rs` over `discs.toml`, the flat file of each running machine and the boot disc. To
   check: no disc is lost by a failed or half-done write or by a file that cannot be read; a running machine's file follows the
   library; the legacy import does not bring back a removed disc.
4. `QmpClient`: `qmp.rs`, its pending table, the 10 s time-out, the event queue of 256. Abstract specification: each command gets
   its own reply, or none.
5. `Atapi`: medium change and audio play state (patches 50 and 51), composed with `ShelfDrive`.
6. `Libdisc`: MSF arithmetic, track and sector addressing, sub-channel Q and ECC as operators, checked against reference
   definitions over bounded inputs.

## 7. Not modelled

The TCG patches generate code for QEMU files that the repository does not hold. Set-up, DirectInput, the DirectDraw forwarder and
the test programs of the guest tools are sequential calls of Windows. The Glide shims are calls into a host library; what a draw
computes is Direct3D's on the host. The shader chain is GPU set-up,
the front ends keep no state of their own beyond a window, and bundles, wizard and editor are sequential edits of one document.
The QMP client, libdisc and the ATAPI disc model are in the plan. `hvf-el1` is an experiment; scripts build, package and test.
