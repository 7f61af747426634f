# A TLA+ model of redream

redream is a Dreamcast emulator. Part of what decides whether it works are
protocols: two threads that hand frames to each other, a scheduler whose timers
restart themselves, interrupt requests cached in three places, a drive that
follows a bus protocol, machine code that is patched while it runs, page faults
that stand for cache invalidations, and an audio buffer that paces everything.
The other part is translation, where a wrong corner case is as hard to find as a
race: two instruction sets, an optimising compiler, a register allocator, streams
of drawing parameters, texture layouts, flash blocks, disc images. This directory
models both in TLA+, checks them with TLC on small instances and proves most of
what concerns the protocols with TLAPS for every instance. Paths below are relative to
`src/src/`.

## 1. The system

| Part | State it keeps | Operations | Talks to | What is hard | Correct means |
|---|---|---|---|---|---|
| Emulator client, `emulator.c` | frame state, pending context, texture cache, last picture | request, run, convert, draw, register textures, resize, load, destroy | both threads; TA and PVR callbacks; host | two threads, two mutexes, unlocked hand-overs | no wakeup or invalidation is lost, no two threads use a texture or the framebuffer, every frame is drawn |
| Write watches, `core/memory.c` | page protection, interval tree, pool of watches | add, remove, handle a fault | texture cache, exception handler | single-shot watches that share pages, pool that can run out | every fault has a handler, every write to a cached texture is noticed |
| Scheduler, `guest/scheduler.c` | time, live and free timers | start, cancel, remaining time, tick | every device | callbacks that start and cancel timers during expiry | no timer is lost, late or used by two owners |
| Timer unit, `guest/sh4/sh4_tmu.c` | counters, control registers, timer handles | register writes, expiry | scheduler, interrupt controller | handles of recycled timers, rate changes | a started channel counts and its underflow is visible |
| Holly, `guest/holly/holly.c` | interrupt status and masks, DMA registers | raise, acknowledge, mask, DMA | interrupt controller, GD-ROM, maple, G2 | level-triggered lines built from events | the lines follow the sources |
| Interrupt controller, `guest/sh4/sh4_intc.c`, `sh4.c` | priorities, requests, pending mask, SR | request, reprioritise, take, sleep | translated code reads the pending mask | a cache with a dozen writers | the right interrupt is taken, sleep ends |
| GD-ROM, `guest/gdrom/gdrom.c` | ATA and SPI state, buffers, read position | register access, packets, PIO, DMA, reset | holly DMA, disc image | any access in any phase, partial transfers | no assertion fails, data arrives complete and in order |
| Recompiler, `jit/jit.c`, `jit/backend/x64/x64_dispatch.cc` | blocks, links, dispatch table, code buffer | compile, link, invalidate, free, fault | guest memory, cache control, debugger | code that is patched, reused and invalidated while it runs | what runs is the current translation of the guest's pc |
| Audio, `core/ringbuf.cc`, `host/sdl_host.c` | ring buffer, device, main loop | push, callback, pace, restart | emulation thread, SDL's thread, main loop | three threads, lock-free offsets | no frame is torn, the loop never stalls |
| Tile accelerator and renderer front end, `guest/pvr/ta.c`, `tr.c`, `tex.c` | contexts, parameter stream, YUV state, surfaces | list init, write, start render, convert, decode | PVR, client, scheduler | three loops over one stream on two threads; a dozen texture layouts | what is drawn is what was sent, with textures that were registered |
| AICA and ARM7, `guest/aica/`, `guest/arm7/` | channels, timers, interrupts, banked registers | register access, samples, FIQ | scheduler, holly, audio | interrupt codes and re-entry, banks | every enabled source reaches its cpu, a channel plays what it is given |
| BIOS and flash, `guest/bios/`, `guest/rom/` | system call queue, settings, flash blocks, `flash.bin` | syscalls, flash commands, load, save | GD-ROM, sh4, file system | requests that span several calls, bitmap boundaries, crashes | requests finish once, blocks are found again |
| SCIF, DMAC, MMU, `guest/sh4/` | FIFOs, channels, TLB | register access | serial port, holly | FIFOs that move when a status register is read | no character is lost |
| Maple, `guest/maple/` | devices, card files | frames, host input | holly DMA, main thread | addresses in the frames, crashes between writes | each frame has its answer, each block its place |
| Disc images, `guest/gdrom/` | tracks and sessions | open, read, find a file | drive, BIOS | three formats with gaps, padding and offsets | the sector read is the one that was asked for |
| Translation, `jit/frontend`, `jit/ir`, `jit/passes`, `jit/backend` | instruction lists, registers | translate, optimise, allocate, emit | block cache | delay slots, banks, aliasing, spilling | every engine does what the instruction means |
| Containers, `core/` | lists, trees, sort, hash | insert, remove, iterate | all | rebalancing, iteration during removal | the tree holds what was inserted |
| Host, ui, tracer, render back end | window, options, menus | events, drawing | client | restarts while the emulator runs | see Emu, Audio and Maple |

`PROJECT.json` lists every component with its status, and the hazards: the
places where the code is hard to test, with the properties that cover them.

## 2. The modules

The first group models what runs concurrently or is cached, the second the
devices around it, the third translation.

| Module | Models | State | Actions |
|---|---|---|---|
| `FrameSync` | what the frame protocol promises | client, machine | `Request`, `VblankIn`, `Draw`, `Present`, `Finish`, `Close` |
| `Emu` | `emulator.c`, with the parts of `ta.c`, `pvr.c`, `tr.c` and `sdl_host.c` that call it | frame state, threads and mutexes, conversion in progress, contexts, texture cache | one per section between two synchronisation points of a thread |
| `EmuProofs` | theorems about `Emu` | | |
| `Sched` | `scheduler.c` as operators on a record of two lists | | |
| `Clock` | `sched_tick` with the TMU, the scanline timer and renders | timers, phase of the tick, registers and handles | register writes, slices, one per callback, reset |
| `IrqSpec` | an interrupt controller without sort ids and caches | requests asked for, priorities, SR | `SetRequests`, `SetPriority`, `WriteSR`, `Sleep`, `Take`, `Reset` |
| `Intc` | `holly.c` interrupts, `sh4_intc.c`, SR, SLEEP and exceptions of `sh4.c` | status, masks, sort ids, requests, pending mask, SR | register writes, raise, take, sleep, reset |
| `Gdrom` | `gdrom.c` and `holly_gdrom_dma` | `struct gdrom`, DMA loop, bytes wanted and received | one per register access and packet kind |
| `Jit` | `jit.c`, the dispatch thunks and block prologues, `sh4_dbg.c` breakpoints, the CCR flush | guest code, blocks, edges, dispatch table, host code | one per thunk and per way a block ends, faults, invalidation, reset |
| `MemWatch` | `core/memory.c` watches and the texture cache that uses them | page protection, live and free watches, entries | render, write, dirty all, restart of the video |
| `MemWatchProofs` | theorems about `MemWatch` | | |
| `Audio` | `ringbuf.cc`, `audio_*` of `sdl_host.c`, the silence of `emu_render_frame` | offsets, cells, locals and position of three threads | one per load, copied cell and advance |
| `IntervalTree` | `rb_tree.c`, `interval_tree.c`, the loop of `watcher_handle_exception` | the fields of all nodes | insert, remove, an access that removes what it visits |
| `Ta` | `ta.c` parameter stream, `tr.c`, `emu_register_texture_sources`, `sort.c` | contexts, chunks, what the guest is sending, the frame drawn | chunk writes, list init and continue, start and end of a render, conversion |
| `Tex` | the YUV converter of `ta.c`, texture descriptions, `tex.c` | macroblock counter and bytes written; the texture decoded | macroblock write, reset; decode |
| `Aica` | `aica.c` interrupts and timers; channels | `SCIPD`, `MCIPD`, `L`, FIQ line; phase, decoder and key state of each channel | register writes, expiry, sample batch, FIQ; key events, pitch, step |
| `Flash` | `rom/flash.c`, `bios/flash.c`, the flash part of `bios.c` and `syscalls.c` | chip, command state, `flash.bin`, the guest's job | chip cycles, system calls, load, quit, crash, restart |
| `Bios` | GD-ROM calls of `syscalls.c`, `bios_boot`, `scramble.c` | `struct bios`, parameter block, guest memory, replies | one per call, one per command carried out, boot |
| `Scif` | `sh4_scif.c`, `serial.c`, the queues of `tools/reload` | FIFOs, registers, queues | register reads and writes, peer reads and writes, reset |
| `HollyDma` | G2 and channel 2 of `holly.c`, `sh4_dmac.c` | registers, latched transfer, timers, memory | register writes, timer, acknowledge |
| `Maple` | `maple.c`, `controller.c`, `vmu.c`, `holly_maple_dma` | controllers, card files, list of frames, responses | one per kind of frame, host input, restart |
| `Disc` | `disc.c`, `gdi.c`, `cdi.c`, `chd.c` | tracks, sessions, what was read | open, close, read, find a file |
| `IntcProofs`, `ClockProofs`, `GdromProofs`, `JitProofs`, `AudioProofs`, `DeviceProofs` | theorems about `Intc`, `Clock` with `Sched`, `Gdrom` and `Bios`, `Jit`, `Audio` and `Aica`, and the devices `HollyDma`, `Maple`, `Scif`, `Flash` | | |
| `Words` | machine words, shifts, carries, overflows | | |
| `Sh4Isa` | `sh4_instr.h` and the two engines compiled from it | the context of the interpreter, that of the translated block, the architecture's banks | one per engine and step; walks over bank switches |
| `Arm7` | `armv3_fallback.c`, `arm7.c` | context, banks, pending interrupt | step, block, interrupt, return |
| `Ir` | `ir.c` builders, the passes | | operators |
| `RegAlloc` | `register_allocation_pass.c`, `x64_emitters.cc` | source block, code of each stage, allocation, host | one per kind of instruction built, one per pass, host step |
| `MCMachine`, `MCDevices`, `MCIsa` | bundles: a behaviour is one of one unit, the others stand still | `unit` and the variables of all | |
| `MCEmu`, `MCJit`, `MCMemWatch`, `MCAudio` | instances for TLC | | |

`Clock` composes `Sched` with its users, `RegAlloc` continues `Ir`, `Sh4Isa`, `Arm7`
and `Ir` share `Words`; `Emu` is checked against `FrameSync` and `Intc` against
`IrqSpec` by refinement. Every definition that stands for code is mapped to its
lines in `PROJECT.json`; what stands for the guest program, the sound driver, the
image tool or the operating system is marked external there.

How the abstraction is chosen:

- **Emu.** A section that takes a mutex, works and releases it is one action;
  a mutex that is held across a wait has an owner. `cond_wait` puts the thread
  in `asleep` and spurious wakeups are allowed. Guest activity (writing texture
  memory, building a list, STARTRENDER) may happen whenever the emulation thread
  runs the machine. A host texture is `none`, `current` or `stale` relative to
  guest memory. The constants `OverlapRenders`, `NaughtyWrites`,
  `StandardVideo`, `VideoRestarts` and `LoadWhileRunning` say what the guest and
  the user do, so that a property can be checked under exactly the assumption
  it needs.
- **Clock.** Times are small integers and an entry of `timers[]` is a model value
  that is recycled as in the code; a handle is the entry it points to.
  Device quanta are the slices between timers. TCNT keeps its width
  (`CountRange`).
- **Intc.** Bit masks are sets of sort ids. Several bits of a status register
  stand for themselves; the maple DMA that vblank out starts is part of raising it.
- **Gdrom.** A byte is a pair of sector and offset, so that lost, repeated and
  reordered bytes show. What a packet asks for is chosen when it is complete.
  Replies are reduced to their length, the data of SET_MODE to the number of bytes,
  which is any byte of the packet.
- **Jit.** Guest code is one of a few contents with a size and a static branch;
  host code is a number in order of emission, reused after a reset of the
  buffer. The run time of a block is one cycle.
- **MemWatch.** Memory is pages; a texture and a palette are ranges of pages, each in
  an entry of its own with a watch of its own: an entry of the module is half of a
  `struct emu_texture`. The code has 8192 of these for 8192 watches, so that there
  may be twice as many entries as watches; the instance has more entries than
  watches, too.
- **Audio.** A frame is a cell, tagged with the offset it was pushed for. Offsets
  count modulo `Wrap`, a multiple of the size, as int64 does modulo 2^64. The
  host clock in `audio_buffer_low` lowers the count by a bounded choice. The
  emulation thread has `Work` batches to push per video frame and up to `Trailing`
  left when the main thread goes on.
- **IntervalTree.** A tree is its fields, node by node; all rotations, swaps and
  the augmented maximum are kept. The tree is compared with the set of intervals
  inserted.
- **Ta.** A chunk of 32 bytes is a record, the second half of a long parameter
  holds whatever data lies there, so that a loop out of step reads it as a control
  word. Positions and depths are small numbers, a material stands for everything
  else in the control words. The reference draws the guest's parameters, not the
  stream.
- **Tex.** A texel says which bytes of memory it was made of. The reference is
  the layout of the hardware, computed bit by bit.
- **Aica.** Time is the order of events; a sound is a few nibbles. The reference
  decodes from the start.
- **Flash.** A block is a value with its identity and whether its crc is right; a
  bitmap is a set. The guest's library updates a block in three programs, and may
  be stopped between any two.
- **Bios.** Memory is counted in sectors, ids wrap around at `BIdMod`. Tracks are data
  tracks, as a sector of an audio track is longer; frames of the disc hold data
  (`BDisc`), lie behind a track whose file has bytes for them (`BGaps`) or cannot be
  read, which fails a CHECK. Without a disc, as when a program was loaded from a
  file, a read completes with nothing. The loop of the descrambling is a recursive
  function of the number of passes.
- **HollyDma.** The registers of a transfer are written one by one. Channel 2 has two
  of its length: SB_C2DLEN, which says what Holly is asked for, and DMATCR2, which the
  transfer goes by. The calls that raise an interrupt are counted, next to the status
  bits they set and the guest clears.
- **Disc.** What a read asks for has a format, a part and room, besides the frames; the
  CHECKs of `disc_read_sectors` are `Accepts`.
- **Scif, HollyDma, Maple, Disc.** Characters are numbered in the order they are
  sent; a memory cell holds the address it was copied from; a card's word names
  the frame that wrote it; a byte of an image is a sector and a place in it.
- **Sh4Isa, Arm7.** Words have `WordBits` bits, bytes a quarter of that, so that all
  pairs of boundary values can be tried. Floating point values are words that the
  operations combine symbolically. Whole divisions by `DIV1`, saves and restores
  on a stack, and walks over bank switches are compared with what they stand for;
  blocks run in both engines.
- **Ir, RegAlloc.** A block is built instruction by instruction with the checks of
  the builders, then goes through every pass; after each one its meaning (context
  seen by calls, stores in order, branch taken) is that of the source. Host
  registers hold more bits than a narrow value, so that rubbish left above it
  shows.

## 3. Runs

`Emu`, `Jit` and `MemWatch` have runs of their own. The other units are small and
independent, and are checked in three bundles: the machine (`Clock`, `Intc`,
`Gdrom`, `Audio`, `Aica`; safety and liveness apart, as fairness costs), the
devices, and the instruction sets. In a bundle the initial state chooses a unit
and only that unit moves, so that its state space is the sum of the units', not
the product. A run marked *violation* states what a comment or an assertion of the
code says and shows by a counterexample that the code does not keep it; the
finding in `PROJECT.json` quotes the line.

| Run | Shows | Instance |
|---|---|---|
| `emu_frames` | no missing texture, no lost invalidation, no race on framebuffer and texture cache; `Emu` implements `FrameSync`, so that every requested frame is drawn and shutdown completes | 1 context, 1 texture; the guest waits for renders, and writes textures at will |
| `emu_hostile` | the hand-shake stands whatever guest and user do, and no texture is uploaded half written if the guest leaves those of a running render alone | 2 contexts, overlapping renders, any video timing, resizes, loads |
| `emu_overlap` *violation* | `emu_start_render` touches the cache while the main thread converts | 2 contexts, overlapping renders |
| `machine` | timers are neither lost, shared nor late; lines and pending mask are never stale and `Intc` implements `IrqSpec`; the drive makes no CHECK fail and delivers all data in order; no audio frame is torn; the sound processor loses no interrupt and plays what it is given | 3 timers, 1 channel, 2 rates; 2 lines and 1 peripheral; buffer of 2 sectors, reads of 0, 1 and 3, replies and mode data of 0, 3 and 4 bytes, DMA of 2 to 16 bytes; a ring of 3 cells; 3 sound sources, 2 channels, 6 nibbles |
| `machine_live` | `sched_tick` returns unless a channel expires with TCOR = 0, and then never; SLEEP ends; commands of the drive end but for a SET_MODE of an odd size or 0; the main loop always renders again | as above, smaller, with TCOR 0 and 1; debugger and restarts of audio |
| `jit` | the code that runs belongs to the pc and is not staler than the last flush, entries and links are live, `jit_run` returns or meets a breakpoint | 2 addresses, 3 contents, room for 3 blocks |
| `jit_trap` *violation* | a breakpoint never leaves dispatch | room for 2 blocks |
| `watch` | faults are handled, watch pointers are live, changes are noticed, only a restart of the video leaves watches behind, and without one the pool is exhausted only by more watched ranges than watches | 4 pages, 3 ranges that share some and 1 that does not, 4 entries, 3 watches |
| `audio_range` *violation* | the main loop reads the two offsets apart | a ring of 3 cells |
| `isa` | SH4 and ARM instructions do what they stand for; interpreter and translation agree; every pass preserves a block, and the emitted code does what it means | words of 8 bits, 10 boundary values; blocks of up to 4 free instructions behind a prefix, 7 host registers |
| `arm_banks` *violation* | a mode is entered with the user's registers instead of its own bank | walks of 5 steps |
| `devices` | flash keeps what was written; BIOS requests finish once; an access finds all watches; what is drawn is what was sent; texels come from where the hardware has them; no character is lost; DMA moves what was asked for and reports it once; every card block is in its place; every sector is the one asked for | bitmaps of 2 blocks, 8 physical blocks, 2 jobs of the guest between any number of restarts; 5 intervals; 9 chunks; textures up to 32 texels a side; FIFOs of 2; transfers of 2 and 3 chunks; 2 cards of 3 blocks; 11 disc images |

Why the bounds are enough: each instance is the smallest in which the cases the
properties are about can meet. Two contexts are needed for overlapping renders;
three entries make every timer recycle while another owner holds a handle; reads
of three sectors with room for two have a full and a short refill, and the DMA
lengths include one that is smaller than a sector, equal to one and larger than
the whole transfer; three host blocks for two addresses allow a block to be
compiled again before the buffer overflows; three watches for four ranges let
a restart leave some behind, and the pool be exhausted without one; a ring of three cells with batches of two wraps in
the middle of a copy. Eight blocks with two to a bitmap cross every bitmap
boundary; five nodes reach every case of red-black insertion and removal; nine
chunks hold a long parameter, a strip and another list; loops, pitches and ends
of the sound lie at different nibbles; with bytes of two bits a word of eight is
still made of four, and every carry, sign and shift meets its boundary. Seven
host registers, of which some are lost in a call, make five values spill. Symmetry
is used in runs without liveness only, over contexts, textures and cache entries,
which no action tells apart. Deadlock checking is off in `watch`, where the
program has ended once the watches are used up, and in `isa` and `devices`, where
programs end and bounded guests stop.

### What the runs assume

The code keeps some properties only under assumptions on the guest, the user or
the game, and each is a constant of the module. The table says what TLC finds
when the constant is changed in the cfg of the run and only the property is
checked. These are properties of the code, not of the abstraction.

| Run and change | Refuted | What happens |
|---|---|---|
| `emu_frames`, `VideoRestarts = TRUE` | `TexturesFound` | a resize between submission and conversion frees the textures that `tr.c:120` looks up |
| `emu_frames`, `LoadWhileRunning = TRUE` | `LoadWhenQuiet` | a load from the ui frees translated code (`jit.c:207`) under the tail of a frame |
| `machine`, `SleepBlocked = TRUE` | `PendingFresh` | waking from SLEEP with BL set leaves the pending mask as it was (`sh4.c:43`), and the interrupt is taken twice |
| `machine`, `Aborts = TRUE` | `DriveSound` | NOP during a transfer leaves DRQ set (`gdrom.c:558`); the access it invites fails CHECK(cb) |
| `machine`, `TrustsIO = TRUE` | `DriveSound` | SET_MODE waits for data with IO set (`gdrom.c:175`), and a guest that reads, as IO says, fails CHECK(cb) |
| `machine`, `EmptyDmas = TRUE` | `DriveSound` | a CD_READ of 0 sectors by dma (`gdrom.c:452`) leaves an empty buffer, and starting the dma fails CHECK(gd->dma_size) |
| `machine`, `RestartsRace = TRUE` | `FramesIntact` | the ring is freed while the emulation thread pushes the tail of a frame (`sdl_host.c:214`) |
| `machine`, `Debugger = TRUE` | `FramesIntact` | gdb continues the guest while silence is pushed (`emulator.c:525`), and the ring has two producers |
| `jit`, `JumpsAfterFlush = TRUE` | `FreshCode` | the edges of an invalidated running block are dropped with its branch still patched (`jit.c:146`) |
| `jit`, `Size <- OwnSize` | `RightCode` | a block the guest has written over has another extent when it is compiled again (`jit.c:341`), and a CHECK fails |
| `jit`, `Addrs = {1, 3}`, `SlotOf <- SharedSlot` | `RightCode` | addresses that agree in `addr_mask` share a dispatch entry (`x64_dispatch.cc:202`) |
| `devices`, `TaFirstTails = {0, 1}` | `DisplayListExact` | before the first list, the size of a long parameter is that of a short one, and its second half is taken for a control word (`ta.c:403`, `ta.h:34`) |
| `devices`, `TaSloppy = TRUE` | `DisplayListExact` | an object that begins with a degenerate sprite draws with the parameters of the one before (`tr.c:536`) |
| `devices`, `ScLazy = TRUE` | `SerialExact` | a reset of the cpu clears SCFDR2 and not the FIFOs (`sh4.c:253`); a driver that does not reset them finds characters nobody counts |
| `devices`, `G2Pokes = TRUE` | `DmaExact` | a second write to SB_ADST (`holly.c:552`) restarts a running transfer and adds a chain of timers |
| `devices`, `C2Differs = TRUE` | `DmaExact` | channel 2 moves DMATCR2 (`sh4_dmac.c:86`) and not SB_C2DLEN, which is only cleared (`holly.c:30`) |
| `devices`, `DcAcross = TRUE` | `DiscExact` | the track is looked up for the first sector only (`disc.c:148`) |
| `devices`, `DcAudio = TRUE` | `DiscExact` | `gdi.c:153` takes audio tracks for data and skips a header they have not; `chd.c:36` copies 2048 of their 2352 bytes |
| `devices`, `DcOther = TRUE` | `DiscExact` | a packet may ask for a format the track has not, or for another part than the data (`gdrom.c:449`), and `disc_read_sectors` fails its CHECKs (`disc.c:150`) |

Others are part of the properties themselves:

- a restart of the video leaks the watches of all textures (`emulator.c:708`), and
  without one more than 4096 textures with palettes, of the 8192 the cache has room
  for, need more than the 8192 watches (`memory.c:117`): `OnlyRestartsLeak`;
- a shared page is given back with the range of the texture that faults
  (`memory.c:69`), after which the other texture changes unnoticed: `ChangeNoticed`;
- a channel of the timer unit that expires with TCOR = 0 is restarted with a period
  of 0 (`sh4_tmu.c:63`), and the loop of `sched_tick` never ends: `TickEnds`;
- a SET_MODE of an odd size, or 0, never meets its size (`gdrom.c:538`), and waits
  until the next ATA command: `CommandEnds`.

Of the hazards, that of a resize (`TexturesFound`, `HandlesLive`) is checked with
`VideoRestarts = FALSE` only, as the code does not keep these properties otherwise.

Others are choices of what the guest does in the instances, made where the code
is known to answer wrongly or to stop:

- *Arm7.* Exceptions do not nest in `ArmExact`; a return copies the SPSR of the
  mode returned to (`arm7.c`), and MSR to CPSR always overwrites SPSR. Rotates
  with extend stop the emulator.
- *Sh4Isa.* LDTLB, SLEEP and invalid instructions in a delay slot are left out: the
  engines disagree on them.
- *Ir.* Folding a constant shift by the width of the word or more differs from the
  emitted one, and is not built; a conditional call is no barrier for context
  loads, as its callees do not change the context it is about; an unused load from
  guest memory is removed with its side effects.
- *RegAlloc.* DIV and ABS have no emitter. A truncation in place leaves the upper
  bits of its register, which a later access of guest memory would use as part of
  the address; in the products the front end builds, the only truncations that
  feed an address, the two halves are right in all 64 bits.
- *Flash.* FLASHROM_ERASE never advances in its loop (`syscalls.c:871`) and hangs
  unless the partition is the first; a guest that erases the settings or is
  replaced within a command cycle may stop the next game at a CHECK
  (`FlashBoots` says so).
- *Bios.* GDROM_CHECK_COMMAND forgets a request that is still active. A read of a frame
  the disc has no bytes for, a command that needs a disc when there is none, and
  GDC_GET_SCD with another size than its format has all fail a CHECK, which ends the
  process: `BiosExact` speaks of the requests that complete.
- *Aica.* A timer written with a 32-bit access while its divider is set gets a
  period that has wrapped around, and is marked in the model; the driver gives
  every source it enables a level other than 0, as a source of level 0 hides those
  after it.
- *Maple.* A copy of the controller's state may be half old, as main and emulation
  thread share it without a lock; the property asks for its parts. Block writes
  have at least two words.
- *Disc.* The root directory fits in one sector: the search ends at the padding
  behind the records of the first (`disc.c:205`). A name is matched by its
  beginning (`disc.c:211`), so that no name that is looked for may begin another
  one. Tracks do not overlap. `DcAssumption` states all three of the images
  (`WellMade`). The hunk cache of chd images never hits, as `oldhunk` is
  not set (`chd.c:30`).

### Fairness

Each unit of `machine_live` has the fairness of its own behaviours.

- `Emu`: each thread runs (weak fairness of each code section), and the machine
  reaches its vblanks whatever the guest does in between (strong fairness, as
  the guest may enter and leave the run point infinitely often): the scanline
  timer restarts itself. Nothing makes the user ask for a frame or the guest
  render.
- `Clock`: `sched_tick` runs on one thread and devices return from their quantum.
- `Intc`: translated code looks at the pending mask in each block prologue;
  vblank out is raised for ever by the scanline timer.
- `Gdrom`: the DMA loop runs to its end; a driver that issued a command moves
  its data.
- `Jit`: thunks run to their end and blocks are finite.
- `Audio`: the three threads run; SDL calls back while the device plays.

## 4. Proofs

Every theorem holds for all values of the constants that satisfy the named
assumptions of the module (`EmuAssumption`, `MemWatchAssumption`, `IntcAssumption`,
`SchedAssumption`, `ClockAssumption`, `GdromAssumption`, `JitAssumption`,
`AudioAssumption`, `AiAssumption`, `DmAssumption`, `MpAssumption`, `MpFramesAssumption`,
`ScAssumption`, `FlAssumption`, `BAssumption`, `DcAssumption`), which TLC evaluates in the runs. A theorem that
needs more says so: the condition is a constant of the module, and the table in
section 3 shows that the property is false without it. Each inductive invariant
was checked by TLC before it was proved.

| Theorem | Property | Condition |
|---|---|---|
| `EmuProofs!FramesRequestable`, `WakeupsSeen` | `FrameRequestable`, `NoLostWakeup` | |
| `EmuProofs!ConversionFindsTextures`, `DrawnHandlesLive` | `TexturesFound`, `HandlesLive` | the window is not resized |
| `EmuProofs!InvalidationsKept`, `DirtyingUnshared` | `StaleIsKnown`, `DirtyUnshared` | the guest waits for its renders; the second is about `emu_start_render` against a conversion, and not about a resize |
| `EmuProofs!PixelsUnshared` | `PixelsExclusive` | a standard video mode |
| `EmuProofs!UploadsWhole` | `NeverTorn` | the guest leaves the textures of a running render alone |
| `EmuProofs!FramesInStep` | safety part of `FrameProtocol` | |
| `MemWatchProofs!FaultsAreHandled`, `WatchesAreLive`, `ChangesNoticed` | `FaultsHandled`, `WatchedIsLive`, `ChangeNoticed` | |
| `MemWatchProofs!RestartsAloneLeak` | `OnlyRestartsLeak` | |
| `IntcProofs!LinesFollow` | lines and types, part of `PendingFresh` | |
| `IntcProofs!PendingIsFresh`, `ControllerRefines` | `PendingFresh`, `TakesTheRightOne` | no SLEEP with BL set |
| `ClockProofs!TimersNeverLost` | `TimersSound` | |
| `GdromProofs!SectorsInOrder` | `DriveSound` | no NOP during a command, SET_MODE data is written although IO says read, no dma of no sectors |
| `GdromProofs!BiosHolds` | `BiosExact` | |
| `GdromProofs!DiscHolds` | `DiscExact` | a read stays within a track, audio tracks are not read, and it asks for the track's format or any and for its data |
| `JitProofs!EntersRightCode`, `EntersFreshCode` | `RightCode`, `FreshCode` | code keeps its extent, each address has its own dispatch entry, no static branch after a flush |
| `AudioProofs!RingSound` | `FramesIntact` | audio is not restarted in the tail of a frame, no debugger |
| `AudioProofs!AicaHolds`, `InterruptsPassedOn` | `AicaExact`, and its half `AicaSignals` alone | every source has a level other than 0 |
| `DeviceProofs!TransfersExact` | `DmaExact` | SB_ADST is not written during a transfer, SB_C2DLEN agrees with DMATCR2 when channel 2 is started |
| `DeviceProofs!MapleHolds` | `MapleExact` | |
| `DeviceProofs!SerialHolds` | `SerialExact` | the driver resets the FIFOs before it uses the port |
| `DeviceProofs!FlashHolds` | `FlashKept` | |

**Emu.** `FrameRequestable` or `StaleIsKnown` are not inductive: they depend on who
holds which mutex and on what has been registered. `IInv` adds six parts, each of
which needs the ones before it:

1. `ThreadInv`: mutex owners and frame state against the position of the threads;
2. `VblankInv`: vblank flag against frame state;
3. `SleepInv`: a sleeping thread waits for something that is still to come;
4. `RenderInv`: pending and starting contexts are marked and have a timer;
5. `ConvertInv`: what the conversion has left to do is registered;
6. `WatchInv`: a texture in use is watched or marked.

`HandleInv` adds what the picture kept for redrawing refers to. The refinement of
`FrameSync` maps the positions of the two threads to those of client and machine;
with `IInv` every step is a step of the protocol or none. `emu_overlap` and the table
in section 3 show that the conditions on renders and resizes are needed.

**MemWatch.** The strengthening is `AInv`: a cached texture is watched or marked,
and all pages of a watched texture that has them alone are read-only. A fault
then fires the entry's own watch, and the watches that fire with it give back
only pages of their own. As long as there are as many watches as watched entries the
two are paired (`Paired`), so that a pool without a free watch serves as many other
entries (`WatchIsFree`); a fault takes both halves of each pair it fires.

**Intc.** `SortInv`: sort ids are a permutation that orders the interrupts by
priority, so that masks of sort ids stand for sets of interrupts, and lines follow
their sources. `FreshInv`: the pending mask is what its inputs give. With both, each
step of the controller is a step of `IrqSpec`: the highest set bit is the interrupt
of the highest priority.

**Clock.** `ClockInv` has two halves. `SchedInv`, about the lists alone: no entry
is on them twice, together they have all entries, and the live one is sorted and
not overdue. Cancelling, starting and moving the time keep it (`CancelKeeps`,
`StartKeeps`, `AdvanceKeeps`). `Owned`, about who holds what: each channel and the
scanline is a slot that holds a live timer with its own callback, or none; a live
timer without a slot is a render's; and the live timers are as many as the slots
that hold one and the renders. A slot that releases or acquires a timer keeps both
(`ReleaseKeeps`, `AcquireKeeps`), and every handler is a sequence of these two. There
is always a free entry to acquire, by counting. A timer that fires belongs to the
slot its callback names, since callbacks tell slots apart.

**Gdrom.** `FlagInv` ties the status bits to the state of the drive. `DataInv` says
by `Delivers` what is still to come: what was received, the rest of the buffer, and
the sectors not yet read are, one after the other, what was asked for. A refill
moves sectors to the buffer, an access or a step of the DMA loop moves bytes to
the guest, and neither changes the whole.

**Bios.** `Current` says what the one request in place is worth: the last that was
accepted, not carried out while it is active, not reported while it is complete, and
of the game that runs, since GDROM_INIT drops what the last game left. Two requests
in a row have different ids, also where ids wrap around. `Replied` keeps what a
completed read left in memory until the next request. What the descrambling
leaves (`DescrambledWhole`) is shown by the least pass that would go wrong, as for
`Scif`. In a chunk the
table stays a permutation, and a slice that was dealt is not dealt again
(`DealSliceKeeps`); a division then finds the place of every byte (`SlicePlaced`).
What is left at the end is copied as it is.

**Jit.** `CacheInv` relates blocks, edges, dispatch table and the patches in the
code: every recorded edge is a patched branch of a valid block, and the other way
round; every entry of the table is the thunk or a valid block of that address.
`HostInv` says where the host is relative to what may be freed or invalidated under
it, `GuestInv` how old the code of a block can be. The three are only inductive
together.

**Audio.** Offsets wrap, so that the invariant speaks of differences modulo `Wrap`:
between what each side has loaded and what the other has advanced since
(`RingInv`, `PushInv`, `PullInv`). A loaded offset is only ever behind, which makes
the room or the data found smaller than it is. `OnePusher` says that main and
emulation thread push at different times.

**Aica.** `AicaSignals` is inductive as it stands, with the types of the registers:
every writer of a pending or enabling register but the timers ends in the update.
`AvInv` says the same of each channel: it stands within its sound, its decoder is
where the reference is, and once it is past the loop start it holds the state it had
there (`Placed`); without the last part a loop could not be shown to come back to the
right state. One sample keeps that in each of its three ways to go on
(`StepOnePlaced`), so any number of samples does (`ChannelStepPlaced`, by counting
with `CountsUp`), also those after the channel has ended. A channel that plays or has
its key bit set was asked for (`Asked`): a channel that ends clears its bit, which is
why the key event of another does not start it again.

**HollyDma.** `ChannelInv` is a conjunction over channels: what a running transfer
has moved is what the registers held when it was started, less the remaining
length, it has one timer, and the interrupts raised are the transfers that are over.
`Channel2Inv` says of channel 2 that SAR2 is where the guest has put it or the last
transfer ended, `SignalsInv` counts its two interrupts, and `PendingInv` ties the
status bits to the calls and the acknowledgements.

**Maple.** `MapleInv` adds to the property the types of files, cards and lists, and
that a copy of a controller is only made for the frame in hand (`CopyOfFrame`).
Each quarter has a range of the file of its own, by division of the address
(`FileHolds`), so that writing one leaves the others alone. That the answer to the
last frame stays right needs no more: it is compared with the card as it was then,
and no card changes without a further answer. `MpFramesAssumption` says what frames
a guest may send.

**Disc.** The place of a track is a sum over the tracks before it, which the parsers
add up as they go. Sums and parsers are recursive functions; what they compute is
shown without induction over data, by the least place where it would fail
(`SumStep`, `CdiParsed`, `ChdParsed`). `ParsedIs` is what the three formats then have in
common: every track is at the disc's frame address and at the file's byte that the
image has it at. `SectorsApart` says that no two sectors of a file overlap, so that a
byte belongs to one sector (`ReadAtSector`); for chd the unit is first split into hunk
and offset and put together again (`HunkSplit`). As tracks are in order, the first that
`disc_lookup_track` takes is the one that has the address (`FrameOnce`, `LookupIs`), and
only the two sectors of IP.BIN are patched (`PatchIs`). The directory that fits in a
sector has its records one behind the other, and the walk stops at the first that
matches (`WalkIs`). `DiscInv` is then short: an open disc is what its image was parsed
to, and what was last read and found is right.

**Scif.** Numbered characters travel through three places in a row: the peer's
queue, the FIFO, the guest, or the other way round. `Chain` says that the three,
one after the other, are the numbers from 1 on in order, with those a reset has
dropped left out. Moving a character from the head of one place to the tail of the
next keeps it; that is what the ring (`EnqueueAppends`, `DequeueTails`) and the queue
of blocks (`PutAppends`, `RestIsTail`) do. `sh4_scif_run` makes as many steps as there is
room or data; that each keeps the invariant and that the count is reached is shown
by the least step that would not (`LoopPasses`, `CountsUp`), as sets of numbers have a
least element without the induction rule. `SerialInv` adds what the flags are worth
while the guest has seen them set: the room it may still fill, the trigger that was
met when TDFE was cleared.

**Flash.** A partition that is not just erased is `Laid`: its header is right, the
user blocks in front of some m are taken in the bitmaps, and those behind are
blank. Then the first free block is m + 1 (`FirstFree`), and a lookup is the last
valid block of an id up to m (`LookupIs`). That allocation and lookup count to the
same bitmap, and that no two blocks share a bit of one, is where the layout is used
(`BlocksOfPartition`, `BitsApart`). Each of the three programs of an update keeps the
partition laid, and only the last one changes what is read (`UpdateStep`): the guest
may be stopped in front of any of them. `FlashInv` says how far the partition and the
chip's command have got with the job of the guest's library, by number of call; after
an abuse the chip may be anywhere in a command, and `CycleEffects` says what a cycle
can do there. `Bootable` is what a start needs: without
abuse there are settings in the file, and those are written in place, so that a full
partition does not matter.

Only model-checked are:

- liveness under fairness (`TickEnds`, `SleepEnds`, `CommandEnds`, `RunEnds`,
  `FramesKeepComing`, the fairness of `FrameProtocol`), which is out of the prover's
  reach;
- what recursive definitions compute, as the prover has no induction over data
  (`IntervalTree`, `Ta`) and no theory of the bitwise operators of `Words` (`Sh4Isa`,
  `Arm7`, `Ir`, `RegAlloc`);
- what folds over sequences compute (`Tex`).

## 5. Findings

Four runs show that the code does not do what its own comment or assertion says:

- `emu_overlap`: "now that the video thread is sure to not be accessing the texture
  data" (`emulator.c:403`). With two renders within 10 ms it is.
- `jit_trap`: "force a break from dispatch" (`sh4_dbg.c:46`). The prologue leaves on
  a negative count only, and the breakpoint sets 0.
- `audio_range`: the DCHECK of `ringbuf_available` (`ringbuf.cc:77`) can fail on the
  main thread.
- `arm_banks`: "load the new mode's bank into the active registers" (`arm7.c:49`).
  They are loaded from the old mode's bank, so that a fast interrupt finds
  none of its own registers; `ArmExact` shows that the interrupted program is
  none the worse.

## 6. What is not modelled

- Rendering, mixing, and the values of floating point operations: arithmetic on
  large data with no state of its own.
- The encodings of x64 instructions, disc image headers, textual IR; the
  disassemblers.
- Tracer, ui, input mapping, memory map and operating system wrappers: input and
  output, or straight line code that runs once.
- Memory ordering below sequential consistency. The offsets of the ring buffer
  are sequentially consistent loads in the code; the other shared variables are
  under a mutex or listed as hazards.
- The single threaded mode of the client, which nothing enables.
- Vendored code (`deps/`), and the parts of the repository only its tools use,
  except for the serial queues of `tools/reload`.

## 7. Plan

Models that could still be added: the TLB and the store queues with `Jit`'s
fastmem; the PVR's registers and the copy of the framebuffer with `Emu`; `Bios`
composed with `Disc` and `Gdrom`; `IntervalTree` shown to implement the set in
`MemWatch`.

Proofs to add: the layouts of `Tex`, with its folds written as recursive functions, as
was done for `Bios`, `Flash`, `Aica` and `Disc`; the rotations of `IntervalTree`.
