# A verification project for NEMU and its guest kernel

The repository holds NEMU, an emulator of a 32-bit x86 machine with devices
(`src/nemu`), and the small protected-mode kernel that boots on it (`src/kernel`).
Games and test programs run on top of the two (`src/game`, `src/testcase`). This directory
models the emulator (memory, interrupts, devices, monitor, arithmetic and instructions), the
kernel, and the parts of the games that drive devices.

`src/include/config.h` selects what is compiled. At this commit `CACHE_ENABLED`,
`TLB_ENABLED` and `HAS_DEVICE_AUDIO` are off and `QUICK_DISK` is on. The data cache, the
TLB, the audio monitor thread and the kernel's disk cache with programmed I/O are therefore
variants that the source supports and a comment switches on. They are modelled as such, and
everything said about them below is about a build that enables them. Paging is modelled
with and without a TLB; interrupts with the audio thread, whose steps are optional, so that
the behaviours without audio are among those checked. The sound card is modelled for the
build without `PA_ONLINE`.

## 1. Inventory

### NEMU

| component | state | operations | what it interacts with |
|---|---|---|---|
| execution loop, `cpu/cpu.c` | registers, `nemu_state`, `is_nemu_hlt`, static `bp` of `exec` | `exec(n)`, `exec_inst`, `do_intr` | polls devices, takes interrupts, hits breakpoints |
| interrupt controller, `device/i8259_pic.c`, `cpu/intr.c` | one slot `i8259_intr_no`, `cpu.intr`, a mutex | query, raise, acknowledge, `raise_intr` | all devices raise, the loop takes |
| data cache, `memory/mmu/cache.c` | groups of blocks with `valid`, mark, content | `cached_read`, `cached_write` | between `paddr_*` and `hw_mem` |
| physical memory, `memory/memory.c`, `io/mm_io.c` | `hw_mem`, mapped regions | `hw_mem_*`, `paddr_*`, `laddr_*`, `vaddr_*` | cache, paging, mapped devices |
| paging and TLB, `mmu/page.c`, `mmu/tlb.c` | 64 TLB entries; the tables lie in guest memory | `page_translate`, `tlb_fetch` | CR0, CR3, the kernel's page tables |
| segmentation, `mmu/segment.c` | cached descriptors | `segment_translate`, `load_sreg` | GDT in guest memory |
| instructions, ALU, FPU, `cpu/instr`, `cpu/decode`, `alu.c`, `fpu.c` | registers, flags | one function per opcode | memory, ports, interrupts |
| IDE device, `device/dev/ide.c` | image stream, byte count, mode, 8 ports | command and data port handler | driver through ports, interrupt 14 |
| timer, keyboard, serial port | last tick; one scan code; nothing | polled once per pass of the loop; port handlers | interrupts 0 and 1 |
| audio, `device/dev/audio.c` | two chunks with mutexes, indices, flags | port handler, copy threads, monitor thread, SDL callback | interrupt 2, concurrently with the loop |
| display and GPU, `vga.c`, `sdl.c`, `gpu.c` | dirty lines, palette; blit registers | mapped I/O, ports | guest memory |
| monitor, `monitor/ui.c`, `breakpoint.c`, `expr.c`, `elf.c` | 32 breakpoints in two lists, symbols | commands `b w d c si q` and printing ones | patches the guest's code |

### Kernel

| component | state | operations |
|---|---|---|
| memory management and loader, `memory/*.c`, `elf/elf.c`, `main.c` | kernel and user page directories | `init_page`, `init_mm`, `create_video_mapping`, `mm_malloc` (binary), `loader` |
| interrupt handling, `irq/*` | IDT, pool of handlers | `init_idt`, `add_irq_handle`, `irq_handle` |
| IDE driver, `driver/ide/*` | sector cache, `has_ide_intr`, tick counter | `read_byte`, `write_byte`, `cache_fetch`, `cache_writeback`, `ide_intr` |
| file system and system calls, `fs/fs.c`, `syscall/do_syscall.c` | fixed table of files, descriptors | open, read, write, lseek, close, brk |

### Games

| component | state | operations |
|---|---|---|
| common code, `game/src/common` | tick counter, list heads in static pools | `game_init` registers handlers by a system call |
| typing game, `game/src/typing`, `adt/linklist.h` | letters in a list, pressed keys | `main_loop`, `update_keypress`, `create_new_letter`, `update_letter_pos` |
| PAL input and video, `nemu-pal/hal`, `nemu-pal/device/input.c` | a state per key, two directions; surfaces | `keyboard_event`, `process_keys`, press and release handlers, `SDL_BlitSurface`, `write_palette` |
| credits, `game/src/credits` | `audio_reload` | notes when the sound card asks for a buffer; starting the playback and handing buffers over are comments at this commit (`credits.c:40`, `:50`) |

### What is hard here

* Threads: the audio monitor thread raises interrupts while the loop reads the
  slot without the mutex; the playback callback exchanges the indices of the chunks that the
  loop and its two copying threads use.
* Interrupts inside the kernel: the gate of `int 0x80` is a trap gate, so a system call
  can be interrupted at any instruction, also in the middle of a disk transfer that the
  timer handler then competes with.
* Waiting: `hlt` until an interrupt comes, `wait_ide_intr` until the handler has set a
  flag, `waitdisk` until the device is ready.
* State that is a copy of other state: cache blocks, TLB entries, sector slots, the byte
  saved under a breakpoint, the picture in the window, the state of a key.
* One-place buffers: the interrupt slot, the scan code, the flags `switch_buf` and
  `audio_reload`. What comes before the last value was taken is lost.
* Lists and pools that interrupt handlers walk, or that are freed while walked.
* Accesses across a boundary (block, page, region, line), unsigned arithmetic on signed
  offsets, carries, rounding and the ends of the exponent range.

`PROJECT.json` lists the hazards one by one with the line where each bites and the
properties that would catch it; a note says where a property is conditional.

## 2. Modules

| module | models | state, actions |
|---|---|---|
| `Memory` | what `paddr_read`/`paddr_write` promise: a flat array of bytes with a bound check | abstract specification `MSpec` |
| `DataCache` | `cache.c`, `hw_mem_*`, the bound check | `hw_mem`, `cache`; `Read`, `Write`, `InvalidAddr` |
| `Interrupts` | `exec`, `do_intr`, `i8259_pic.c`, `intr.c`, timer, keyboard, the monitor thread, `cli sti hlt int int3 into iret` | one action per step of the loop that another thread can observe, one per instruction, two for the thread |
| `IdeDisk` | kernel `cache.c`, `disk.c`, `ide.c` composed with NEMU's `ide.c` and the timer interrupt | one action per port access of the driver, `Tick`, `IdeIntr` |
| `Breakpoint` | `breakpoint.c`, the commands of `ui.c`, the breakpoint logic of `exec` | one action per command, `Step` for one pass of the loop |
| `Paging` | `laddr_read`, `laddr_write`, `page_translate`, the TLB, and what the kernel does to tables and CR3 | `LaddrRead`, `LaddrWrite`, `NotPresent`, `EnablePaging`, `MapPage`, `LoadCr3` |
| `FileSystem` | `fs.c` and the calls of `do_syscall.c` on files | `Open`, `Transfer`, `Lseek`, `Close`, `NotOpen`, `Abort` |
| `Kernel`, `MCKernel` | `irq_handle.c`, `elf.c`, `mm.c`, the rest of `do_syscall.c`, `main.c`, composed with `FileSystem`; small file tables and programs | `AddIrqHandle` in four steps, `IrqHandle`, `Loader`, `Sbrk`, `FileCall` |
| `Audio` | `audio.c` with its five threads, and an assumed guest | one action per access of a thread that another one can see |
| `Display` | the dispatch of `paddr_*` to memory or `mm_io.c`, `vga.c`, `gpu.c`, and `video.c` of the guest | `GuestWrite`, `Blit`, `UpdateScreen`, `VgaClose`, `WritePalette`, `DacData` |
| `Keyboard` | NEMU's `keyboard.c` and the queue of SDL | `UserPress`, `UserRelease`, `DoKeyboard`, `IrqErased`, `ReadCode` |
| `PalInput`, `MCPalInput` | key states and directions of the PAL game, on top of `Keyboard` | `PKeyboardEvent`, `ProcessKeys`, `Battle` |
| `Typing` | the typing game with its list, on top of `Keyboard` | one action per piece of `main_loop` that interrupts can separate, `TimerEvent`, `TKeyboardEvent` |
| `Alu` | `alu.c`: every operation, its value and its flags, at any width | operators |
| `Fpu` | `fpu.c`: the four operations, `internal_normalize`, the register stack, comparison | operators |
| `Cpu` | `cpu/instr`, `intr.c` and `do_irq.S`: instructions over `Alu` and `Fpu` | one action per kind of instruction, `DoIntr` |
| `Routines` | programs for `Cpu` and what they should compute | the instructions of `Cpu` |
| `DataCacheProofs`, `IdeDiskProofs`, `BreakpointProofs`, `KernelProofs`, `AudioProofs` | theorems about the module each one is named after (section 4) | |
| `DeviceProofs` | theorems about `Interrupts`, `Display`, and `Keyboard` with `PalInput` and `Typing` | |
| `ProcessorProofs` | theorems about `Paging`, and about `Alu`, `Cpu` and `Routines` | |
| `NumberLemmas` | products, quotients, remainders, least elements and recursive functions, for the proofs | |

`Display`, `PalInput`, `Typing` and `Routines` put a letter before the names that every module
has (`DSpec`, `PInit`, `TNext`, `RTypeOK`; `CpuNext` is the next-state relation of `Cpu`), so that
one module can speak of several.

Names follow the source. Operators marked `mutant` are plausible bugs of the definition
that follows them. They are used by no specification; substituting one for its original
makes TLC report the property it is paired with in `PROJECT.json`.

What the models abstract:

* *DataCache*: an address is the triple mark, group, offset of `cache.h`. `eip * 3` modulo
  the number of ways chooses the victim; `eip` is any number. A `u32` is four bytes.
  The recursion of `cached_read` at a block boundary is one level deep and is unfolded.
* *Interrupts*: the guest is the code it is in (task, trap handler, IRQ handler) and an
  instruction count. `i8259_raise_intr` on the loop's own thread is one step, on the
  monitor thread two, because the loop reads `i8259_intr_no` and `cpu.intr` unlocked. The
  reads are taken to be sequentially consistent (x86 keeps the order of the two stores).
  What handlers may execute is the kernel's: IRQ handlers are entered through interrupt
  gates and contain no `sti`, `hlt` or `int`; system calls may. `pend`, `next_at` and
  `int3` are history variables.
* *IdeDisk*: a word of 4 bytes is its most significant byte, the one that lands in port
  0x1F3 and replaces the prepared sector number. The image is open for reading only (`ide.c:15`),
  so that `OutLong` stores nothing and does not move the stream; what the guest writes lives in
  the sector cache. History variables: `want` (what the guest wrote), `pending` (words written
  and not yet given to the device), `evicted` (words whose slot was taken since) and `apart`
  (no write-back has come inside the driver). Sequences of byte accesses, which is what
  `ide_read` and `ide_write` are, are sequences of `Call`.
* *Breakpoint*: one byte per instruction, any jump, an interrupt handler of one
  instruction. `expr` returns the constant its text starts with, hence watchpoints never
  fire.
* *Paging*: tables are kept apart from the bytes of memory. `KernelPages` are the pages
  of the lower half that `init` still uses (code and stack) between setting CR0.PG and the
  jump to the upper half, `UserPages` the ones a program gets. An access whose last byte
  reaches the end of the memory aborts (`memory.c:44`, `:63`) and is no step.
* *FileSystem*: a transfer is the range of the disk that is passed on. Arithmetic is
  modulo `MOD`, which stands for 2^32.
* *Kernel*: a byte of a program is its segment and position, or a zero. `mm_malloc` is a
  binary without source (`mm_malloc.o`); it is modelled from its use: it maps the pages of a
  range that are not present to fresh frames in order and returns the physical address of the
  first byte. `registered` and `heap_end` are history variables.
* *Audio*: a chunk is the set of bytes of the current buffer that have been copied into it,
  buffers are numbered modulo 3, and the interrupt may be erased in the controller
  (`IrqErased`, which `Interrupts` explains). `number`, `played` and `lost` are history
  variables. The guest is an assumption: the credits program with the two calls that are
  comments at this commit, `audio_pause(0)` and `write_audio_data()`, and with more data whenever
  it is asked. As it is, the program never starts the sound card.
* *Display*: the region is a few lines with a hidden rest; `LOW` holds a surface of the
  guest. `want` is the memory as one array of bytes, written by the guest and by the loop of the
  GPU; `missed` the pixels that a write put behind the end of the line it marked, until that
  line is drawn; `intended` the colour the guest loads. A rectangle lies in its source, and
  the corner of its destination in the destination.
* *Keyboard*: a code is a key and whether it went up. The acknowledge and the reading of the
  port are one step (`ReadCode`); a second interrupt for a code that has been read would report
  the same code again, which changes nothing in the two games. `unread` and `lost_up` (keys whose
  release code was overwritten or whose interrupt was erased) are history variables.
* *PalInput*: `process_keys` runs with interrupts disabled and is one step. Only the direction
  keys matter; `fInBattle` changes at any time. `unreported` counts presses.
* *Typing*: the loop counters `tick` and `now` occur as their difference. `srand`, scores,
  colours and drawing are left out; a new letter may be any.
* *Alu*, *Fpu*: the width is a parameter. `Signed` and `Cut` are the casts of C. The 64-bit
  intermediate values of `alu_mul` and of the FPU are wide enough not to overflow. The cast of
  the quotient in `alu_imod` (`alu.c:369`) changes the remainder by a multiple of 2^32 only, which
  the cut of the result drops.
* *Cpu*: a program is a sequence of decoded instructions; the decoding of bytes is left out.
  Data registers have `Long` bits, address registers are numbers of memory cells, and one
  cell holds one push. A C function called from the assembly leaves any of `Clobbered` in the
  registers it may change.

## 3. Runs

| run | distinct states | bounds | shows |
|---|---|---|---|
| `cache` | 18 434 | 3 marks for 2 ways of 1 group, blocks of 2 bytes, lengths 1 and 2 | `Coherent`, `NoReadError`, refinement of `Memory` |
| `intr` | 1 030 340 | timer, keyboard, disk, monitor; contexts of 2 instructions | `IntrHasNumber`, `OneIrqHandler`, `Precise`, `PolledKept`, `HltWakes` |
| `ide` | 1 071 648 | 2 sectors in 1 slot, 2 words, write-back every 2 ticks, any image | `DriverCorrect`, `AnywhereSound`, `OnlyReadsAssert`, `DriverProgress` |
| `bp` | 1 313 208 | 4 addresses, 3 elements, `si 1`, `si 2`, `c`, one BREAK_POINT of the program | `ListAndCodeSound`, `Rearmed`, `StopsOnOriginal` |
| `page` | 34 820 | 2+2 pages, 3 frames, 2 TLB entries, pages of 2 bytes, both builds | `TranslationSound`, `AccessesLinear` |
| `kernel` | 974 960 | 4 handlers for 3 interrupts, 4 programs of up to 3 segments, pages of 2 bytes, 5 frames; 2 files, one larger than its `disk_offset`, 2 descriptors, integers of 5 bits with lengths and offsets that wrap | `ResourcesSound`, `DispatchComplete`, `ImageLoaded`, `FileCallsRight` |
| `audio` | 310 085 | chunks of 4 bytes, buffers of 0, 2 and 3, SDL asks for 2 | `ChunksOwned`, `OneBufferPerSwitch`, `PlayingUntouched`, `KeepsPlaying` |
| `display` | 344 064 | 2 lines of 1 pixel, a hidden byte, 4 bytes before the region and 1 behind, 2 values of a byte, accesses of 1 and 2 bytes, blits between any places, palettes of 1 entry | `PictureSound`, `PaletteApplied`, `FinallyShown` |
| `input` | 829 546 | 2 direction keys and another one, 2 events in the queue, 2 unreported presses | `KeysFollow`, `LastReleaseCounts` |
| `typing` | 155 250 | 1 key, a pool of 3, a screen of 3 rows, 2 ticks behind | `LettersSound`, `GameGoesOn`, `PressTakesEffect` |
| `cpu` | 321 011 | words of 3 bits, bytes of 2, floats with 3 and 4 bits; every operand of every routine, blocks of up to 3 words, up to 2 interrupts | `IntegerArithmetic`, `Compared`, `ContextKept`, `BlocksMoved`, `FloatArithmetic` |

One further run, `fpu_mul`, ends in a violation (section 6). Several properties are conjunctions
of named parts, each with a comment of its own:

| property | parts |
|---|---|
| `DriverCorrect` | `TypeOK`, `ReadsKept`, `NothingForgotten`, `TransfersInPlace`, `NoAssertFailure` |
| `AnywhereSound` | `SpinsOnlyInWrite`, `ReadsWhole` |
| `DriverProgress` | `OpCompletes`, `DirtyWrittenBack` |
| `ListAndCodeSound` | `TypeOK`, `PoolSound`, `CodeRestored` |
| `TranslationSound`, `AccessesLinear` | `TypeOK`, `TlbSound`; `ReadsLinear`, `WritesLinear` |
| `ResourcesSound` | `TypeOK`, `KTypeOK`, `HeapMapped` |
| `FileCallsRight` | `StaysInFile`, `TransfersAll`, `OffsetsBounded`, `SeekLands` |
| `ChunksOwned` | `TypeOK`, `DistinctChunks`, `UnlocksOwn` |
| `OneBufferPerSwitch` | `InOrder`, `StarvesOnlyIfLost` |
| `PictureSound` | `DTypeOK`, `ReadsBack`, `CleanLinesShown`, `BlitsInPlace` |
| `KeysFollow` | `PTypeOK`, `NoStuckDirection`, `NoDeafKey`, `NoGhostPress` |
| `LettersSound`, `GameGoesOn` | `TTypeOK`, `ListSound`, `PoolSuffices`; `InterruptsReturn`, `CatchesUp` |
| `IntegerArithmetic` | `WideArithmetic`, `MultipliesAndDivides`, `Idioms` |
| `ContextKept` | `RTypeOK`, `CallsReturn`, `SyscallReturns` |
| `FloatArithmetic` | `SumsRounded`, `OtherProductsRounded`, `QuotientsClose`, `SpecialValues`, `StackedExpression` |

What some of the parts say. `ReadsKept`: a read returns what the guest wrote last until another
sector takes the slot, and the image from then on. `NothingForgotten`: every word is given to
the device, as it was written and where it belongs, before its slot is marked clean or taken.
`ReadsWhole`: wherever the write-back came, a read that returns brings one whole sector, never
a mixture of two. `BlitsInPlace`: a blit whose clipped rectangle lies in both surfaces copies it to the
place it comes from, whatever place was asked for, and changes nothing else.
`StaysInFile` and `TransfersAll` speak of transfers that begin in their file and whose end does not
wrap, `OffsetsBounded` of all transfers; `SeekLands` says where a seek goes under
`check_boundary` as it is. `ReadsBack`: memory and region are one array of bytes; of an access
across an end of the region it speaks of the bytes before the end. `StarvesOnlyIfLost`: the playback waits for data nobody has
been asked for only after a notification was lost in one of three places, the flag the monitor
clears, the flag the guest clears, or the slot of the controller; `KeepsPlaying` is its
liveness. `DispatchComplete`: an interrupt calls the routines registered for it, each once,
newest first, also in the middle of `add_irq_handle`. `NoStuckDirection` and `NoDeafKey`: what
the PAL game takes the keyboard for differs from the keyboard only for keys whose release code
was lost, and `LastReleaseCounts` that the last release in a poll is not. The parts of
`IntegerArithmetic` and `ContextKept` compare routines that compilers emit with the mathematics
they stand for, those of `FloatArithmetic` with the number nearest to the exact rational result.
`OneWayPerMark` of `DataCache` is proved (section 4) rather than listed.

Why the bounds are enough. *cache*: every choice of `cache_group_load` (hit, empty way,
victim) and a read that crosses into a block that evicts the first one occur; the
dependence on sizes is covered by the theorems, but the carry from one group into the
next is exercised by the theorems only. *intr*: four IRQ numbers above and below each
other, frames up to the depth the kernel allows; two instructions suffice to tell "same",
"next" and "start" apart. *ide*: two sectors that share a slot give hits, clean and dirty
evictions and reads of a sector whose changes are gone; two words give a transfer with a middle;
two ticks separate a tick that writes back from one that does not. `NR_SEC_CACHE = 1` means the write-back loop handles one
dirty slot at a time. *bp*: two breakpoints and a watchpoint at once, an exhausted pool,
deletion from the middle of the list. *page*: a page boundary inside the lower half,
between the halves and inside the upper half; a full TLB with random replacement.
*kernel*: transfers that begin before, at and behind the end of a file and end there or wrap,
seeks before the start, between size and `disk_offset` in either order, and at both ends of the
signed range, reused descriptors; two
handlers of one interrupt; segments that share a page, leave a gap or end with a page; a heap
that grows, shrinks and runs out of frames. *audio*: both chunks change their role, an odd
and an empty buffer, a buffer that takes two calls to play. *display*: writes into each line,
across the end of a line and of the region on both sides, into the hidden rest of the region;
blits in both directions between surfaces of different widths and any content, with
clipping, to the same place, to others and beyond the destination; a second load of the palette
over the first; the sizes, and palettes of several entries, are covered by the theorems. *input*: two events in one poll, so that each kind of code overwrites
each other; an unknown key in between. *typing*: letters leave at both edges and from both
ends of the list, the pool is refilled once, ticks are missed. *cpu*: flags, carries and
signs of the ALU do not depend on the width beyond the existence of a sign bit and a bit
below it; 3 bits leave a middle one, and the byte form is shorter than the word. Floats with 3
exponent and 4 fraction bits have denormal, normal and infinite results of every operation,
ties and sticky bits.

Conditions under which passing runs hold:

* `cache`: no write across two blocks (`CrossWrites = FALSE`, section 6). The theorems of
  `DataCacheProofs` hold with them, too,
  because cache and memory are wrong in the same way.
* `intr`: `Precise` is conditional on no `int3` (or `into` with OF) having been executed.
* `ide`: `ReadsKept`, `NothingForgotten`, `TransfersInPlace`, `NoAssertFailure`, `OpCompletes` and
  `DirtyWrittenBack` are conditional on `apart`; section 6 lists what fails without this condition.
  `AnywhereSound` and `OnlyReadsAssert` are not conditional: they say where the machine can hang,
  what a read may bring, and which assert can fail, when the write-back does come inside the
  driver.
* `bp`: the user sets no second breakpoint at an address (`SetTwice = FALSE`; section 6 says what
  happens otherwise).
* `page`: `UserPages` and `KernelPages` are disjoint, as in the link addresses of the
  repository (kernel at 0x30000, programs at the linker's default). Where no mapping is in
  force the properties claim nothing.
* `kernel`: segments are in the order of their addresses, as linkers emit them.
* `audio`: the race of the copying threads for the loop variable is in the model; no property
  of the run speaks of the bytes that arrive (`ReadyIsFilled` does, section 6). `KeepsPlaying` assumes that
  no notification is lost.
* `display`: `CleanLinesShown` and `FinallyShown` except the pixels of `missed`, `ReadsBack`
  the bytes behind the end of the region. `BlitsInPlace` speaks of rectangles that lie in both
  surfaces; `ReadsBack` covers the other blits.
* `typing`: the constants satisfy the hypothesis of `TypingCorrect` (section 4): a letter is on
  the screen for less time than it takes to create `SIZE` others.
* `cpu`: the upper half of a dividend extends the lower one, as `cltd` and `xor` make it.
  `OtherProductsRounded` leaves out the products that `fpu_mul` is about.

`CHECK_DEADLOCK FALSE` is used where the machine may really stop: after a failed assert
or an address out of range (`cache`, `page`, `kernel`), in the hang of `ide`, when playback is
starved (`audio`) and when the window is closed (`display`).

### Fairness

`Interrupts!FairSpec`: strong fairness of `LoopNext`, since the loop is a thread of its own
and the monitor thread sleeps with `SDL_Delay(1)` after each round, so that a mutex the
loop waits for is obtained; strong fairness of `Timer(TRUE)`, since `do_timer` compares
real time with the last tick, which elapses while the loop keeps polling; weak fairness of
`MonitorUnlock`, since the critical section has no loop and no wait. No fairness is
assumed of the keyboard, of what instructions the guest executes or of the monitor raising
interrupts.

`IdeDisk!FairSpec`: weak fairness of `Driver` (the task in a system call keeps
executing) and `IdeIntr` (delivered after the next instruction, interrupts being enabled), and
strong fairness of `Tick` (the timer interrupts again and again). No fairness of `Call`.

`Audio!FairSpec`: weak fairness of each thread: the loop, the two copying threads, the
monitor (polling every millisecond) and the callback, which SDL calls as long as playback is
on. No fairness of pausing and resuming. `Display!DFairSpec`: weak fairness of the refresh,
which `do_devices` calls in every pass of the loop. `PalInput!PFairSpec`: weak fairness of
`do_keyboard` (same reason), of the interrupt handler and of `process_keys`, which the game
calls in each frame; none of the user. `Typing!TFairSpec`: weak fairness of the timer, whose
interrupt recurs, and of the main loop; none of the user. The other modules state no liveness.

## 4. Proofs

`tlapm` checks the theorems below for all values of the constants that satisfy the named
assumptions of the modules (sizes positive, lengths at most a block, IRQ numbers in 0..15, tables
that fit the width of the integers). Where a theorem needs more, its statement says so in an
ASSUME, and the hypothesis is one under which the run checks the property too. A theorem named
with a property in parentheses states that property.

`DataCacheProofs`. The inductive invariant is
`TypeOK /\ Coherent /\ OneWayPerMark /\ NoReadError`. `Coherent` alone is not inductive:
`cache_group_write` updates the first way with the mark, so a second copy would go stale;
`OneWayPerMark` rules it out and is kept because a block is loaded only after a miss. The
lemmas say that loading and writing keep the two (`LoadKeepsGood`, `WriteKeepsGood`), that
a hit in a coherent cache reads what memory holds (`CacheReadIsMemRead`), that the two
halves of a crossing read combine to the read of the whole (`CombineIsMemRead`), and that
a crossing write is two writes inside a block (`CrossWriteIsTwoWrites`).

* `TypeCorrect`, `CacheCoherent` (`Coherent` and `OneWayPerMark`), `GroundTruth`
  (`NoReadError`).
* `MemoryImplemented` (`ImplementsMemory`), under `~CrossWrites`: the cache with its memory
  refines `Memory`, a flat array of bytes. The mapping forgets the cache and numbers the bytes
  of `hw_mem` by mark, group and offset, so that the lemmas are about this numbering: it is one
  to one, the bytes of an access have consecutive numbers also where it carries into the next
  group or mark, and a write inside a block changes the numbers of the access and no other.
  `Read` and `Write` of `DataCache` are then the steps `MRead` and `MWrite` of `Memory`.

`DeviceProofs`, interrupts. The inductive invariant is `TypeOK /\ SlotInv /\ StackInv`.
`SlotInv`: `cpu.intr` is set only when the slot is full, the monitor thread inside its
critical section has filled it, and from `query` on nobody but `Ack` empties it. This
is why the unlocked reads of `do_intr` are safe. `StackInv` gives the shape of the stack of
frames for each kind of code and that an interrupt is taken with IF set only, which no IRQ
handler runs with.

* `TypeCorrect`, `IntrNumberThere` (`IntrHasNumber`), `HandlersDoNotNest`
  (`OneIrqHandler`).
* `PreciseInterrupts` (`Precise`): adds `ReturnInv`, that every pushed frame returns to the
  next instruction of its context. The induction is on "no int3 so far implies `ReturnInv`".
* `PolledRequestsKept` (`PolledKept`): adds `AckInv`, that between query and acknowledge
  the slot changes only to a request of the monitor thread. What `Ack` empties is therefore the
  number it read, or one of the monitor's; a polled request that was replaced was
  outranked.

`DeviceProofs`, display, for every size of memory, region and lines, every set of access lengths
and every palette, without a hypothesis.

* `PictureCorrect` (`PictureSound`). `ReadsBack`, `CleanLinesShown` and `BlitsInPlace` follow from `PictureInv`: `Agrees` says that memory is, byte by byte of the
  address space, the one array `want`, `Shows` that every line which is not dirty is
  on the screen but for `missed`. A byte lies in `hw_mem` or in the buffer of the region; the
  lemmas say which of the two an access reaches, which of its bytes it changes there, and which
  line it marks (`WriteOk`).
* The blit of the GPU is a loop over pixels, `GpuCmd` a recursive function on the bus, `Meant` the
  same loop on `want`. That the two agree at every pixel, wherever the rectangle goes and
  although the surfaces may then overlap, is proved from a smallest pixel at which they do not
  (`GpuCopies`). For `BlitsInPlace`, the surfaces do not overlap, and no pixel is read after it
  was written (`BlitToSamePlace`).
* `PaletteCorrect` (`PaletteApplied`). While a palette is loaded, the index
  of the device and the number of bytes the guest has left to write belong together (`InStep`),
  and everything behind the index has the new colour (`Loaded`).

`DeviceProofs`, keyboard. `KeyboardInv` serves both games: the interrupt is raised exactly as
long as the scan code has not been read, and a press in the queue or in the buffer is followed
by its release unless the key is held.

* `PalInputCorrect` (`KeysFollow`), for any keys, any order of them in the table and any loss
  of events. `PalInv` adds that a key the game takes for pressed is held or its release is
  coming or lost (`Down`), that a remembered direction was reported as pressed and not yet as
  released and the two directions differ (`Remembered`), and that every press between the user
  and the game is one that has still to be reported (`Counted`). `Remembered` does not hold
  inside the loop of `process_keys`: `Halfway` says what does after the first n keys.
* `ListsCorrect` (`ListSound`, a part of `LettersSound`), without a hypothesis: the letters
  on the screen and the free nodes are two chains that partition the pool (`Shape`), in every
  state in which an interrupt can come. The lemmas are about `fly_new`, `fly_free` and the
  traversal of `update_letter_pos`, which frees the node it stands on.
* `TypingCorrect` (`LettersSound`), under `HEIGHT + HEIGHT \div UP < SIZE * PERIOD`: also the
  assert of `fly_new` never fails. A letter makes at most `HEIGHT` steps down and
  `HEIGHT \div UP` up, and letters are `PERIOD` ticks apart, so that the jth letter from the
  front has been moved at least (j - 1) * `PERIOD` times (`Moved`, `Paced`). In the game these are
  384 + 64 steps and 33 * 1000 ticks.

`AudioProofs`, for every size of chunks and buffers and every amount that SDL asks for.

* `ChunksAreOwned` (`ChunksOwned`), `BuffersInOrder` (`OneBufferPerSwitch`),
  `NoWriteWhilePlaying` (`PlayingUntouched`, an action property).
* The loop reads `fill_idx` before it locks the chunk and uses it again after, while the
  callback exchanges the indices. What makes this right is that there is at most one request
  for a buffer under way, in `switch_buf`, in the controller or with the guest (`RequestInv`),
  and that the callback exchanges the chunks only when the other one is ready, which no request
  under way allows. `LockInv` says who has locked which chunk, `WorkerInv` when the copying
  threads exist, `OrderInv` that the guest is at most one buffer ahead, `LostInv` that a request
  which is nowhere has been lost.

`ProcessorProofs`, paging, for every number of pages, frames and TLB entries and every page size, under
`KernelPages \cap UserPages = {}` (section 3 says why; without it the theorems are false).

* `TlbNeverStale` (`TranslationSound`), `LinearAccesses` (`AccessesLinear`).
* `TlbSound` speaks of the tables in force, which `LoadCr3` and `MapPage` change under the TLB.
  The inductive invariant therefore says where an entry comes from (`EntryInv`): it maps a page
  that the kernel uses one to one, or is the entry of a program's page, walked after CR3 was
  loaded. `TablesInv` says that the two directories agree on the pages of the kernel, `OneEntry`
  that no page has two entries, so that the order of the search does not matter.

`ProcessorProofs`, instructions, for every width of words, every size of the data and of the
stack. Hypothesis of the three theorems: `Code = RoutineCode`, the value the configurations give
to the constant; it says which program is run.

* `ComparedCorrect` (`Compared`). The lemmas say what `alu_sub` returns and which flags it sets
  (`AluSubFacts`), and from them that each condition of `jcc`, `setcc` and `cmov` after it is the
  order of the operands, unsigned and signed (`SubOrders`), although the difference may wrap. That
  `AluSub` computes with the complement of the subtrahend and an addition makes this the
  arithmetic of 2^w, for which the provers only have that 2^n counts the subsets of a set.
  `ComparingAt` says, for each routine and place in it, what flags and registers hold.
* `BlocksMovedCorrect` (`BlocksMoved`), under `Buffer + 15 <= Cells` (the stack has room for the
  frame of one interrupt; without it the frame overwrites the data). `MovesAt` says that
  the routine is before or behind its one instruction, with its registers and flags, or `Within`
  an interrupt that returns there. `Handling` is the invariant of the handler: which of the 15
  cells of the frame are on the stack at each of its eleven places, and that they hold what
  `raise_intr` and `pusha` saved. `InterruptsTransparent` follows: from the interrupt to `iret`
  the data below the stack is untouched, and what `iret` returns to are the registers, flags
  and place of the interrupt. The rounds of `rep` are a recursive function; its values are
  proved from the smallest round at which they are wrong.

* `IntegerArithmeticCorrect` (`IntegerArithmetic`), under the same `Buffer + 15 <= Cells`: for
  words of every width, not only the 3 bits of the run. `Runs` says what each instruction makes
  of registers and flags, in terms of integers (`TwoOpRuns` to `DivRuns`, one lemma per function
  of the ALU; that a word is the sum of its bits and that shifts divide or multiply by a power of
  two is proved from a smallest index at which the recursive function goes wrong). `PlainAt`
  is the inductive invariant of the fifteen routines without a jump: registers and flags are
  what the instructions before this place make of those at the start (`Traced`), or `Within`
  an interrupt that returns there. `LoopAt` is the one of the loop: `edx` is the sum of
  as many terms as turns have been made. From a complete trace, one lemma per routine
  (`Add64Ends` to `SextEnds`) derives what the routine is for: sums, differences,
  negations and comparisons of twice the width from their halves, products, division that
  rounds to zero, and the short forms for absolute value, halving, sign extension and others.
  `idiv` is proved for what does not overflow, as the operands of the run say.

`IdeDiskProofs`, for every number of sectors up to 256, every number of slots and of words.

* `AnywhereIsSound` (`AnywhereSound`) and `WritesNeverAssert` (`OnlyReadsAssert`), with the
  timer anywhere. The invariant relates the device to the driver: the status is busy exactly
  during a write, whose position and count nothing disturbs; those of a read are undisturbed as
  long as the device is in read mode (`TransferInv`), and the words that have arrived are those of
  the sector the stream is in, whichever that is (`WholeInv`): a write-back that comes in
  between leaves the device in write mode, and its assert stops the transfer. Slots hold
  sectors that belong there (`SlotInv`).
* `DriverIsCorrect` (`DriverCorrect`), without a hypothesis on the image. The invariant is
  `apart => Latest`: a slot holds what the guest last wrote, the image the rest (`CacheLatest`,
  `DiskLatest`), a word that waits for the device lies in a dirty slot, behind those that
  a transfer under way has given (`PendingInv`), and inside a transfer the position is that of
  its own sector and the words before `i` have arrived (`WriteInv`, `ReadInv`). The second
  induction rests on the first one.

`KernelProofs`. The four parts of the kernel have an invariant each.

* `FilesStaySound` (`FileCallsRight`), for every table of files that ends below half of the range
  of the integers, every width, length and offset, without a hypothesis. The parts are inductive
  together: that transfers are right in their file, and that a seek lands where `SeekLands`
  says, rests on `OffsetsBounded`: no descriptor is further than the larger of the size and the
  `disk_offset` of its file, so that a sum with a signed offset never wraps back into the file.
* `EveryHandlerCalled` (`DispatchComplete`), for every size of the pool. The list of each
  interrupt is a chain through the pool that avoids the element `add_irq_handle` has in hand
  (`Chains`, `InHand`); at each of its four steps an interrupt may walk the chains. `Calls` is a
  recursive function; that it exists and what it computes along a chain is proved by taking
  the smallest counterexample, with the recursion unfolded at that place.
* `ProgramIntact` (`ImageLoaded`), for all programs, page sizes and numbers of frames. The loader
  asks `mm_malloc` for the physical address of the first byte of a segment and writes all
  of it from there, which is right only if the frames of a segment are adjacent although its
  first page may be present already. `LoaderInv` gives the reason: the last present page has the
  last frame handed out. It needs segments in ascending order (`ImageAssumption`; the ELF
  format demands the order, and the run includes programs whose segments share a page).
* `KernelResources` (`ResourcesSound`), under `4 <= NR_IRQ_HANDLE` (32 in the code): adds
  `PoolInv`, which counts the two registrations of `init_ide` and the two of `game_init`.

`BreakpointProofs`, for every program, pool and sequence of commands.

* `PoolPartitioned` (`PoolSound`, without a hypothesis): `ListInv` says that each list has its
  elements once and each element is in exactly one list; lemmas on putting in front, taking
  off, unlinking and appending carry it through the commands.
* `EveryBreakpointRearmed` (`Rearmed`), without a hypothesis.
* `MonitorSound` (`ListAndCodeSound`) and `OriginalShown` (`StopsOnOriginal`), under `~SetTwice`.
  `CodeRestored` is not inductive: deletion restores what the element saved. `CodeInv` adds that
  every breakpoint of the list saved the program's own byte, which fails exactly where a second
  breakpoint at an address saves 0xF1 (section 6).

Only model-checked:

* Liveness, which is out of the prover's reach: `HltWakes`, `DriverProgress`, `KeepsPlaying`,
  `FinallyShown`, `LastReleaseCounts`, `GameGoesOn`, `PressTakesEffect`.
* `ContextKept`, which follows a recursive program and system calls, with interrupts inside
  them: its stack holds a frame for each call, each interrupt and each system call, so that the
  invariant would be about sequences of frames of three shapes.
* `FloatArithmetic`: the code rounds in steps of one bit, and sums and products are compared
  with the nearest of all numbers, which is a choice over the whole format.

## 5. Not modelled

* The decoding of instruction bytes (opcode tables, ModRM and SIB): data, not control. Of the
  instructions, the 8- and 16-bit forms of multiplication and division, `lea`, `cmps`,
  far jumps, segment registers, `fnstsw`, `sahf`, the x87 forms with doubles and integers.
* Segmentation: `load_sreg` asserts flat descriptors, so that it is the identity.
* The serial port (prints, no state), the CRTC registers, the `PA_ONLINE` sound card, the DMA
  path of the disk, which is never compiled.
* Symbols and expressions of the monitor, its printing commands, start-up and arguments.
* Test programs and libraries (`libs`: newlib and other vendored or prebuilt code).
* The logic of the ported PAL game (`game/src/nemu-pal` apart from input and video). It is
  78 000 of the 109 000 lines counted as implementation, 47 000 of them two font tables; it is
  a program that runs on the system, ported from SDLPAL, sequential, and its state is that of
  a role playing game. The project models the system and what drives its devices: of NEMU
  (12 700 lines with its tests and tables), the kernel (1 800) and the small demos (1 000). A
  share of the whole that is counted in lines stays small for this reason.

`PROJECT.json` gives the reason for each component.

## 6. Disagreements with the repository's own words

With a run:

* `fpu_mul` (`ProductsRounded`): `internal_float_mul` can pass an exponent of 0 and a significand
  that needs no shift to `internal_normalize`, which then omits the shift of a denormal result: the
  product is twice what it should be (`fpu_test.c:157` asserts equality with the host's
  product). 2^-149 times 2^19, 0x00000001 and 0x49000000, gives 0x00100000 for 0x00080000.

Reproducible by checking a property that the module states and no run lists; TLC finds a
counterexample with the constants of the run named, changed as said:

* `ide`, `Durable`: "write 4 bytes data to disk" (`ide.c:30` of NEMU). The image is opened
  with mode "rb" and the result of `fwrite` ignored: nothing is ever written to it, and a
  sector reads as it was in the image once its slot was taken by another one.
* `ide`, `DataIntact`: "the data read from disk is intact" (`disk.c:78`). A write-back between
  `ide_prepare` and `issue_read` replaces the sector number, and another sector is read.
* `ide`, `AssertsHold`: a write-back inside a read transfer makes the next word fail
  `assert(!ide_write)` (`ide.c:85` of NEMU).
* `ide`, `WrittenBackEverySecond`: "writeback cache for every 1 second" (`ide.c:6` of the
  kernel). A write-back inside the write of a victim waits for ever in `waitdisk`.
* `bp` with `SetTwice = TRUE`, `StopsOnOriginal`: "found, then restore the original opcode"
  (`cpu.c:95`). A second breakpoint at an address saves 0xF1 as the original byte; the program
  cannot get past it, and `delete_all_breakpoint` leaves 0xF1 behind (`CodeRestored`).
* `kernel` with `NR_IRQ_HANDLE = 3`, `HandlerFree`: "get a free handler" (`irq_handle.c:27`). The
  assert before it admits one handler more than the pool has. Three for the four
  registrations of `init_ide` and `game_init` stand for 32 and 33.
* `kernel`, `SeeksToEnds`: "Seeking past end of file", "Seeking before start of file" (`fs.c:139`,
  `:142`). `check_boundary` compares with `disk_offset` instead of `size`, and unsigned: in `gop.mkf`
  and `credits_bgm.wav`, which are larger than their `disk_offset`, ordinary seeks go to the end;
  in the other files a place behind the end is accepted; one before the start goes to the end.
* `kernel`, `ReadsClipped`: "Reading more than file size, clipping" and "len<0" (`fs.c:83`, `:87`).
  `len` is unsigned: from behind the end the clipped length wraps, and the read goes on through
  the files behind; so does an `offset + len` that wraps.
* `audio` with `Lens = {2}`, `ReadyIsFilled`: "should be already ready" (`audio.c:247`). The copying
  threads get the address of the loop variable, both may read the same value, and half of the
  bytes are missing.
* `display`, `BlitsAsAsked`: "to position (`dx', `dy') of `dst' surface" (`hal/video.c:54`). The
  GPU ignores the destination rectangle and copies to the place of the source rectangle
  (`gpu.c:106`); PAL asks for other places (`main.c:393`, `:404`, `misc/ending.c:249`, `:266`).

Reproducible by changing a constant or dropping a condition:

* `cached_write` passes the high part of a write across two blocks unshifted, so wrong bytes are
  stored (`DataCache` with `CrossWrites = TRUE`, blocks of 4, lengths 1, 2 and 4, two marks and
  one way: `WriteStored`).
* The acknowledge can erase a request of the monitor thread that came after the query
  (`Interrupts`: `NoSilentLoss`). `PolledKept` shows that requests of other devices are safe.
* A single step that ends on a breakpoint disarms it (`Breakpoint` with `Counts = {1}`, no
  BREAK_POINT of the program: `Armed`).
* A notification lost as `StarvesOnlyIfLost` describes ends the playback (drop `lost = {}` from
  `KeepsPlaying`).
* A write across the end of a line marks one line as dirty only (drop `missed` from
  `CleanLinesShown`); an access across an end of the region reads and writes the memory under it,
  or what follows it in the pool (the whole access in place of `Reached` in `ReadsBack`).
* `int_3` and `into` (`int_.c`) enter the handler one byte late and push their own address
  as the return address (drop `~int3` from `Precise`).
* Nothing flushes the TLB when CR3 is loaded (`KernelPages` and `UserPages` overlapping,
  `ReadsLinear` and `WritesLinear`); a page that only `init` used stays accessible through its
  old entry.
* The quotient of the FPU drops the remainder and may be one unit too small
  (`QuotientsClose` without its second alternative).

Seen while reading, outside of what the models cover: `alu_div` and `alu_idiv` ignore the upper
half of the dividend and `alu_mod` uses a global size; `inc` and `dec` change CF; shift counts
are not masked and a count of 0 changes flags; `push_6a` does not extend the sign; `cmps_b` uses
the operand size; `repe` ends on equality; `ret` with a count reads `esp` where it should write
it; 16-bit `cwtd` uses 32-bit registers; `sahf` clears IF, DF and OF; `fucomip` treats NaN as
equal; two tables of group 2 (`opcode.c:104,108`) have `shr` at index 6, the others at 5.

## 7. Plan

The order is by importance; items 1 to 10 are done.

1. `DataCache` with `Memory`; coherence proved.
2. `Interrupts`; assertion, nesting, precision and kept requests proved.
3. `IdeDisk`, the composition of kernel driver, device and timer.
4. `Breakpoint`.
5. `Paging`, `FileSystem`.
6. `Audio`.
7. `Kernel`, composed with `FileSystem`.
8. `Alu`, `Fpu` and `Cpu`, and the routines that use them.
9. `Display` with mapped I/O and GPU; `Keyboard` with `PalInput` and `Typing`.
10. Theorems about `Audio`, `Paging`, `IdeDisk`, `Kernel` and `Breakpoint`, and that
    `DataCache` implements `Memory`; about `Display`, `PalInput` and `Typing`; about the
    conditions after `cmp`, block moves, interrupts and integer arithmetic in `Routines`.
11. Left: theorems about `ContextKept` and `FloatArithmetic`.

No module has RECURSIVE operators: recursion is written as recursive functions, so that every
module can carry theorems.
