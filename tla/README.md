# hoho: TLA+ models, model checking and proofs

hoho is a small operating system for 32-bit x86 PCs: a kernel with round-robin
scheduling of processes and threads, paging, an ELF loader, a FAT file system on
floppy and ATA drivers, a keyboard, a mouse, a text console and a windowed one. This directory holds
TLA+ specifications of its core, translated from the C and assembly sources in
`src/`, the TLC configurations that check them, and proofs that TLAPS checks.

## 1. Inventory

### Components, their state and operations

| component | state | operations | hard because |
|---|---|---|---|
| Scheduler, processes, threads (`proc/sched.c`, `proc/proc.c`, `proc/thread.c`, `drivers/x86/pit.asm`) | ring of processes (`list`, `next`, `prec`), in each a ring of threads (`thread_list`), pids, `sched_on`, `pit_ticks`, TSS and CR3 | `schedule` from the timer interrupt, `sched_add_proc`, `sched_remove_proc`, `start_proc`, `start_thread` (fork), `stop_thread` (exit), `end_proc` (return), `remove_proc`, `proc_state`, `gets` | the timer interrupts the console in the middle of ring operations, saves registers into whatever `list` designates, threads run on structures that were freed |
| Memory of processes (`mm/mm.c`, `mm/vmm.c`, `mm/paging.c`, `proc/elf.c`) | block bitmap and counter, pool of page tables, kernel directory, process directory, loading space | `pmm_malloc`, `pmm_free`, `create_address_space`, `delete_address_space`, `vmm_map`, `vmm_map_phys`, `vmm_unmap`, `load_elf`, `build_stack`, `build_heap` | memory and tables run out half-way, stale entries are cloned, pages are counted in three different ways |
| Kernel heap, user heap (`mm/kheap.c`, `mm/heap.c`) | chain of headers in the heap, bytes used | `kmalloc`, `kfree`, `umalloc`, `ufree` | address arithmetic, splitting and merging, order of frees |
| Keyboard, mouse (`drivers/keyboard/`, `drivers/mouse/`) | `lastkey`, `mouse_cycle`, `mouse_byte`, position and button | two interrupt handlers, `getchar`, `gets`, the console's polling | one output buffer for two devices; an interrupt between reading and clearing the slot |
| Console and text screen (`apps/console.c`, `apps/commands.c`, `drivers/video/`) | line buffer and counter, video memory, cursor | typing, backspace, Enter, commands, printing, `gets` | edges of lines and screen, in both directions |
| Floppy driver and DMA (`drivers/floppy/`, `drivers/x86/dma.c`) | interrupt counter, current drive, motor, transfer buffer, DMA registers | detection, reset, calibrate, seek, read, write | waits for interrupts, retries, failures half-way |
| ATA driver (`drivers/ata/`) | the disk selected, a flag | identify, read | waits for ports without a limit |
| File system (`fs/fat.c`, `fs/vfs.c`, `hal/device.c`) | mount table, device table, directory sectors, `offset`, FAT copy | mount, open, read, write, touch, delete, cd, ls | guesses the kind of FAT; works in the driver's one buffer; path walk over cluster chains |
| System calls, exceptions, interrupt tables (`hal/`) | tables written at boot | dispatch, exceptions, panic | interrupts are off in system calls |
| Timer, graphic modes, windows, audio, library, boot, example programs | see `PROJECT.json` | | |

### How they interact

* The **timer interrupt** preempts the console (and the GUI's draw thread) anywhere;
  system calls run with interrupts off, so they are atomic except `gets`, which turns
  interrupts on and the scheduler off.
* The **console** starts a process (`console_start`), polls `proc_state`, and removes
  the process when it has ended; it touches process memory only before the process is
  in the ring and after it has ended.
* **Processes** fork and exit threads and end through system calls; a page fault in
  user code ends the process as well (`ex_page_fault`, `return_exception`), and some other
  exceptions of user code halt the machine (`panic`).
* Scheduler and memory share the thread structures (stack and heap addresses, image)
  and allocate them on the kernel heap; the loader reads the file through VFS, FAT and
  a drive.
* Keyboard, mouse and floppy **interrupts** set one variable each, which others poll.

### What makes each component correct

* *Scheduler*: the rings are rings whenever somebody can walk them; a context is saved
  in, and restored from, the structure of the thread it belongs to; only live threads
  run; ended processes are removed completely, once; no runnable thread starves.
* *Memory*: a frame is never lent twice nor lost; kernel space is never handed out;
  the stacks, heaps and image of a process do not overlap; a process reaches its pages.
* *Heap*: blocks that are in use do not overlap and lie in the heap's memory; the heap knows how much is in use.
* *Keyboard and mouse*: characters arrive in the order of the keys' codes and once each; the pointer goes where the packets lead.
* *Console*: the screen shows the line that Enter will use; nothing is written outside video memory.
* *Floppy*: a transfer concerns the sector asked for, a call leaves the controller ready for the next one,
  and every request ends.
* *File system*: a file reads as its chain of clusters; operations on a file leave the other files and the directory alone.

`PROJECT.json` lists the hazards, each at its line and with the properties aimed at it.

## 2. Modules

```
Scheduler ── SchedulerLife ── ProcLife          PhysMem ── ProcMem ── ProcMemProps ── FrameLease
    │  (refinement of ProcLife)                                 (refinement of FrameLease)
SchedulerInv ── MCScheduler                      ProcMemInv ── MCProcMem
    │                                                │
SchedulerProofs (NatLemmas)                      ProcMemProofs (NatLemmas)

Heap ── MCHeap              Drives ── Fat ── MCFat          Ps2 ── MCPs2
    │                                  │                      │
HeapProofs (NatLemmas)      FatProofs (NatLemmas)         Ps2Proofs

Console ── MCConsole        Dma ── Floppy ── MCFloppy
    │                              │
ConsoleProofs (NatLemmas)   FloppyProofs (NatLemmas)
```

| module | what it is |
|---|---|
| `Scheduler` | processes, threads, timer interrupt, console; properties at its end |
| `ProcLife`, `SchedulerLife` | the abstract life of a process (created, ended, removed, in that order, once), and the mapping |
| `SchedulerInv` | the inductive invariants, for text mode and for both modes |
| `SchedulerProofs` | lemmas on rings given by a successor function; proofs about `Scheduler` |
| `NatLemmas` | lemmas on naturals, products and remainders |
| `PhysMem` | the block bitmap as operators |
| `ProcMem`, `ProcMemProps` | memory of user processes; its properties |
| `FrameLease` | the abstract promise: a frame is free or lent, and lent when free only |
| `ProcMemInv`, `ProcMemProofs` | inductive invariants and proofs |
| `Heap`, `HeapProofs` | the kernel heap and the heap that a process' threads share, with their clients; proofs |
| `Drives`, `Fat`, `FatProofs` | what mounting learns of a drive and the ATA driver's reads; the file system under the console's commands, from boot on; proofs |
| `Dma`, `Floppy`, `FloppyProofs` | the DMA controller as the driver programs it; driver, floppy controller, interrupt and callers; proofs |
| `Ps2`, `Ps2Proofs` | keyboard and mouse on one output buffer, handlers and reader; proofs |
| `Console`, `ConsoleProofs` | the text screen, the console's line, `gets`; proofs |
| `MCScheduler`, `MCProcMem`, `MCHeap`, `MCFat`, `MCFloppy`, `MCPs2`, `MCConsole` | instances for TLC: bounds, programs, memory map, disks, packets |

The modules share no variables. Where one part relies on another, its module assumes what the
other's shows, and says so: `Scheduler` assumes of `kmalloc` what `Heap` checks, `Fat` takes a
sector of the floppy to be read and written as `Floppy` shows of calls without errors, `Console` starts where
`Ps2` delivers a key, `ProcMem` starts where `Fat` has read the file.

### Scheduler: state and atomicity

The variables are the fields of `process_t` and `thread_t` that control depends on
(`next`, `prec`, `thread_list`, thread ring, `state`, `threads`, `pid`), the globals
`list`, `pid`, `sched_on`, `pit_ticks`, and the processor: which thread it really runs, which
structure each saved context is in, `esp0` of the TSS and the page directory loaded.
"What the processor runs" and "what `list` designates" are different variables; that
they agree is a property, `CpuMatchesList`, and not an assumption.

A step of the console is a piece of its code between two points where an interrupt
makes a difference: each of the four statements of `sched_remove_proc` is a step,
and so are the iterations of `remove_proc`. `sched_add_proc` turns the scheduler off and is
one step. System calls have interrupts off and are one step each, except `gets`. The
timer interrupt is one step until the loop in `schedule` that skips stopped processes;
every iteration of that loop is a step (`SchedWalk`), so that its termination can be asked.
Structures are named by the pid they were given, and pids are not reused; a structure that is freed keeps
what it contains, and code that uses it after `kfree` does so in the model.

The constant `TextMode` selects the mode the kernel was booted in; in GUI mode (`TextMode = FALSE`)
the draw thread is a second kernel process.

Assumptions: `kmalloc` returns NULL or a structure that nobody uses (`Heap` shows how far that is true: until
a block without room for a second header is taken again); `sched_on`, one byte, is
followed by padding, because `pit.asm` compares it as four (true when uninitialised
globals are common symbols, which was the default of the compilers the repository's binaries
name; with `-fno-common` the tick counter may follow it); user code
raises no exception that panics (`ProcMem` has those).

### ProcMem: state and atomicity

The console runs one user process at a time, so two directories are enough: `kpte`, `kload` and
`kpde` are the kernel's (program area, loading space, and whether the area's page table exists),
`dpte`, `duser` and `dpde` the process's, with the user flag of pages and table. A
page's content is the frame it designates. `map` and `used_blocks` are the bitmap and counter of
`mm.c`, `pool` the number of page tables handed out. `phase`, `seg`, `j`, `n` say where `start_proc`,
`load_elf`, `build_stack` and `build_heap` are. A step is an iteration of a loop (one page), and whether
it fails depends on `map` and `pool`, never on a choice. An exception of user code ends the process or, for the vectors
whose handler calls `panic`, the machine (`Exception`); a panic is an endless loop with interrupts off.

The model keeps, because the code has it: the search over whole words only; block -1 for a
full memory, multiplied to the last page of the address space, and its bit set in word 0; the
count of kernel blocks whether they were free or not; the 32-bit counter; the flags and stale
entries cloned from the kernel's directory; the single frame for all pages of a segment; image size
from the entry point; `page_table_free`'s index.

Abstracted: contents of pages, the TLB, the framebuffer. One page table covers the program area
(`LastPage`), so programs have less than 4 MB.

### Heap: state and atomicity

`head[h]` holds the headers of heap `h` by address, `used` the counter of each `heap_info`, `held` what clients hold, and `op` the call in progress: a step is
one iteration of the search in `first_free` or of the merge in `kfree`. Calls are one at a time in the code - the console uses the
heap while no process runs, system calls have interrupts off - and so in the model. There are two chains: the kernel's, and that of one process. `start_thread` maps a
heap for the new thread and then copies the first page of the caller's over it, `heap_info` included (thread.c:76-82), so the copy's pointers lead into the
caller's chain: all threads of a process allocate in the chain of its main thread, and each has a `used` of its own that begins as a copy of its maker's (`Fork`) and goes with
it (`Exit`). `alive` says which threads there are, `forked` whether there was ever a second one.

Sizes are words (`WordMod`) in bytes; addresses are counted in headers, since the code adds byte counts to header pointers (kheap.c:71). Blocks therefore lie sixteen times as far apart
as sizes say, and leave the heap's memory long before `used` has reached its size: the kernel heap ends at 0x200000, where the paging structures begin, after a
sixteenth of it was given out, and a process' heap where its pages end (`End`). There the code overwrites page tables or another thread's pages, or faults, and the clearing of a new page table overwrites
headers; what follows cannot be modelled, so a header written beyond a heap's memory (`TakeBeyond`) ends a behaviour: `beyond` holds and no call is possible any more.
Everything that is said of the heaps is said up to there.

Two history variables carry the properties: `blocks`, the headers that were not merged into another, and `tight`, the heaps in which a block was taken
that has no room for a second header: then the remainder's size wraps and its header is written over the block that follows. A header
stays in memory when its block is merged. What clients write into their blocks is not modelled. Some of the kernel's blocks are never freed (`ata_read_sector`,
ata.c:137, takes 512 bytes for each sector); in the model any block may be kept.

### Fat and Drives: state and atomicity

`machine` says what the hard disks answer to IDENTIFY and how their data port behaves; `stage` is where boot is. Mounting
(`device_register`, `fat_mount`) reads sector 0, and enters the drive whatever it finds there. `fat_mount` keeps the
computation of the number of clusters from the 16-bit number of sectors, unsigned (`WordMod`), from which the kind
of FAT is guessed.

A name is all that is typed after a command's word, as `get_argument` does not cut it off where an argument ends: `read b x` looks for `b x`, whose 8.3 name is not that
of `b`. `Dos` says what `to_dos_file_name` makes of such a line, and `Lines` which lines `write` can have, with the text that each ends with: since the file is looked for by name and text
together, `write` finds only files whose names have eight letters or an extension of three, where the conversion stops.

`disk` maps sectors to what they hold: the boot record, the bytes of the FAT, directory entries, or a file's value. The FAT is unpacked as
`fat_read` does: two bytes for FAT12 and FAT16, four for FAT32, from a copy of two sectors. `get_phys_sector` counts from a fixed
place, whatever mounting has found, so clusters 0 and 1 of a floppy are sectors of the root. A command is one step, except reading, which is a step per sector.
Nobody else uses the drive in the meantime: processes cannot read or write files, and the console waits while one runs. `dir` is the console's directory:
the list of drives, a root or one directory below it. Values the C code leaves undefined are choices: the cluster of a directory
that was not found, and the device of a file that was not (`Touch`, `TouchNoDev`); so is what a FAT entry beyond the disk says.

The ATA driver reads the primary master whichever disk it is asked for, looks for the status bit in the data port, and has no function for
writing: reading may hang (`ReadMayHang`) or return something else, and writing jumps to address 0 (`halted`). Transfers
of the floppy succeed here; what happens when they do not is in `Floppy`.

### Floppy and Dma: state and atomicity

`pc` is where the driver is between two points at which the controller or the interrupt can act. What it sends and reads
in between is one step, in which the state of the controller goes through one operator per byte or command: a command that is sent
while the controller has a result to give is lost, and a byte read too many is 0. The controller (`fdc`, `cyl`) is
external: a seek gets there or not, a transfer moves its whole extent or stops after some sectors, a reset ends with
four interrupts to be sensed. A transfer only moves data if the DMA registers are right at that moment (`DmaSet`); they are set byte by
byte through the flip-flop, with the masks as the code writes them (`dma_mask_channel` names the wrong bits, `dma_unmask_all` writes
to the other controller; the channel is unmasked all the same). `irq` and `floppy_irq_done` are the interrupt and its counter. The
callers are mounting at boot, the console, and a process in a system call, where interrupts are off.

Abstracted: the controller takes a byte within the driver's 500 polls; the delays while the motor starts and stops.

### Ps2: state and atomicity

`port` is the output buffer of the keyboard controller, which holds one byte and says whose it is. Keys go down and up in any order, any number of them held at a time, and repeat while they are held (`down`); `sent` is the
sequence of codes that makes, of which the controller has got the first `kbd`, and `mouse` what the mouse still has to send. A packet stands for the movement of its nine bits for each direction (`Dx`, `Dy`; the
ninth ones are in the first byte), while the handler takes the other eight for a signed char. Interrupt handlers do not interrupt each other. The keyboard's handler is one step; the mouse's is a step per round of its loop, which asks for the
buffer's status again, since a byte of the keyboard may have arrived meanwhile. The reader takes two steps, `keyboard_get_lastkey` and
`keyboard_invalidate_lastkey`, with interrupts on between them. `keyboard_to_ascii` is the code's table with its ranges; the range of the row of
q is longer than its string, and what follows the string in memory is a choice (`Overread`). `mouse_init` is modelled by what it may leave behind:
nothing, or an answer of the mouse that comes late. `taken`, `want`, `stolen` and `astray` are history that the properties are about.

### Console: state and atomicity

`screen`, `x` and `y` are video memory and cursor; the routines of `video.c` are operators on a record of them (`check`, `scroll`, `PrintChar`,
`printk_string`, `clear`). `stray` says whether the step wrote outside video memory. A step is a key that was taken and its echo, or a string that is printed. `mode`
says who runs: the console, a command, a process, the process in `gets`, or nobody (`halted`). A command is known by its first word; commands and processes print any number
of strings, and those are any (`Outputs`), with backspaces, returns and line feeds in them - a process may pass any string to `console_print`, and `print_file` prints the bytes of a file. A process may
clear the screen. `overrun` says that the present line began before the screen, or that `gets` has gone back beyond its start; `erased` that the last step has printed a backspace that was for no character of the line.

## 3. Runs

Passing runs:

| run | shows | bounds |
|---|---|---|
| `SchedText` | safety and refinement of `ProcLife` in text mode, and the inductive invariant `TextInv` | pids to 5: a process can fork twice, lose a thread and be followed by another process; a time slice of 1 with ticks wrapping at 4, so that a tick may find the slice over or not |
| `SchedLive` | ended processes are reaped, the loop in `schedule` ends, every runnable thread runs | pids to 4 (liveness checking is costly), allocations may fail |
| `SchedGui` | the process ring and contexts in GUI mode, up to the first removal | pids to 4, allocations may fail |
| `MemShared` | kernel space reserved, frames a process's own, threads apart, no fork without page table; the inductive invariant `HoldInv` | memory of 24 blocks: two processes' worth is not available, so it fills up; pool of 18: runs out after some starts; programs of every shape, one that ends with its page and invalid ones too; 4 threads; exceptions that end the process or the machine |
| `MemLease` | refinement of `FrameLease` and its inductive invariant `LeaseInv`; `used_blocks` is exact; stacks after the image | programs with one-page segments; 24 blocks, so memory fills up when threads are forked |
| `Heap` | blocks held do not overlap until a tight split, the counter covers what is held (a process' until it forks); the inductive invariant `HeapInv` | a kernel heap of 20 bytes (10 headers of memory) and a process' heap of 10 (13 headers), headers of 2, lengths 1 and 2, three handles, a main thread and a second one that comes and goes: a heap fills up to its end and beyond, blocks are split, freed in every order and by either thread, merged and taken again; words modulo 40, so that a counter wraps; the constraint `OneSide` looks at the kernel heap and the process separately, which share nothing, and leaves a process alone that has forked and then had a tight split, of which no property speaks |
| `Fat` | files read as their chains and to the end; commands in the root change only the file that their line becomes the name of; names stay unique | two root sectors of two entries, four clusters of data, sectors of five bytes, so that FAT entries lie across bytes and sectors; limits scaled so that four clusters are the most of a FAT12; eight machines: floppies with a full root, a directory with a namesake, two files, no file system; no hard disk, one that is no disk, one that never answers, one as slave, FAT16 ones of 11 sectors and of a number that 16 bits do not hold; a short name and one of eight letters, each with and without a text after it: the long one becomes the same 8.3 name with the text, the short one another |
| `Floppy` | the controller is at rest after each call, reads get their sector, a changed sector is the only one that changes on the disk, calls return | three sectors to a side and two cylinders: transfers end before the track does, at its end, and on either side; sectors 0, 2 and 10 are asked for; two attempts, each of which may fail; a transfer may stop after its first sector; one write; no drive, either, both, heads anywhere |
| `Ps2` | characters in the order of the codes and once, the pointer where packets lead | three codes of three keys - a letter, the point (which counts on release) and the key past the end of a row - of which two can be held down, repeated and released; two packets with and without buttons, overflow and movements of more than 127, whose bytes are codes of keys too; a screen of 20 by 6, so that movements clip |
| `Console` | the screen shows the line, outside video memory, only backspaces for no character of a line, and what follows them, are written | a screen of three lines of four characters, lines of five characters after a prompt of one: a line wraps and scrolls, and backspaces cross the edge again; strings that end their line, go back two cells, or begin the line anew; the cursor may go back one cell before video memory (`MaxBack`) |

Runs that show a disagreement between the code and what a comment says of it:

| run | the code |
|---|---|
| `SchedLostPid` | `start_proc` may return the pid of a forked thread; when that exits, `proc_state` reads through NULL |
| `MemSecond` | the second process started cannot reach its pages: the cloned directory entry lacks the user flag |

The models contain more of the kind, which have no run of their own. The properties are stated so as to say what holds in spite of
them, and name the condition where it does not.

*Scheduler.* In GUI mode removing a process moves `list` away from the console that is running, and the next tick saves the console's
context in the draw thread; `ContextsBeforeRemoval` is about the time before that.

*Memory.* With a full memory `pmm_malloc` returns the last page of the address space, since it tests for 0 what `pmm_first_free` reports as
-1 (`NoBlock`). Page tables are never given back, since `page_table_free` computes an index outside its bitmap (`FreeTable`). All pages of a segment
are mapped to the frame of the first one, and the frames of the others stay allocated after the process was removed (`LeaseInv` is therefore
about one-page segments). The part of a segment beyond its file contents is cleared through the loading space, where only the pages of the file part
are mapped: a bss that goes further faults in the kernel (`CopySegment`'s panic, a branch that `MemShared` takes). The second header of a
heap is written sixteen times as far as sizes count: the kernel's chain runs into the paging structures when a sixteenth of the heap was given out, and a process' beyond its pages (`TakeBeyond`, where `Heap` ends). After a fork the threads
count what they take from the one chain in copies of one counter, so that none of them covers what is held and one may wrap (`UsedCoversHeld` is about the time before). The pool of page tables runs dry for good (`NoAddressSpace`), which no property forbids. The models do not cover three
more: the TLB keeps a page that `vmm_unmap` removed, a file of more than 1 MB is loaded beyond the loading space, and `sched_on` is compared as four bytes.

*Files.* `write` looks for a file named by name and text (`Lines`), so that a file with a short name and no extension is not found. A file made with `touch` has cluster 0, and writing to it overwrites a sector of the root directory
(`RootCommandIsLocal` is about files with a cluster). A large disk is taken for an exFAT, on which reading never leaves the first cluster
(`ReadsContents` and `ReadingEnds` are about files with a cluster on drives laid out like a floppy: `Standard`, with the root just before the data). A drive without a file system stays mounted. All hard disks read as the primary
master, through a wait on the wrong port, and cannot be written.

*Floppy.* Called in a system call, with interrupts off, `floppy_wait_irq` never returns (`CallReturns` excludes it). `cur_drive` is set after
a drive is mounted, and stays at the last one: with two drives all reads are of one (`ReadGetsSector` is about one drive). The motor is switched off
before the transfer. The result of a transfer is not looked at: a read that failed returns the buffer as it was, and a write reports a failure
always. A write of a text writes the sectors after it too, with what the buffer holds (`UpdateIsLocal` is about sectors that were read, changed and written).

*Keyboard and mouse.* The keyboard's handler takes whatever is in the buffer, a mouse's byte too (`stolen`). A packet with an overflow bit leaves the
handler at the third byte for good, a movement of 128 or more moves the pointer the other way, and a late answer to `mouse_init` shifts packets (`astray`). The point and the slash count when they are released: `KeysInOrder` is
about the order of codes, not of the keys going down - a letter pressed while the point is held comes before it - and a key that is held repeats, these two do not. A key that comes while the reader is between its
two calls is lost, which `KeysInOrder` permits, too: it says that what arrives is in order, once for each code.

*Console.* A backspace that a process or a file prints, or that `gets` echoes at the start of its line, goes back over what was there before, and at the top, after a `clear` say, it is written before video memory, and so is what follows it (`erased`, `overrun`):
`StaysInVideoMemory` permits these and excludes all others, and `LineShown` is about lines that begin on the screen and that `gets` has not gone back beyond. The console's
buffer of 64 bytes is filled without a test; `MaxLine` keeps the model below it.

`Heap`, `Fat`, `Floppy`, `Ps2` and `Console` allow deadlock, since their inputs are bounded or the machine may halt. The
other passing runs check deadlock as well.

Bounds are named constants (`MaxPid`, `MaxThreads`, `LastPage`, `MaxFile`, ...). The proofs below hold
for all of their values; the runs need values with which each case happens: full memory, exhausted pool,
freed structures, wrapped counters.

Fairness (`SchedLive`): the timer interrupt and the iterations of `schedule`'s loop are weakly fair, since interrupts
are on in user code and in the console and nothing else can happen in the loop. The console's steps (boot, polling, removal)
are strongly fair: each is enabled whenever the console has the processor, and a thread that is given the processor
again and again for a time slice executes its next instruction. Nothing is assumed of user threads, which may loop
for ever, or of the commands that are typed; `EveryThreadRuns` says only that threads get the processor, and that ended
processes are reaped assumes nothing of the processes.

In `Floppy` (`CallReturns`) the driver, the controller and the interrupt are weakly fair: the driver is the code that is running, a command that the
controller has accepted ends with or without an error, and the interrupt is taken where interrupts are on.

In `Fat`, reading is weakly fair: the loader reads sector after sector, and `console_read` waits for a key between
two of them, which the user is assumed to press. `ReadingEnds` is about files that have a cluster; one of cluster 0 follows the media byte's
entry beyond the disk, where it may read for ever.

Every property has a mutant in `PROJECT.json`: a definition that stands next to the original in the
module, and stands for a plausible mistake (a dropped guard, a swapped order), with which TLC finds
the property violated.

## 4. Proofs

`tlapm` checks all of them; `SchedulerProofs`, `ProcMemProofs`, `HeapProofs`, `FatProofs`, `FloppyProofs`, `Ps2Proofs` and `ConsoleProofs` hold the theorems.

**Scheduler, text mode** (assumption `TextMode`; any bounds and time slice, with and without
allocations that fail). `TextInv` is inductive: `TextInvariant`. It says, for every point the console
can be at, where the process under construction or removal is, what `list` may be, and which structure
holds the context of each thread. It is needed because the properties relate the processor to structures that only
the history of ring operations ties together: that `list` is the console's process during `sched_remove_proc`, say,
follows from the fact that in text mode there are two processes at most and the other one has
ended. The thread ring is a sequence that the successor function follows (the first section of `SchedulerProofs`), so that adding and removing a
thread are insertions and deletions. One lemma for each action; `get_proc_by_id`'s walk finds the first
match by a least-number argument. From it: `TypeCorrect`, `ContextsAreOwn`, `CpuAgrees`, `ResumesLive`,
`ReapsAll`, `EndsAreFinal`, `SchedulerStaysOn`, and `RefinesLife` (refinement of `ProcLife`). `RingOfThreads` states `ThreadRing`
for any number of forks and exits: a walk of *n* hops from any thread of a sequence of *n* visits each of them, which is an induction on the hops
(as a least counterexample), and `ConsoleRing`, a second invariant, keeps other threads out of the console's own ring.

**Scheduler, both modes** (no assumption about `TextMode`). `ContextInv` is inductive: `ContextInvariant`. The number of processes is not bounded by two any more, so it says of each thread
and each process only where its own links lead (`Links`), and what the console relies on where it is (`Facts`). Beside that one of four things holds. `Agree`: the globals and the CPU agree. `Astray`: `sched_remove_proc` has moved
`list`, and the console goes on in what is left of its slice. `Doomed`: the tick that ended that slice saved the console's context in a thread of another process. `Lost`: nothing is known.
An invariant about the time before the first removal alone would not be inductive, because `Facts` rests on links that removals change; and one that allows a removal has to follow the machine until it is lost.
What does it is the order of the ring: a process is linked in after the console and has a pid above all others, so pids fall from the console's successor on, and whatever
thread runs next, `list` comes to the console before it comes back to the thread that has its context. The console's own structure is stale then, and loading it is undefined. `ContextsUntilRemoval` states `ContextsBeforeRemoval`.

**The process ring, both modes.** Beside `ContextInv`, `RingInv` is inductive: `RingInvariant`. It says that the processes are a sequence that begins with the console's, that `next` and `prec`
lead round it, and that `n_proc` is its length, statement by statement while `sched_remove_proc` unlinks a process: `next` skips it first, `prec` and `n_proc` follow (`Back`). Which
statement the console is at counts only as long as it will go on there (`Place`): once its context lies in another process's thread, it will not. The insertion and deletion lemmas of the
thread ring are used again. What had to be found is `RemovesCur`: the console is at those statements only while `list` is its own process, or else the tick that strikes between
two of them would leave the ring cut for good. It holds because the process that `remove_proc` is about has left the ring when `list` has moved, so that `get_proc_by_id` finds nothing
to unlink in later rounds of the loop. `RingOfProcesses` states `ProcRing`. `RingInv` passes on the instances of `SchedText` and `SchedGui`, too.

**Memory, any programs** (assumptions `BlockAssumption`, `LayoutAssumption`, `RegionsAssumption`: sizes are naturals, the stride between
stacks has room for a thread's pages, programs lie in the program area, the memory map is a sequence of regions). `MemInv`: kernel space is in the bitmap, frames in
the directories are not in kernel space, thread numbers grow with the counter. The point of it is that
`pmm_malloc` for a full memory sets a bit that kernel space has set already. From it
`KernelIsReserved`, for every memory map, including one that is misread beyond its end, and
`ThreadsStayApart`, which is number theory on the layout: a page of thread *m* is `B + S*m + k` or `B + 2*S*m + k`, and two
of them differ because no multiple of the stride is strictly between 0 and the stride. `HoldInv` adds what the bitmap owes to a process: the
frames of its user pages are marked used, and a frame serves two pages only within a segment (`FramesOwned`); the pages of the file that
were loaded, and the frame that a segment's later pages are mapped to, are marked too (`FileHeld`, `SourceHeld`), since a frame
that was freed early would be handed out again a few steps later; and from the first page of an image on
both directories have a table for the area (`TablesMade`). `HoldInvariant` proves it inductive, programs with overlapping
segments and pages that are mapped twice included; `FramesAreHeld` and `ForksHaveTables` follow.

**Where the stack begins** (`Orderly`: a program's entry point is its lowest address, at a page boundary, and no segment ends after the last one, as the linker
script of the shipped programs has it). `StacksFollowImage`: the image's size, computed from the entry point and the last segment, is large enough. For other programs it need not be.

**Memory, programs with one-page segments** (`OnePageSegments`, and `EnoughTables`: seven page tables, 512 in the code).
`LeaseInv` adds: every frame in a directory is a frame of the machine or none, each lent frame has one
borrower, the pages mapped are exactly those that loading and building went through, and the used
frames are the lent ones. The refinement `RefinesLease` follows: `LentStep`
says that a step lends one free frame or takes some back. The invariant needs `PagesMapped`, since `remove_proc`
computes the pages to free from the program and the number of threads and not from the directory. `CountIsExact` also assumes `NoGaps`, no
page of the image outside its segments: `remove_proc` frees every page of the image from its first to its last, and what it frees of a page that was never mapped
is counted. It follows the counter modulo its width from step to step, against the cardinality of what is mapped and loaded.

**Heaps, any sizes, lengths, threads, forks and order of calls** (assumption `HeapAssumption`: the header's size is positive, sizes fit in
a word). The theorems are about the kernel's chain and the one that a process' threads share, up to the header that is written beyond a heap's memory (`TakeBeyond`), after which nothing happens
in the model. `HeapInv`: in a heap that is not `tight`, blocks lie one after another, a link leads to the block that begins where the one before ends, no
block goes beyond `Size(h)` headers, and what is held is a block in use, of the length that was asked for, held once, and its header and the one after it lie below `End(h)`; the operation in progress is at
a block. It is needed because `kmalloc` looks at a header's flag only: that the block of a free header does not reach into a block in
use is a fact about all of them. `HeapInvariant` proves it inductive, `BlocksStayApart` derives `ApartUntilTight`.

**What is used covers what is held** (assumption `LedgerAssumption`: finitely many handles, and heaps of at most half of the word; they are 16 KB for
a thread and less than 2 MB for the kernel). `Ledger` speaks of those whose count is of a whole chain (`Keepers`): the kernel, and a process' main thread until there is a second one. It says
that the count is at least the sum of what is held in the chain, with a header for each block and one for the heap, and that a search goes on
only in a heap whose count is below its size, without which taking a block could wrap the count. It claims nothing of a process that has forked: its threads count in copies of one count, each on its own, and
none of these covers the chain, nor does their sum. `LedgerInvariant` proves it inductive, with lemmas on sums over finite sets (a sum changes by what
one term changes, and is a natural number); `UsedCovers` follows. `Ledger` passes on the instance of `Heap.cfg`, too.

**Floppy, any disks, number of attempts and writes.** `FloppyInv` has four parts: types; `Handshake`, what phase the controller is in, which interrupt waits or is counted and
what there is to sense, for every place the driver can be at; `Serving`, which request and which result belong to that place; and
`CleanRead`, that after a read without error the buffer has what the disk has, from the sector asked for on. `Handshake` is needed because the driver counts interrupts
and does not ask which command they are of: one left over from a failed command would be taken for the answer to the next. From it `DriverAtRest`,
`ReadsGetTheirSector` and `UpdatesAreLocal`.

**Files, any floppy, size of the root and of the disk, names** (assumption `FatAssumption`: a floppy has all the sectors up to its last cluster, names that are
typed become names that are neither free nor junk). `FatInv` is small: the floppy keeps its sectors, and once the console can be in its root the place of the root is known,
which comes from `fat_mount` at boot. The work is in lemmas about the operators: `PutAt` (writing an entry changes the entry of that place and no other), `DataAt` (text in a sector reads as
an entry nobody named), `FirstIsOne` (the two nested loops stop at one of the slots they look for: a lexicographic least-number argument). From them
`RootCommandsAreLocal` and `NamesStayUnique`, action properties of every step, also where a file of no cluster is written over the root.

**Reading files, any disk, sector length and FAT** (assumption `FilesAssumption` besides: the drives that have the layout of a floppy are formatted - `WellFormed`: each data cluster has
its sector, and its FAT12 or FAT16 entry has its bytes before the root - and an entry says free, end of file or a data cluster, without a cycle: the clusters can be
ranked so that each leads to a lower one. On a FAT with a cycle `fat_read` never sets `eof`, and there is no content to compare with). `FilesAreRead` states `ReadsContents`. Three parts:
that the clusters after the first one are a sequence that ends within the disk (`ChainIs`, from the rank); that what `fat_read` unpacks is
the entry (`NextIs`: two halves of shared bytes for a FAT12, with the bytes on either side of the edge of a sector for every `SECTOR_SIZE`, and the kind of FAT that `fat_mount` guesses
is the one the drive was formatted with, `Guessed`); and the invariant `FilesInv`: what is known of a mounted drive is what mounting it now would find
(`DrivesKnown`), and an open file is at some cluster of its chain, with the sectors before it read (`ReadTo`). `DrivesKnown` is what makes it inductive: it needs that
no command writes a boot record, and none before the root (`Rewritten`) - an entry goes to a slot, text to sector 31 plus a cluster, and clusters 0 and 1 are still
in the root - and that a file that is found begins with one of the disk's clusters (`ResultCluster`).

**Mouse, any packets, screen and keys** (assumption `Ps2Assumption`: packets are three bytes, the first with bit 3 set, which mice always set). `PointerInv` is inductive:
`PointerInvariant`. The position wanted, `want`, moves by the nine-bit movements of each packet (`Dx`, `Dy`) and does not use what the handler computes. Besides types the invariant says (`InStep`) that unless a byte was stolen or a packet went astray -
one with an overflow bit or a movement of 128 or more, or a late answer to `mouse_init` -, `mouse_cycle`, the bytes kept in `mouse_byte` and the pointer agree
with what the mouse still has to send and what the buffer holds: the position wanted is the present one plus the movement of the packet under way. It is needed because
`PointerFollows` speaks of the moment when all has been sent only, and nothing in the handler says which packet its bytes are of. From it `TypeCorrect`
(the pointer stays on the screen whatever bytes arrive) and `PointerIsFollowed`.

**Keys, any keys held down together and repeated, and any packets.** A code's number is its place in `sent`. `KeysInv` says that a keyboard's byte in the buffer is the code of its number (`ByteOfKey`), and of characters, as long as nothing was stolen, that
each is of the code with its number, pressed or released as that key counts, that their numbers grow from one to the next and those in `lastkey` and with the reader come
after all that were taken (`InOrder`), and that no character of the code in the buffer or a later one is known yet (`Once`). The last
part is what makes it inductive: the handler may run between any two steps of the reader. `KeysArriveInOrder` follows.

**Console, any screen, prompt, output and lines** (assumption `ConsoleAssumption`: prompt and line fit on the screen with a row to spare, 64 bytes and a prompt of a few on 25 rows of 80; the prompt has no
control characters. Nothing is assumed of the strings that commands, files and processes print). `ConsoleInv` says that the cursor, `W * y + x`, is the end of the text: the cells before it hold the prompt and the line. `x` alone
says nothing, since it is negative after a backspace over the left edge and `W` after the last column, until `check` runs with the next character. Once the line has begun before the screen, or `gets` has gone back beyond it (`overrun`), the invariant says of the cursor only that it is not below the screen or beyond the end of its row. The lemmas say
what `check`, `scroll`, a character, a backspace and a line feed do to text that ends at the cursor; that `printk_string` keeps the screen in order, and appends what it prints,
is an induction on the characters (as a least counterexample). From it `ConsoleInvariant`, `LineIsShown` and the action property `VideoMemoryOnly`, with a line of its own in the proof of each step (`Kept`).

Only model-checked: liveness under fairness, which is beyond the prover (`EndedIsReaped`, `ScheduleReturns`, `EveryThreadRuns`, `ReadingEnds`, `CallReturns`). Every other property
of the passing runs is stated by a theorem.

## 5. Not modelled, and the plan

`PROJECT.json` lists every component and what is left out of it. Not modelled, because no state of another part depends on it:
the graphic modes, fonts, windows and their text area, sound, real-mode calls, the tables written at boot, `ls` and
the other commands that print, and the C library's strings and formatting, whose one conversion that matters
to the file system is in `Fat` as `Dos`. The dispatch of system calls is a lookup in a table; what the calls do is in the modules of their components.
Not modelled, because it is a matter of time: bytes that the floppy controller does not take in 500 polls, and the delays of its motor.
Directories more than one deep, the TLB, and programs of more than 4 MB are left out to keep the models small.

Next: directories at any depth in `Fat`, and a second page table in `ProcMem`.
