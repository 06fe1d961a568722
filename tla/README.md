# A TLA+ model of the pristine kernel

pristine is a small x86-64 operating system: a BIOS boot loader in two stages, a
single-CPU kernel with preemptive round-robin scheduling, a bitmap page allocator,
4-level page tables, a slab allocator, a read-only file system (BSFS) over ATA PIO,
and a user space with a C library. This directory models the parts of it where
steps of several actors meet, checks them with TLC on small instances, and proves
the central properties of the scheduler with TLAPS for any number of processes.

## The system and its parts

| Part | Source | Module | State |
|---|---|---|---|
| Scheduler, reaper | `kernel/kernel/scheduler.c`, `reaper.c` | `Scheduler`, `ProcessLifecycle`, `SchedulerProofs` | all but one store modelled (see `Dispatch` below), proved |
| Process creation, save, resume, destruction | `kernel/kernel/process.c`, `process.h` | `Scheduler`, `AddressSpace` | partly: registers other than rip and IF, CR3, rsp0 are missing |
| System calls exit, yield, sbrk | `kernel/kernel/syscall.c` | `Scheduler`, `AddressSpace` | partly: the stub's stack switch is missing |
| Interrupt entry | `kernel/interrupt.asm`, `kernel/idt.c` | `Scheduler` | partly: vector 0xFF and the interrupt flag |
| Idle process, halt | `kernel/kernel/idle.c` | `Scheduler` | partly: the drawing loop is output |
| Page allocator | `kernel/kernel/pmm.c`, `kernel/bitmap.c` | `AddressSpace` | partly: set-up from the memory map is missing |
| Page tables | `kernel/kernel/vmm.c` | `AddressSpace` | partly: 4 KiB pages only |
| Kernel start | `kernel/kernel.c` | `Scheduler`, `AddressSpace` | partly: from the creation of the processes on |
| LAPIC timer | `kernel/kernel/lapic.c` | `Scheduler` | partly: as an interrupt; not the calibration |
| ELF loader | `kernel/kernel/elf.c` | `AddressSpace` | partly: as the pages it maps |
| User C library | `userspace/libc` | `AddressSpace` | partly: how it uses sbrk |
| Slab allocator, kmalloc | `kernel/kernel/slab.c`, `kmalloc.c` | - | planned |
| Memory map and early marking | `kernel/common/memmap.c`, `kernel.c` | - | planned |
| BSFS reading | `kernel/common/bsfs/bsfs.c` | - | planned |
| BSFS tools | `tools/bsfs` | - | planned |
| ATA PIO | `drivers/storage/ata/atapio.c` | - | planned |
| Boot loader | `boot` | - | straight-line firmware calls; what it hands over is part of the planned `BootMemory` |
| GDT, printf, serial, video, image tools | | - | not modelled: encoding and output |

How they interact: `kmain` creates the idle process, the reaper and the programs, adds
all but the first to `process_list`, and starts the LAPIC timer. From then on the timer,
or `int 0xFF` from `scheduler_yield`, enters `scheduler_loop` with interrupts off. A
program exits by marking itself DEAD and yielding; the next scan of the list moves it
to `process_list_reap`; the reaper, an ordinary kernel process with interrupts on, takes
it from there, calls `process_destroy` and `kfree`. System calls run with interrupts off
(IF is in SFMASK), so among themselves they are atomic; against the reaper they are not.

`PROJECT.json` lists the hazards of the code, each at its line, with the properties that
cover it or the planned module that will.

## Module `Scheduler`

Source: `scheduler.c`, `reaper.c`, `process.h`, exit and yield of `syscall.c`, the end of
`kmain`. Variables with the names of the source are the source's variables and locals
(`process_list`, `scheduler_next`, `current_process`, `loops`, `process_to_continue`,
`process_list_reap`, `reaper_cursor`, `process_to_reap`). The others are:

- `mode`: `"kmain"` (booting), `"run"` (a process executes), `"scan"` (the loop of
  `scheduler_loop`) or `"dispatch"` (what follows that loop);
- `cpu`, `frame`, `context[p]`: program point and interrupt flag in the CPU, in the
  interrupt frame, and saved in a process;
- `state[p]`, `memory[p]`: the state field, and what became of the structure and the address
  space (`none`, `live`, `destroyed`, `freed`).

Actions, in the order things happen: `KmainIdle`, `KmainReaper`, `KmainProgram`, `KmainStart`;
`Timer` (whenever IF is set), `syscall_yield`, `syscall_exit` and `ExitYield` (its two
statements; a kernel program can be interrupted between them); one iteration of the scan
(`ScanEmpty`, `ScanDead`, `ScanPick`); `Dispatch` (save, pick, jump; the store to
`cpu_state->kernel_stack_top` is left out, since `kmain` gives every process the same
`PROCESS_VIRT_KERNEL_STACK_TOP`); the reaper, one
statement per step (`ReaperCli`, `ReaperRead`, `ReaperClear`, `ReaperAdvance`,
`process_destroy`, `ReaperFree`, `ReaperYield`, `kernel_halt`); `Undefined`, the behaviour
behind a `__builtin_unreachable()` that is reached.

`kmain` loads one user program today. The model takes sets of them: ring-3 programs
(`Users`, of which `Yielding` call SYS_YIELD) and kernel-mode ones (`Kernels`), because
the lists, the scan and the reaper are written for `SCHEDULER_MAX_PROCESSES` of them.

`ProcessLifecycle` is what all this is for: one running process at a time, only the running
process exits, exit is final, and what exited is taken down once, off the CPU.
`Scheduler!Lifecycle` is that specification under the mapping `Phase`.

## Module `AddressSpace`

Source: `pmm.c`, `bitmap.c`, `vmm_map`, `vmm_free` and `vmm_destroy` of `vmm.c`, `process.c`,
`syscall_sbrk`. `mem` holds the bitmap as the set of marked frames, the entries of all
tables (also of frames reused as tables later), and the panic that stopped the machine.
The functions of `pmm.c` and `vmm.c` are operators from `mem` to `mem`; what runs with
interrupts off is one step built from them (`Create` in `kmain`, `syscall_sbrk`).

`process_destroy` is not one step: `reaping` holds the position of its loops (a stack of
table and index, one per nested loop of `vmm_destroy`), and each frame given back is a
step, with anything a program can do in between. The turns of its loops that find an
empty entry are taken together with the step before: they only read tables that nobody else
writes. With `ONE_STEP` FALSE even one `pmm_free` is two steps, the load and the store of the
bitmap byte (`DestroyLoad`, `DestroyStore`), as the `-O0` build has it; with `ONE_STEP` TRUE it
is one (`DestroyFree`). That the `-O2` build changes the byte in one instruction is an
assumption about what the compiler generates; nothing in the source asks for it.
Clearing the entry of the kernel stack page behind its `pmm_free` is merged with it: the
table it is in is never given back, so nobody else can see the difference.

`brk` is an unsigned word, modulo `WORD`, and so are the sum `brk + request` (`NewBrk`), its
rounding (`PageUp`) and the page count of a growing request; the PML4 index is masked. So
`TooLow`, like `syscall.c:40`, does not refuse a request below `-brk`: the sum wraps to a high
address. `vmm_free` tests three of the four levels; where the PD entry is absent it
takes the memory at physical address 0 for the page table, as the code does, and what is
there is any choice from `LowWords`.

`Moderate` says that no request is below `-brk_start`, so that no sum wraps. `NoAlias`,
`KernelIntact`, `HeapExact`, `PageAccounting`, `OnlyOutOfMemory` and `Isolation` are stated under
it: what the code does with other requests is in the model, and run `sbrk_wrap` shows where it leads.

A growing request is not limited by the code either. `SizeAssumption` bounds the frames
instead: the bitmap is indexed by a `uint32_t` (`pmm.c:25`), which makes at most 16 TiB of
frames, and there are almost 128 TiB between the image and the user stack. So memory
runs out, with a panic, before the heap reaches the stack. The model keeps that
proportion and `HeapExact` checks the consequence.

Scaled down: `FAN` entries per table instead of 512, a PML4 with two entries for the user
half, one for the kernel stacks and one for the kernel's tables, one page for each
of the two stacks and for the image, `PAGE` bytes per page, `KERNEL_FRAMES` for
everything the kernel keeps for ever (the idle process and the reaper included). Left
out: the slab page of the `Process` structure, page flags, the TLB (one CPU, and
`vmm_free` invalidates), large and huge pages (no process has any), the assertions on the
alignment of addresses (the model counts in pages).

## What is checked

| Run | Instance | Shows |
|---|---|---|
| `scheduler` | 4 slots, 2 user programs (1 yields), 1 kernel program; 115 thousand states | `TypeOK`, `SingleOwner`, `NoDangling`, `ReapOnlyDead`, `ExitNeverReturns`, `ReaperNeverFull`, `IdleNeverRuns`, `NoLostProcess` |
| `scheduler_live` | 3 slots for the reaper and 3 programs, fair | `NoStarvation`, and `LifecycleLive`: `Scheduler` implements `ProcessLifecycle` with its liveness, so every exited process is reaped |
| `scheduler_yield` | 3 slots, 1 yielding program | violation of `YieldNeverReturns` |
| `address_space` | 34 frames, 2 programs, no assertions, `ONE_STEP`; 311 thousand states | `TypeOK`, `NoAlias`, `KernelIntact`, `HeapExact`, `PageAccounting`, `Isolation` |
| `address_space_debug` | 26 frames, 1 program, with the assertions, not `ONE_STEP`; 82 thousand states | `HeapExact`, `PageAccounting`, `OnlyOutOfMemory` |
| `address_space_race` | 34 frames, 2 programs, not `ONE_STEP` | violation of `AllocReturnsFree` |
| `sbrk_failure` | 1 program | violation of `SbrkFailureIsMFAIL` |
| `sbrk_wrap` | 1 program, requests below `-brk` | violation of `FreesOnlyMapped` |

### Bounds

*Scheduler.* Four slots hold the reaper and three programs, so lists are full, empty and
sparse, the cursor wraps, and several programs can be dead at once, one in the
reaper's hands, one queued, one on the CPU. In `scheduler_live` a program more
than fits is created, so `scheduler_add_process` fails.

*AddressSpace.* `FAN` is 3: the image is not under the first PD entry, the heap begins in
the image's page table and crosses into another with its second page. `PAGE` 2 and
requests of -3 to 3 bytes round in every way, go up and down, and are refused. The debug
run adds the lowest request that is `Moderate` and one for more pages than there are frames. `BRK_MAX` bounds
the exploration, not the code: with two programs it stops a heap at its second page;
in the other runs it is `WORD` and cuts nothing. 34 frames do for two programs
but not for two full heaps, so running out of memory, also inside `vmm_map`, happens; freed
frames are reused at once because `bitmap_find` returns the lowest. `BYTE` is 8, as in the
source.

### Fairness

Weak fairness of the timer, of boot, of the scan and of the dispatch: the LAPIC is
periodic and the CPU executes. Weak fairness of `ExitYield`: a program in
`syscall_exit` goes on unless the timer takes the CPU away, after which it is dead anyway. Strong fairness of the reaper's steps: it is interrupted again and again, but each
turn is a 10 ms quantum, long enough for a step. Programs are not assumed to do
anything: they may loop for ever.

### What disagrees with the code's own words

- `syscall.c:33`: SYS_YIELD has `__builtin_unreachable()` behind `scheduler_yield()`, and the
  scheduler resumes the process exactly there. (`syscall_exit` has the same line, and
  there it is right: `ExitIsFinal`.)
- `syscall.c:40`: `brk + request` is unsigned, so a request below `-brk` is not refused. When it wraps
  into the last page, `ALIGN_UP` wraps again and the loop calls `vmm_free` from page 0 on,
  against the assertion `vmm.c:313` ("PT at %u is not present"); further below, nothing is freed
  and `brk` becomes the wrapped address.
- `bitmap.c:21`: in the `-O0` build the reaper's `bitmap_clear` can be interrupted between load
  and store; an sbrk of another program in between loses its bit, and the next `pmm_alloc`
  does not return "a free page address" (`pmm.c:23`). This takes a second program, which
  `kmain` does not load yet; with one, the `address_space_debug` run finds no fault.
- `syscall.c:41`: a refused sbrk returns 0, where `malloc.c:1645` requires MFAIL.

Two results are worth knowing although nothing contradicts them: the fallback to the idle
process is never taken, since the reaper is always listed (`IdleNeverRuns`), and the reap
list is never full (`ReaperNeverFull`), so the retry that `scheduler.c:43` provides for never
happens. `PageAccounting` states a leak exactly: three frames for each
destroyed process, the tables that map its kernel stack, which `vmm_destroy` skips with the
upper half.

## What is proved

`SchedulerProofs`, for any `MAX` > 0 and any finite or infinite sets of programs, from
`MaxAssumption` (there is a slot) and `ProcAssumption` (users, kernel programs, reaper, idle
and NULL are different things):

| Theorem | Property |
|---|---|
| `TypeCorrect` | `TypeOK`: the reaper's index included |
| `Ownership` | `SingleOwner`: in one slot of one list, or in the reaper's hands |
| `MemorySafety` | `NoDangling`: no list, pick or `current_process` points to destroyed or freed memory |
| `ReapsTheDead` | `ReapOnlyDead` |
| `ExitIsFinal` | `ExitNeverReturns` |
| `NothingIsLost` | `NoLostProcess`, an action property |
| `Refinement` | `Spec => Lifecycle`: `Scheduler` implements `ProcessLifecycle!Spec` |

The argument is one inductive invariant, `IInv`, proved preserved by one lemma per action
(`<Action>_Step`) and put together in `NextInv` and `Invariance`. Besides the properties
themselves it needs:

- `CriticalInv`: between the reaper's cli and sti the CPU is the reaper's and IF is clear,
  no saved context stands there, and before the clear `process_to_reap` is still what the slot
  holds. Without it `SingleOwner` is not preserved by `ReaperClear`.
- `PickInv`: the pick of the scan is listed and not DEAD until the dispatch, and the scan's
  counters are in range. Without it `Dispatch` could revive a dead process.
- `ExitInv`: the points behind `state = PROCESS_DEAD` belong to a DEAD current process and are
  never saved; the reaper and the idle process never exit.
- `RunningInv`: only `current_process` is RUNNING. The refinement needs it.
- `KmainInv`: the reaper takes no step during boot.

`NothingIsLost` and `Refinement` follow step by step from `IInv` (`HeldStep`,
`LifecycleStep`).

Only model-checked: the liveness properties (`NoStarvation`, `LifecycleLive`), which are out of
the prover's reach; `ReaperNeverFull` and `IdleNeverRuns`, whose proofs need counting and
a progress measure of the scan; everything about `AddressSpace`.

## Plan

1. `ContextSwitch`: GS base, CR3, rsp0, `gs:0x10`, ring and stack at every entry and exit;
   property: a process resumes with its own stack, address space and GS. Refines the
   dispatch of `Scheduler`.
2. `Slab`: free objects in a page, the two lists of a bin, the page given back; abstract
   specification: a set of live objects, never one twice. Real object sizes for the
   terminator. Theorems: no object handed out twice, the counts agree.
3. `BsfsRead`: fread, fseeko and the caches against the bytes of the file, reads that
   straddle blocks; path resolution.
4. `BsfsImage`: blocks, megablocks, inodes, directory entries; what populate writes is what
   extract and `BsfsRead` read.
5. `AtaPio`: the driver and a drive that may be busy, fail, or drop DRQ.
6. `BootMemory`: the memory map, the marking and the allocations of `kmain` in order.
7. `Calibration`: PIT ticks, the handler and the loop that waits for it.
8. `ElfLoad`: segments to pages, against the bytes the program header asks for.
9. Proofs: `ReaperNeverFull` and `IdleNeverRuns`; `NoAlias` for a version of `AddressSpace` with
   the tables abstracted to sets of owned frames, which the detailed one refines; `Slab`.
