---------------------------- MODULE AddressSpace ----------------------------
(***************************************************************************)
(* Physical pages and page tables: the frame bitmap (pmm.c, bitmap.c), the *)
(* 4-level tables (vmm.c), process_create, sbrk and process_destroy.       *)
(*                                                                         *)
(* System calls run with interrupts off, so sbrk is one step.  The reaper  *)
(* runs process_destroy with interrupts on: it may be preempted between    *)
(* any two frames it gives back and, unless ONE_STEP, between the load and *)
(* the store of the bitmap byte it changes.                                *)
(*                                                                         *)
(* Sizes are scaled down: a table has FAN entries, a bitmap byte BYTE      *)
(* bits, a page PAGE bytes.  Virtual addresses are in bytes for brk, where *)
(* they are unsigned words modulo WORD, and in pages everywhere else.      *)
(* Frame 0 is never free, so entry 0 means absent.                         *)
(***************************************************************************)
EXTENDS Naturals, Integers, FiniteSets, SequencesExt, FiniteSetsExt

CONSTANTS
    FRAMES,    \* number of page frames the bitmap covers
    BYTE,      \* bits per bitmap byte
    PAGE,      \* bytes per page
    FAN,       \* entries per PDPT, PD and PT
    Procs,     \* processes kmain creates
    Requests,  \* arguments of SYS_SBRK
    BRK_MAX,   \* bound of the exploration: no request takes brk beyond it
    LowWords,  \* what an entry of a page table at physical address 0 may read as
    DEBUG,     \* PRISTINE_DEBUG: the assertions
    ONE_STEP   \* the compiled bitmap_clear changes the byte in one instruction

Frames == 0 .. FRAMES - 1
SPAN   == FAN * FAN * FAN    \* pages under one PML4 entry

\* PML4 entries: the user half, the private one that ends at
\* PROCESS_VIRT_KERNEL_STACK_TOP and, last, the kernel's (shared by everybody).
HALF        == 2
STACK_IDX   == 2
KERNEL_IDX  == 3
PML4_SIZE   == 4

\* uintptr_t: the addresses that the four levels translate.
PAGES == PML4_SIZE * SPAN
WORD  == PAGES * PAGE

\* The image of a program: one code page, not under the first PD entry, a guard
\* page, then the heap; the stacks are the last pages of the user half and of
\* the private entry.
CODE             == FAN
brk_start        == (CODE + 2) * PAGE
USER_STACK       == HALF * SPAN - 1
KERNEL_STACK     == (STACK_IDX + 1) * SPAN - 1

\* Reserved memory, the kernel's PDPT, PD and PT, and a page of the kernel.
KERNEL_FRAMES == 0 .. 4
KERNEL_PDPT   == 1
KERNEL_PD     == 2
KERNEL_PT     == 3
KERNEL_PAGE   == 4

\* The bitmap is indexed by uint32_t (pmm.c): 2^32 frames, 16 TiB, which is less
\* than the heap has room for below the user stack.
ASSUME SizeAssumption ==
    /\ FRAMES \in Nat /\ BYTE \in Nat \ {0} /\ PAGE \in Nat \ {0}
    /\ FAN \in Nat \ {0, 1}
    /\ Requests \subseteq -(WORD \div 2) .. (WORD \div 2) - 1
    /\ BRK_MAX \in Nat /\ LowWords \subseteq Frames
    /\ DEBUG \in BOOLEAN /\ ONE_STEP \in BOOLEAN
    /\ FRAMES < USER_STACK - CODE - 2

VARIABLES
    mem,      \* [bits, tab, panic]: the bitmap, the tables' entries, KPANIC
    started,  \* kmain has started the timer
    phase,    \* [Procs -> Phases]
    pml4,     \* [Procs -> frame of the PML4]
    brk,      \* [Procs -> program break]
    ret,      \* what the last SYS_SBRK returned
    reaping   \* the reaper's position in process_destroy

vars == <<mem, started, phase, pml4, brk, ret, reaping>>

Phases == {"none", "live", "dead", "destroying", "gone"}

-----------------------------------------------------------------------------
(* pmm.c and bitmap.c, as functions from memory to memory.                 *)

NONE == FRAMES   \* UINT32_MAX

bitmap_find(bits) ==
    IF Frames \subseteq bits THEN NONE ELSE Min(Frames \ bits)

Panic(m, why) == IF m.panic = "no" THEN [m EXCEPT !.panic = why] ELSE m

\* pmm_alloc: the frame it returns, and the memory it leaves.
pmm_alloc_frame(m) == bitmap_find(m.bits)

pmm_alloc_unmarked(m) ==
    IF pmm_alloc_frame(m) = NONE THEN Panic(m, "out of memory") ELSE m

pmm_alloc(m) ==
    IF pmm_alloc_frame(m) = NONE THEN Panic(m, "out of memory")
    ELSE IF DEBUG /\ pmm_alloc_frame(m) \in m.bits THEN Panic(m, "already set")
    ELSE [m EXCEPT !.bits = @ \cup {pmm_alloc_frame(m)}]

ByteOf(f) == {g \in Frames : g \div BYTE = f \div BYTE}

\* The debug assertion of pmm_free, and bitmap_clear when nothing intervenes.
pmm_free_test(m, f) ==
    IF DEBUG /\ f \notin m.bits THEN Panic(m, "double free") ELSE m

\* A clear that takes the other bits of the byte with it.
pmm_free_byte(m, f) == [m EXCEPT !.bits = @ \ ByteOf(f)]

pmm_free(m, f) ==
    LET t == pmm_free_test(m, f) IN [t EXCEPT !.bits = @ \ {f}]

-----------------------------------------------------------------------------
(* vmm.c.  A table is a function from its indices to frames.               *)

\* Indices of a virtual page at the four levels: PML4, PDPT, PD, PT.
Index(v) == << (v \div SPAN) % PML4_SIZE, (v \div (FAN * FAN)) % FAN, (v \div FAN) % FAN,
               v % FAN >>

Empty == [i \in 0 .. (IF FAN > PML4_SIZE THEN FAN ELSE PML4_SIZE) - 1 |-> 0]

\* One level of vmm_map: make the entry i of table t if there is none.  A panic
\* stops the machine, so nothing is done to memory behind one.
EnsureTable(m, t, i) ==
    IF m.panic # "no" \/ m.tab[t][i] # 0 THEN m
    ELSE LET f == pmm_alloc_frame(m)
             n == pmm_alloc(m)
         IN IF n.panic # "no" THEN n
            ELSE [n EXCEPT !.tab = [@ EXCEPT ![t][i] = f, ![f] = Empty]]

vmm_map(m, root, f, v) ==
    LET ix == Index(v)
        m1 == EnsureTable(m, root, ix[1])
        pdpt == m1.tab[root][ix[1]]
        m2 == EnsureTable(m1, pdpt, ix[2])
        pd == m2.tab[pdpt][ix[2]]
        m3 == EnsureTable(m2, pd, ix[3])
        pt == m3.tab[pd][ix[3]]
    IN IF m3.panic # "no" THEN m3
       ELSE IF DEBUG /\ m3.tab[pt][ix[4]] # 0 THEN Panic(m3, "already mapped")
       ELSE [m3 EXCEPT !.tab[pt][ix[4]] = f]

\* pmm_alloc and vmm_map of one page, the pair every caller uses.
MapNew(m, root, v) ==
    LET n == pmm_alloc(m) IN
    IF n.panic # "no" THEN n ELSE vmm_map(n, root, pmm_alloc_frame(m), v)

MapAll(m, root, pages) ==
    FoldLeft(LAMBDA n, v : IF n.panic # "no" THEN n ELSE MapNew(n, root, v),
             m, pages)

\* The PD and the PT on the way to v, 0 where a level is missing.
Follow(m, t, i) == IF t = 0 THEN 0 ELSE m.tab[t][i]

PdOf(m, root, v) == Follow(m, m.tab[root][Index(v)[1]], Index(v)[2])

PtOf(m, root, v) == Follow(m, PdOf(m, root, v), Index(v)[3])

Translate(m, root, v) == Follow(m, PtOf(m, root, v), Index(v)[4])

\* The frame vmm_free gives back, 0 when it panics.  It tests the PML4, PDPT and
\* PT entries but not the PD entry: where that is absent, the PT it reads (and
\* then writes) is the memory at physical address 0.
Freed(m, root, v) ==
    IF PdOf(m, root, v) = 0 THEN 0 ELSE m.tab[PtOf(m, root, v)][Index(v)[4]]

vmm_free_unclear(m, root, v) ==
    LET f == Freed(m, root, v) IN
    IF m.panic # "no" THEN m
    ELSE IF f = 0 THEN Panic(m, "not present")
    ELSE pmm_free(m, f)

vmm_free(m, root, v) ==
    LET f == Freed(m, root, v) IN
    IF m.panic # "no" THEN m
    ELSE IF f = 0 THEN Panic(m, "not present")
    ELSE [pmm_free(m, f) EXCEPT !.tab[PtOf(m, root, v)][Index(v)[4]] = 0]

FreeAll(m, root, pages) ==
    FoldLeft(LAMBDA n, v : vmm_free(n, root, v), m, pages)

-----------------------------------------------------------------------------
(* kmain.                                                                  *)

NotReaping == [proc |-> "nobody", stage |-> "none", stack |-> <<>>,
               loaded |-> 0, byte |-> {}]

\* The tables kmain has built: the kernel is at the top of the address space.
KernelTables(t) ==
    CASE t = KERNEL_PDPT -> [Empty EXCEPT ![FAN - 1] = KERNEL_PD]
      [] t = KERNEL_PD   -> [Empty EXCEPT ![0] = KERNEL_PT]
      [] t = KERNEL_PT   -> [Empty EXCEPT ![0] = KERNEL_PAGE]
      [] OTHER           -> Empty

\* Frame 0 holds whatever the firmware left there.
Init ==
    /\ \E low \in [DOMAIN Empty -> LowWords] :
          mem = [bits  |-> KERNEL_FRAMES,
                 tab   |-> [f \in Frames |->
                               IF f = 0 THEN low ELSE KernelTables(f)],
                 panic |-> "no"]
    /\ started = FALSE
    /\ phase = [p \in Procs |-> "none"]
    /\ pml4 = [p \in Procs |-> 0]
    /\ brk = [p \in Procs |-> brk_start]
    /\ ret = [value |-> 0, failed |-> FALSE]
    /\ reaping = NotReaping

Running == mem.panic = "no"

\* process_create: the kernel half is copied, then the two stacks are mapped.
process_create(m, root) ==
    MapAll([m EXCEPT !.tab[root][KERNEL_IDX] = KERNEL_PDPT], root,
           <<USER_STACK, KERNEL_STACK>>)

\* The PML4, the program image (elf64_load_executable), then process_create.
Create(p) ==
    LET root == pmm_alloc_frame(mem)
        m0 == pmm_alloc(mem)
        m1 == IF m0.panic # "no" THEN m0
              ELSE process_create(MapAll([m0 EXCEPT !.tab[root] = Empty],
                                         root, <<CODE>>), root)
    IN
    /\ Running /\ ~ started
    /\ phase[p] = "none"
    /\ mem' = m1
    /\ pml4' = [pml4 EXCEPT ![p] = root]
    /\ phase' = [phase EXCEPT ![p] = "live"]
    /\ UNCHANGED <<started, brk, ret, reaping>>

Start ==
    /\ Running /\ ~ started
    /\ \A p \in Procs : phase[p] = "live"
    /\ started' = TRUE
    /\ UNCHANGED <<mem, phase, pml4, brk, ret, reaping>>

-----------------------------------------------------------------------------
(* The running program.                                                    *)

\* ALIGN_UP(a, PAGE) / PAGE, the sum wrapping as unsigned words do.
PageUp_down(a) == a \div PAGE

PageUp(a) == ((a + PAGE - 1) % WORD) \div PAGE

\* brk + request: request is converted to unsigned.
NewBrk(p, request) == (brk[p] + request) % WORD

TooLow_never(p, request) == FALSE

TooLow(p, request) == NewBrk(p, request) < brk_start

\* n pages from the page first on; the address wraps.
PagesFrom(first, n) == [i \in 1 .. n |-> (first + i - 1) % PAGES]

\* SYS_SBRK with a negative request: refuse to go below brk_start, else free the
\* pages above the new break.  A request below -brk wraps to a high address: it
\* is not refused, and either the loop does not run at all or, when ALIGN_UP
\* wraps too, it runs from page 0.
SbrkShrink(p, request) ==
    LET old_page == PageUp(brk[p])
        new_page == PageUp(NewBrk(p, request))
    IN
    /\ request < 0
    /\ IF TooLow(p, request)
       THEN /\ ret' = [value |-> 0, failed |-> TRUE]
            /\ UNCHANGED <<mem, brk>>
       ELSE /\ mem' = FreeAll(mem, pml4[p],
                              PagesFrom(new_page, Max({0, old_page - new_page})))
            /\ ret' = [value |-> brk[p], failed |-> FALSE]
            /\ brk' = [brk EXCEPT ![p] = NewBrk(p, request)]

\* And with one that is not: map the pages up to the new break.  The number of
\* pages is a size_t, so it wraps as well.
SbrkGrow(p, request) ==
    LET start == PageUp(brk[p])
        end   == PageUp(NewBrk(p, request))
    IN
    /\ request >= 0
    /\ mem' = MapAll(mem, pml4[p], PagesFrom(start, (end - start) % WORD))
    /\ ret' = [value |-> brk[p], failed |-> FALSE]
    /\ brk' = [brk EXCEPT ![p] = NewBrk(p, request)]

syscall_sbrk(p, request) ==
    /\ Running /\ started
    /\ phase[p] = "live"
    /\ SbrkShrink(p, request) \/ SbrkGrow(p, request)
    /\ UNCHANGED <<started, phase, pml4, reaping>>

Exit(p) ==
    /\ Running /\ started
    /\ phase[p] = "live"
    /\ phase' = [phase EXCEPT ![p] = "dead"]
    /\ UNCHANGED <<mem, started, pml4, brk, ret, reaping>>

-----------------------------------------------------------------------------
(* process_destroy, in the reaper, with interrupts on.                     *)
(* reaping.stage is "kstack" (the loop over the kernel stack), "walk" (the *)
(* nested loops of vmm_destroy) or "pml4".  The stack of the walk holds,   *)
(* from the PML4 down, a table and the index its loop has reached.         *)

DestroyBegin(p) ==
    /\ Running
    /\ phase[p] = "dead"
    /\ reaping = NotReaping
    /\ phase' = [phase EXCEPT ![p] = "destroying"]
    /\ reaping' = [NotReaping EXCEPT !.proc = p, !.stage = "kstack"]
    /\ UNCHANGED <<mem, started, pml4, brk, ret>>

Depth    == Len(reaping.stack)
Table(d) == reaping.stack[d][1]
Loop(d)  == reaping.stack[d][2]
Entry(d) == mem.tab[Table(d)][Loop(d)]

vmm_destroy_limit_all(d) == IF d = 1 THEN PML4_SIZE ELSE FAN

vmm_destroy_limit(d) == IF d = 1 THEN HALF ELSE FAN
LoopDone == Loop(Depth) >= vmm_destroy_limit(Depth)

\* The table the innermost loop ran over: freed by the loop around it.
LoopTable_leaked == IF Depth <= 2 THEN 0 ELSE Entry(Depth - 1)

LoopTable == IF Depth = 1 THEN 0 ELSE Entry(Depth - 1)

\* The frame the next pmm_free gets, 0 if the next step frees nothing.
ToFree ==
    CASE reaping.stage = "kstack" ->
            Freed(mem, pml4[reaping.proc], KERNEL_STACK)
      [] reaping.stage = "walk" /\ LoopDone -> LoopTable
      [] reaping.stage = "walk" /\ ~ LoopDone ->
            IF Depth = 4 THEN Entry(4) ELSE 0
      [] OTHER -> pml4[reaping.proc]

\* The turns of a loop that find an empty entry and continue are taken together:
\* the index of the next entry of table t, at depth d, from i on.  Nobody but the
\* reaper touches the tables it has still to walk (NoAlias).
Present(t, i, d) ==
    LET limit == vmm_destroy_limit(d) IN
    Min({j \in i .. limit - 1 : mem.tab[t][j] # 0} \cup {limit})

Enter(stack, t) == Append(stack, <<t, Present(t, 0, Len(stack) + 1)>>)

Bump(stack) ==
    LET d == Len(stack) IN
    [stack EXCEPT ![d][2] = Present(stack[d][1], @ + 1, d)]

\* Where the loops are afterwards.
Advanced ==
    CASE reaping.stage = "kstack" ->
            [reaping EXCEPT !.stage = "walk",
                            !.stack = Enter(<<>>, pml4[reaping.proc])]
      [] reaping.stage = "walk" /\ LoopDone ->
            IF Depth = 1 THEN [reaping EXCEPT !.stage = "pml4"]
            ELSE [reaping EXCEPT !.stack = Bump(Front(@))]
      [] reaping.stage = "walk" /\ ~ LoopDone ->
            IF Depth < 4
            THEN [reaping EXCEPT !.stack = Enter(@, Entry(Depth))]
            ELSE [reaping EXCEPT !.stack = Bump(@)]
      [] OTHER -> NotReaping

\* What the step behind pmm_free does: vmm_free clears the entry of the stack
\* page, and behind the PML4 the process is gone.
Finish(m) ==
    /\ mem' = IF reaping.stage = "kstack" /\ m.panic = "no"
              THEN [m EXCEPT !.tab[PtOf(m, pml4[reaping.proc], KERNEL_STACK)]
                                  [Index(KERNEL_STACK)[4]] = 0]
              ELSE m
    /\ reaping' = [Advanced EXCEPT !.loaded = 0, !.byte = {}]
    /\ phase' = IF reaping.stage = "pml4"
                THEN [phase EXCEPT ![reaping.proc] = "gone"] ELSE phase
    /\ UNCHANGED <<started, pml4, brk, ret>>

InDestroy == Running /\ reaping # NotReaping

\* A step that frees nothing: the walk goes down a level, or is through; vmm_free
\* panics on a kernel stack page that is not mapped.
DestroySkip ==
    /\ InDestroy /\ ToFree = 0
    /\ Finish(IF reaping.stage = "kstack" THEN Panic(mem, "not present") ELSE mem)

\* bitmap_clear when no interrupt can split it.  Nothing in the source makes it
\* so: ONE_STEP is an assumption about the code that the compiler generates.
DestroyFree ==
    /\ InDestroy /\ ToFree # 0 /\ ONE_STEP
    /\ Finish(pmm_free(mem, ToFree))

\* bitmap_clear as C has it: the byte is loaded, changed in a register, stored.
DestroyLoad ==
    /\ InDestroy /\ ToFree # 0 /\ ~ ONE_STEP /\ reaping.loaded = 0
    /\ mem' = pmm_free_test(mem, ToFree)
    /\ reaping' = [reaping EXCEPT !.loaded = ToFree,
                                  !.byte = mem.bits \cap ByteOf(ToFree)]
    /\ UNCHANGED <<started, phase, pml4, brk, ret>>

DestroyStore ==
    /\ InDestroy /\ reaping.loaded # 0
    /\ Finish([mem EXCEPT !.bits = (@ \ ByteOf(reaping.loaded))
                                     \cup (reaping.byte \ {reaping.loaded})])

\* Nothing is left to do: everybody has exited and been destroyed, or KPANIC
\* stopped the machine.
Stopped ==
    /\ ~ Running \/ \A p \in Procs : phase[p] = "gone"
    /\ UNCHANGED vars

Next ==
    \/ \E p \in Procs : Create(p) \/ Exit(p) \/ DestroyBegin(p)
    \/ Start
    \/ \E p \in Procs, r \in Requests :
          NewBrk(p, r) <= BRK_MAX /\ syscall_sbrk(p, r)
    \/ DestroySkip \/ DestroyFree \/ DestroyLoad \/ DestroyStore
    \/ Stopped

Spec == Init /\ [][Next]_vars

-----------------------------------------------------------------------------
(* Properties.                                                             *)

\* No request can take a break below address 0: brk is never below brk_start, so
\* brk + request does not wrap.  What sbrk does with other requests is in the
\* model, but nothing is claimed of it except FreesOnlyMapped, which it breaks.
Moderate == \A r \in Requests : brk_start + r >= 0

TypeOK ==
    /\ mem.bits \subseteq Frames
    /\ mem.tab \in [Frames -> [DOMAIN Empty -> Frames]]
    /\ started \in BOOLEAN
    /\ phase \in [Procs -> Phases]
    /\ pml4 \in [Procs -> Frames]
    /\ brk \in [Procs -> (IF Moderate THEN brk_start ELSE 0) .. WORD - 1]
    /\ ret.value \in 0 .. WORD - 1
    /\ reaping.stage \in {"none", "kstack", "walk", "pml4"}
    /\ reaping.loaded \in Frames /\ reaping.byte \subseteq Frames

\* What hangs under a set of tables: each entry by its path and its frame.
Under(tables) ==
    {e \in {<<Append(t[1], i), mem.tab[t[2]][i]>> : t \in tables, i \in 0 .. FAN - 1} :
        e[2] # 0}

\* The tables and pages private to p, below its PML4.
Below(p) ==
    LET pdpts == {<< <<i>>, mem.tab[pml4[p]][i]>> :
                     i \in {j \in (0 .. HALF - 1) \cup {STACK_IDX} :
                               mem.tab[pml4[p]][j] # 0}}
        pds == Under(pdpts)
        pts == Under(pds)
    IN pdpts \cup pds \cup pts \cup Under(pts)

\* The loops of vmm_destroy have passed this entry.
Passed(path) ==
    /\ path[1] < HALF
    /\ \E d \in 1 .. Min({Len(path), Depth}) :
          /\ path[d] < Loop(d)
          /\ \A e \in 1 .. d - 1 : path[e] = Loop(e)

\* Every frame a process still holds, each with the place it is held at.
Holds ==
    UNION {{<< <<p>> \o e[1], e[2]>> :
               e \in {<< <<>>, pml4[p]>>}
                     \cup {f \in Below(p) : reaping.proc = p => ~ Passed(f[1])}} :
           p \in {q \in Procs : phase[q] \in {"live", "dead", "destroying"}}}

Held == {e[2] : e \in Holds}

\* No frame is held at two places, by two processes, or while the bitmap calls
\* it free: no order of sbrk calls and of the reaper's frees hands out a frame
\* that is still in use, the tables vmm_destroy is walking included.
NoAlias ==
    Moderate /\ Running => /\ Cardinality(Held) = Cardinality(Holds)
               /\ Held \subseteq mem.bits \ KERNEL_FRAMES

\* Destruction of other address spaces leaves the kernel's own tables alone.
KernelIntact ==
    Moderate /\ Running =>
               /\ KERNEL_FRAMES \subseteq mem.bits
               /\ \A t \in KERNEL_FRAMES \ {0} : mem.tab[t] = KernelTables(t)
               /\ \A p \in Procs : phase[p] \in {"live", "dead"} =>
                     mem.tab[pml4[p]][KERNEL_IDX] = KERNEL_PDPT

\* The heap of a live process is exactly the pages from brk_start up to brk, and
\* ends below its stack, whatever sequence of Moderate sbrk calls led there; its
\* image and its stack stay mapped, and the guard page between them unmapped.
HeapExact ==
    Moderate /\ Running => \A p \in Procs : phase[p] = "live" =>
        /\ brk_start <= brk[p] /\ brk[p] <= USER_STACK * PAGE
        /\ {v \in 0 .. HALF * SPAN - 1 : Translate(mem, pml4[p], v) # 0}
              = {CODE, USER_STACK}
                \cup brk_start \div PAGE .. (brk[p] + PAGE - 1) \div PAGE - 1

\* Frames are neither lost nor invented: what the bitmap marks is the kernel's
\* frames, what the processes hold, and, for each destroyed process, the PDPT,
\* PD and PT of its kernel stack, which process_destroy does not give back.
PageAccounting ==
    Moderate /\ Running => Cardinality(mem.bits)
                 = Cardinality(KERNEL_FRAMES) + Cardinality(Held)
                   + 3 * Cardinality({p \in Procs : phase[p] = "gone"})

\* As long as requests are Moderate, no panic of vmm_free fires, nor the debug
\* assertions "already set" and "double free" of pmm.c and "mapping already
\* exists" of vmm.c: only running out of memory stops the machine.
OnlyOutOfMemory == Moderate => mem.panic \in {"no", "out of memory"}

\* vmm_free is only asked to free what is mapped, as its panics "is not present"
\* demand, whatever a program passes to sbrk.
FreesOnlyMapped == mem.panic # "not present"

\* Only its own sbrk changes what a live process sees: neither the sbrk of
\* another nor the destruction of another moves one of its pages or tables.
Isolation ==
    [][\A p \in Procs :
          /\ Moderate
          /\ phase[p] = "live" /\ phase'[p] = "live"
          /\ brk'[p] = brk[p] /\ mem'.panic = "no"
          => Below(p)' = Below(p)]_vars

\* The next pmm_alloc "finds and returns a free page address": the frame it will
\* return is not one that somebody still holds.
AllocReturnsFree == Moderate /\ Running => pmm_alloc_frame(mem) \notin Held

\* What the allocator of the C library takes for a failed MORECORE.
MFAIL == -1

\* A refused sbrk returns MFAIL, as malloc.c requires of MORECORE.
SbrkFailureIsMFAIL == ret.failed => ret.value = MFAIL
=============================================================================
