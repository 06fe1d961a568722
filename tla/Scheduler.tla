----------------------------- MODULE Scheduler -----------------------------
(***************************************************************************)
(* The process life cycle of the pristine kernel on its single CPU:        *)
(* kmain creates the processes, the LAPIC timer and `int 0xFF` enter       *)
(* scheduler_loop, exiting programs are moved to the reap list, and the    *)
(* reaper, itself a preemptible kernel process, destroys and frees them.   *)
(*                                                                         *)
(* The interleavings are the real ones: a timer interrupt may hit between  *)
(* any two steps taken with the interrupt flag set, and scheduler_loop     *)
(* runs with it clear.  One iteration of its scan is one step, so the      *)
(* states in which the CPU still stands on the kernel stack of a process   *)
(* that is already DEAD (or already on the reap list) are states here.     *)
(***************************************************************************)
EXTENDS Naturals

CONSTANTS
    MAX,       \* SCHEDULER_MAX_PROCESSES, the length of both lists
    Users,     \* ring-3 programs kmain loads
    Kernels,   \* kernel-mode programs that call syscall_exit themselves
    Yielding,  \* the users that issue SYS_YIELD
    Reaper, Idle, NULL

ASSUME MaxAssumption == MAX \in Nat \ {0}

ASSUME ProcAssumption ==
    /\ Users \cap Kernels = {}
    /\ Yielding \subseteq Users
    /\ Reaper # Idle
    /\ {Reaper, Idle} \cap (Users \cup Kernels) = {}
    /\ NULL \notin Users \cup Kernels \cup {Reaper, Idle}

Programs == Users \cup Kernels
Proc     == Programs \cup {Reaper, Idle}
Slots    == 0 .. MAX - 1

States == {"READY", "RUNNING", "DEAD"}

\* What has become of the Process structure and its address space.
Memory == {"none", "live", "destroyed", "freed"}

\* Program points between which an interrupt can be told apart.
UserPC   == {"user"}
KernelPC == {"kernel"}
ExitPC   == {"exit_yield", "exit_return", "yield_return"}
ReaperPC == {"top", "read", "clear", "advance", "destroy", "kfree",
             "yield", "halt", "halted"}
PC       == UserPC \cup KernelPC \cup ExitPC \cup ReaperPC \cup {"hlt_loop"}

\* The part of a register context that matters: rip, and IF of rflags.
Context == [pc : PC, iflag : {0, 1}]

VARIABLES
    process_list,         \* scheduler.c: Process *process_list[MAX]
    scheduler_next,       \* CpuState.scheduler_next
    current_process,      \* CpuState.current_process
    loops,                \* local of scheduler_loop
    process_to_continue,  \* local of scheduler_loop
    mode,                 \* what the CPU is executing
    cpu,                  \* its rip and IF
    frame,                \* CpuState.interrupt_frame
    state,                \* Process.state
    context,              \* Process.context
    memory,               \* the life of the Process structure itself
    process_list_reap,    \* reaper.c: static Process *process_list_reap[MAX]
    reaper_cursor,        \* reaper.c: static size_t reaper_cursor
    process_to_reap       \* local of reaper_run

schedVars == <<process_list, scheduler_next, current_process, loops,
               process_to_continue, mode, cpu, frame>>
procVars  == <<state, context, memory>>
reapVars  == <<process_list_reap, reaper_cursor, process_to_reap>>
vars      == <<schedVars, procVars, reapVars>>

-----------------------------------------------------------------------------
(* Boot: the part of kmain that creates processes and starts the timer.    *)

Init ==
    /\ process_list = [i \in Slots |-> NULL]
    /\ scheduler_next = 0
    /\ current_process = NULL
    /\ loops = 0
    /\ process_to_continue = NULL
    /\ mode = "kmain"
    /\ cpu = [pc |-> "hlt_loop", iflag |-> 1]
    /\ frame = [pc |-> "hlt_loop", iflag |-> 1]
    /\ state = [p \in Proc |-> "READY"]
    /\ context = [p \in Proc |-> [pc |-> "hlt_loop", iflag |-> 1]]
    /\ memory = [p \in Proc |-> "none"]
    /\ process_list_reap = [i \in Slots |-> NULL]
    /\ reaper_cursor = 0
    /\ process_to_reap = NULL

FirstNull(list, i) ==
    list[i] = NULL /\ \A j \in Slots : j < i => list[j] # NULL

HasNull(list) == \E i \in Slots : list[i] = NULL

\* Entered when the list is full too: the result is false, and kmain ignores it.
scheduler_add_process(p) ==
    IF HasNull(process_list)
    THEN \E i \in Slots : /\ FirstNull(process_list, i)
                          /\ process_list' = [process_list EXCEPT ![i] = p]
    ELSE UNCHANGED process_list

Entry(p) == IF p \in Users THEN "user"
            ELSE IF p \in Kernels THEN "kernel"
            ELSE IF p = Reaper THEN "top" ELSE "hlt_loop"

\* kmalloc(sizeof(Process)) and the fields process_create sets: rflags is 0x200.
process_create(p) ==
    /\ memory[p] = "none"
    /\ memory' = [memory EXCEPT ![p] = "live"]
    /\ state' = [state EXCEPT ![p] = "READY"]
    /\ context' = [context EXCEPT ![p] = [pc |-> Entry(p), iflag |-> 1]]

KmainIdle ==
    /\ mode = "kmain"
    /\ process_create(Idle)
    /\ current_process' = NULL
    /\ scheduler_next' = 0
    /\ UNCHANGED <<process_list, loops, process_to_continue, mode, cpu, frame,
                   reapVars>>

KmainReaper ==
    /\ mode = "kmain"
    /\ memory[Idle] = "live"
    /\ process_create(Reaper)
    /\ scheduler_add_process(Reaper)
    /\ UNCHANGED <<scheduler_next, current_process, loops, process_to_continue,
                   mode, cpu, frame, reapVars>>

KmainProgram(p) ==
    /\ mode = "kmain"
    /\ memory[Reaper] = "live"
    /\ process_create(p)
    /\ scheduler_add_process(p)
    /\ UNCHANGED <<scheduler_next, current_process, loops, process_to_continue,
                   mode, cpu, frame, reapVars>>

\* The callback for vector 0xFF is installed, the periodic timer is unmasked
\* and kmain falls into its final hlt loop, with current_process still NULL.
KmainStart ==
    /\ mode = "kmain"
    /\ \A p \in Proc : memory[p] = "live"
    /\ mode' = "run"
    /\ UNCHANGED <<process_list, scheduler_next, current_process, loops,
                   process_to_continue, cpu, frame, procVars, reapVars>>

-----------------------------------------------------------------------------
(* Entering the scheduler.                                                 *)

\* isr_common and idt64_isr_dispatch build and publish the frame; the gate and
\* the stub's cli clear IF; scheduler_loop starts with its locals reset.
EnterScheduler(resume) ==
    /\ frame' = [pc |-> resume, iflag |-> cpu.iflag]
    /\ cpu' = [cpu EXCEPT !.iflag = 0]
    /\ mode' = "scan"
    /\ loops' = 0
    /\ process_to_continue' = NULL

\* A LAPIC tick.  An interrupt that ends a hlt resumes behind it, which in
\* reaper_run is the top of the loop.
Timer ==
    /\ mode = "run"
    /\ cpu.iflag = 1
    /\ EnterScheduler(IF cpu.pc = "halted" THEN "top" ELSE cpu.pc)
    /\ UNCHANGED <<process_list, scheduler_next, current_process, procVars,
                   reapVars>>

\* SYS_YIELD.  The SYSCALL instruction clears IF (SFMASK), so the saved context
\* resumes inside syscall_yield, behind scheduler_yield, with IF clear.
syscall_yield(p) ==
    /\ mode = "run"
    /\ current_process = p
    /\ cpu.pc = "user"
    /\ frame' = [pc |-> "yield_return", iflag |-> 0]
    /\ cpu' = [cpu EXCEPT !.iflag = 0]
    /\ mode' = "scan"
    /\ loops' = 0
    /\ process_to_continue' = NULL
    /\ UNCHANGED <<process_list, scheduler_next, current_process, procVars,
                   reapVars>>

\* syscall_exit up to its scheduler_yield.  A user program is here through
\* SYSCALL, with IF clear; a kernel program calls it with IF as it was.
syscall_exit(p) ==
    /\ mode = "run"
    /\ current_process = p
    /\ cpu.pc = Entry(p)
    /\ state' = [state EXCEPT ![p] = "DEAD"]
    /\ cpu' = [pc |-> "exit_yield",
               iflag |-> IF p \in Users THEN 0 ELSE cpu.iflag]
    /\ UNCHANGED <<process_list, scheduler_next, current_process, loops,
                   process_to_continue, mode, frame, context, memory, reapVars>>

\* The int 0xFF of the scheduler_yield in syscall_exit.
ExitYield ==
    /\ mode = "run"
    /\ cpu.pc = "exit_yield"
    /\ EnterScheduler("exit_return")
    /\ UNCHANGED <<process_list, scheduler_next, current_process, procVars,
                   reapVars>>

-----------------------------------------------------------------------------
(* scheduler_loop.                                                         *)

Wrapped == IF scheduler_next >= MAX THEN 0 ELSE scheduler_next

\* A bound one short of the list.
MoreLoops_short == loops + 1 < MAX - 1

MoreLoops == loops + 1 < MAX

\* The increments of the for loop, and its condition before the next iteration.
Continue ==
    /\ loops' = loops + 1
    /\ scheduler_next' = Wrapped + 1
    /\ mode' = IF MoreLoops THEN "scan" ELSE "dispatch"
    /\ UNCHANGED <<current_process, process_to_continue, cpu, frame, procVars,
                   reaper_cursor, process_to_reap>>

ScanEmpty ==
    /\ mode = "scan"
    /\ process_list[Wrapped] = NULL
    /\ Continue
    /\ UNCHANGED <<process_list, process_list_reap>>

reaper_add_process(proc) ==
    \E i \in Slots :
        /\ FirstNull(process_list_reap, i)
        /\ process_list_reap' = [process_list_reap EXCEPT ![i] = proc]

\* A DEAD process handed over and left in its slot.
ClearListSlot_skipped == UNCHANGED process_list

ClearListSlot == process_list' = [process_list EXCEPT ![Wrapped] = NULL]

\* Any state but PROCESS_READY (zero) taken for dead.
Exited_nonzero(proc) == state[proc] # "READY"

Exited(proc) == state[proc] = "DEAD"

\* The slot is cleared only when the reap list had room.
ScanDead ==
    LET proc == process_list[Wrapped] IN
    /\ mode = "scan"
    /\ proc # NULL
    /\ Exited(proc)
    /\ IF HasNull(process_list_reap)
       THEN reaper_add_process(proc) /\ ClearListSlot
       ELSE UNCHANGED <<process_list, process_list_reap>>
    /\ Continue

ScanPick ==
    LET proc == process_list[Wrapped] IN
    /\ mode = "scan"
    /\ proc # NULL
    /\ ~ Exited(proc)
    /\ process_to_continue' = proc
    /\ mode' = "dispatch"
    /\ scheduler_next' = Wrapped
    /\ UNCHANGED <<process_list, current_process, loops, cpu, frame, procVars,
                   reapVars>>

Chosen == IF process_to_continue = NULL THEN Idle ELSE process_to_continue

\* No test of PROCESS_DEAD before the outgoing process is saved.
Preempted_dead == IF current_process # NULL THEN {current_process} ELSE {}

\* The outgoing process, if kmain has been left and it has not exited.
Preempted ==
    IF current_process # NULL /\ state[current_process] # "DEAD"
    THEN {current_process} ELSE {}

\* No increment behind the loop.
NextSlot_same == scheduler_next

NextSlot == scheduler_next + 1

\* The contexts once the outgoing process is saved.
process_save_state ==
    [p \in Proc |-> IF p \in Preempted THEN frame ELSE context[p]]

process_jump(p) == cpu' = process_save_state[p] /\ mode' = "run"

\* What scheduler_loop does behind the loop: save, choose, jump.  The store to
\* cpu_state->kernel_stack_top has no counterpart: kmain gives every process the
\* same PROCESS_VIRT_KERNEL_STACK_TOP.
Dispatch ==
    /\ mode = "dispatch"
    /\ scheduler_next' = NextSlot
    /\ context' = process_save_state
    /\ state' = [p \in Proc |-> IF p = Chosen THEN "RUNNING"
                                ELSE IF p \in Preempted THEN "READY"
                                ELSE state[p]]
    /\ current_process' = Chosen
    /\ process_jump(Chosen)
    /\ UNCHANGED <<process_list, loops, process_to_continue, frame, memory,
                   reapVars>>

-----------------------------------------------------------------------------
(* reaper_run.                                                             *)

AtReaper(pc) == mode = "run" /\ current_process = Reaper /\ cpu.pc = pc

\* A reaper that does not disable interrupts.
idt64_disable_interrupts_missing(next) == cpu' = [cpu EXCEPT !.pc = next]

idt64_disable_interrupts(next) == cpu' = [pc |-> next, iflag |-> 0]
idt64_enable_interrupts(next)  == cpu' = [pc |-> next, iflag |-> 1]

\* > where the code has >=.
WrappedCursor_late == IF reaper_cursor > MAX THEN 0 ELSE reaper_cursor

WrappedCursor == IF reaper_cursor >= MAX THEN 0 ELSE reaper_cursor

\* Wrap the cursor, then idt64_disable_interrupts.
ReaperCli ==
    /\ AtReaper("top")
    /\ reaper_cursor' = WrappedCursor
    /\ idt64_disable_interrupts("read")
    /\ UNCHANGED <<process_list, scheduler_next, current_process, loops,
                   process_to_continue, mode, frame, procVars,
                   process_list_reap, process_to_reap>>

ReaperRead ==
    /\ AtReaper("read")
    /\ process_to_reap' = process_list_reap[reaper_cursor]
    /\ cpu' = [cpu EXCEPT !.pc = "clear"]
    /\ UNCHANGED <<process_list, scheduler_next, current_process, loops,
                   process_to_continue, mode, frame, procVars,
                   process_list_reap, reaper_cursor>>

\* The slot keeps its pointer.
ClearReapSlot_skipped == UNCHANGED process_list_reap

ClearReapSlot ==
    process_list_reap' = [process_list_reap EXCEPT ![reaper_cursor] = NULL]

\* Clear the slot, then idt64_enable_interrupts.
ReaperClear ==
    /\ AtReaper("clear")
    /\ ClearReapSlot
    /\ idt64_enable_interrupts("advance")
    /\ UNCHANGED <<process_list, scheduler_next, current_process, loops,
                   process_to_continue, mode, frame, procVars, reaper_cursor,
                   process_to_reap>>

\* No increment of the cursor.
ReaperAdvance_stuck ==
    /\ AtReaper("advance")
    /\ cpu' = [cpu EXCEPT !.pc = IF process_to_reap # NULL THEN "destroy"
                                                           ELSE "halt"]
    /\ UNCHANGED <<reaper_cursor, process_list, scheduler_next, current_process, loops,
                   process_to_continue, mode, frame, procVars,
                   process_list_reap, process_to_reap>>

ReaperAdvance ==
    /\ AtReaper("advance")
    /\ reaper_cursor' = reaper_cursor + 1
    /\ cpu' = [cpu EXCEPT !.pc = IF process_to_reap # NULL THEN "destroy"
                                                           ELSE "halt"]
    /\ UNCHANGED <<process_list, scheduler_next, current_process, loops,
                   process_to_continue, mode, frame, procVars,
                   process_list_reap, process_to_reap>>

process_destroy ==
    /\ AtReaper("destroy")
    /\ memory' = [memory EXCEPT ![process_to_reap] = "destroyed"]
    /\ cpu' = [cpu EXCEPT !.pc = "kfree"]
    /\ UNCHANGED <<process_list, scheduler_next, current_process, loops,
                   process_to_continue, mode, frame, state, context, reapVars>>

ReaperFree ==
    /\ AtReaper("kfree")
    /\ memory' = [memory EXCEPT ![process_to_reap] = "freed"]
    /\ cpu' = [cpu EXCEPT !.pc = "yield"]
    /\ UNCHANGED <<process_list, scheduler_next, current_process, loops,
                   process_to_continue, mode, frame, state, context, reapVars>>

ReaperYield ==
    /\ AtReaper("yield")
    /\ EnterScheduler("top")
    /\ UNCHANGED <<process_list, scheduler_next, current_process, procVars,
                   reapVars>>

\* kernel_halt: one hlt instruction, which the next interrupt ends.
kernel_halt ==
    /\ AtReaper("halt")
    /\ cpu' = [cpu EXCEPT !.pc = "halted"]
    /\ UNCHANGED <<process_list, scheduler_next, current_process, loops,
                   process_to_continue, mode, frame, procVars, reapVars>>

-----------------------------------------------------------------------------

\* Control has passed a __builtin_unreachable(): nothing is known afterwards,
\* and the model says nothing about it.
Undefined ==
    /\ mode = "run"
    /\ cpu.pc \in {"exit_return", "yield_return"}
    /\ UNCHANGED vars

Kmain == \/ KmainIdle \/ KmainReaper \/ KmainStart
         \/ \E p \in Programs : KmainProgram(p)

Scan == ScanEmpty \/ ScanDead \/ ScanPick

ReaperStep == \/ ReaperCli \/ ReaperRead \/ ReaperClear \/ ReaperAdvance
              \/ process_destroy \/ ReaperFree \/ ReaperYield \/ kernel_halt

Next ==
    \/ Kmain
    \/ Timer
    \/ \E p \in Yielding : syscall_yield(p)
    \/ \E p \in Programs : syscall_exit(p)
    \/ ExitYield
    \/ Scan
    \/ Dispatch
    \/ ReaperStep
    \/ Undefined

Spec == Init /\ [][Next]_vars

\* scheduler_loop and the exit path run with IF clear, so nothing but they
\* themselves can go on; the timer is periodic; a quantum (10 ms) lets the
\* reaper execute at least one of its steps.
Fairness ==
    /\ WF_vars(Kmain) /\ WF_vars(Timer) /\ WF_vars(ExitYield)
    /\ WF_vars(Scan) /\ WF_vars(Dispatch)
    /\ SF_vars(ReaperStep)

FairSpec == Spec /\ Fairness

-----------------------------------------------------------------------------
(* Properties.                                                             *)

\* Where the reaper is, or where it will resume.
ReaperAt ==
    IF current_process # Reaper THEN context[Reaper].pc
    ELSE IF mode = "run" THEN cpu.pc ELSE frame.pc

\* The range of every variable.  scheduler_next and reaper_cursor run past the
\* end of the lists, and reaper_run has wrapped its cursor when it indexes.
TypeOK ==
    /\ process_list \in [Slots -> Proc \cup {NULL}]
    /\ scheduler_next \in 0 .. MAX + 1
    /\ current_process \in Proc \cup {NULL}
    /\ loops \in 0 .. MAX
    /\ process_to_continue \in Proc \cup {NULL}
    /\ mode \in {"kmain", "run", "scan", "dispatch"}
    /\ cpu \in Context
    /\ frame \in Context
    /\ state \in [Proc -> States]
    /\ context \in [Proc -> Context]
    /\ memory \in [Proc -> Memory]
    /\ process_list_reap \in [Slots -> Proc \cup {NULL}]
    /\ reaper_cursor \in 0 .. MAX
    /\ ReaperAt \in {"read", "clear", "advance"} => reaper_cursor < MAX
    /\ process_to_reap \in Proc \cup {NULL}

Listed(p)  == \E i \in Slots : process_list[i] = p
Queued(p)  == \E i \in Slots : process_list_reap[i] = p
Reaping(p) == /\ process_to_reap = p
              /\ ReaperAt \in {"advance", "destroy", "kfree"}

Injective(list) ==
    \A i, j \in Slots : list[i] = list[j] /\ list[i] # NULL => i = j

Disjoint ==
    \A p \in Proc : /\ ~ (Listed(p) /\ Queued(p))
                    /\ ~ (Listed(p) /\ Reaping(p))
                    /\ ~ (Queued(p) /\ Reaping(p))

\* A process is in at most one slot of one of the two lists, or in the hands of
\* reaper_run: nothing is scheduled and reaped at once, or reaped twice
\* (process_destroy and kfree would then run twice on the same structure).
SingleOwner ==
    /\ Injective(process_list)
    /\ Injective(process_list_reap)
    /\ Disjoint

\* No pointer the scheduler or the reaper may still follow leads to a structure
\* that was destroyed or freed; in particular the CPU is never on the kernel
\* stack, or in the address space, of a process that process_destroy took down.
NoDangling ==
    /\ \A p \in Proc : Listed(p) \/ Queued(p) => memory[p] = "live"
    /\ current_process # NULL => memory[current_process] = "live"
    /\ mode = "dispatch" => memory[Chosen] = "live"
    /\ \A p \in Proc : Reaping(p) =>
          memory[p] = IF ReaperAt = "kfree" THEN "destroyed" ELSE "live"

\* Only processes that exited are ever handed to the reaper.
ReapOnlyDead ==
    \A p \in Proc : Queued(p) \/ Reaping(p) => state[p] = "DEAD"

\* The scheduler_yield in syscall_exit never comes back, wherever the timer
\* hits: the __builtin_unreachable() behind it is right.
ExitNeverReturns == cpu.pc # "exit_return"

\* The one behind the scheduler_yield in syscall_yield: control never gets there.
YieldNeverReturns == cpu.pc # "yield_return"

\* reaper_add_process always finds room, so a DEAD process leaves the process
\* list the first time the scan meets it.
ReaperNeverFull ==
    /\ mode = "scan"
    /\ process_list[Wrapped] # NULL
    /\ state[process_list[Wrapped]] = "DEAD"
    => HasNull(process_list_reap)

\* The scan always finds a process: the reaper is in the list for ever, so the
\* fallback to the idle process is never taken.
IdleNeverRuns ==
    /\ mode = "dispatch" => process_to_continue # NULL
    /\ current_process # Idle

\* A process the scheduler has accepted stays in somebody's hands until its
\* structure is freed, whatever the timer interrupts (the reaper's read and
\* clear of a slot included).
Held(p) == Listed(p) \/ Queued(p) \/ Reaping(p)
NoLostProcess ==
    [][\A p \in Proc : Held(p) => Held(p)' \/ memory'[p] = "freed"]_vars

\* A listed process that is READY gets the CPU again: the round robin starves
\* nobody.
NoStarvation ==
    \A p \in Proc : (Listed(p) /\ state[p] = "READY")
                        ~> (mode = "run" /\ current_process = p)

\* Scheduler implements ProcessLifecycle: the phase of a process is its state
\* field while the structure exists, and the CPU belongs to current_process.
Phase(p) ==
    IF memory[p] = "none" THEN "unborn"
    ELSE IF memory[p] # "live" THEN "reaped"
    ELSE IF state[p] = "DEAD" THEN "dead"
    ELSE IF state[p] = "RUNNING" THEN "running" ELSE "ready"

Life == INSTANCE ProcessLifecycle WITH
            phase <- [p \in Proc |-> Phase(p)], running <- current_process

\* Every step of the kernel is a step of the abstract life cycle: one process
\* runs, only the running one exits, DEAD is final, and a process is taken down
\* once and only when the CPU has left it.
Lifecycle == Life!Spec

\* And every process that exits is taken down in the end.
LifecycleLive == Life!LiveSpec
=============================================================================
