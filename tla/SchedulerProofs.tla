-------------------------- MODULE SchedulerProofs ---------------------------
(***************************************************************************)
(* For any number of slots and any set of programs: the safety invariants  *)
(* of Scheduler, NoLostProcess, and the refinement of ProcessLifecycle.    *)
(***************************************************************************)
EXTENDS Scheduler, TLAPS

-----------------------------------------------------------------------------
(* The inductive invariant.                                                *)

\* The reaper's critical section is never in a saved context: interrupts are
\* off in it, so the timer never enters the scheduler from there.
CriticalInv ==
    /\ cpu.pc \in {"read", "clear"} =>
          mode = "run" /\ current_process = Reaper /\ cpu.iflag = 0
    /\ cpu.pc = "clear" => process_to_reap = process_list_reap[reaper_cursor]
    /\ frame.pc \notin {"read", "clear"}
    /\ \A p \in Proc : context[p].pc \notin {"read", "clear"}
    /\ ReaperAt \in {"destroy", "kfree"} => process_to_reap # NULL

\* Before the timer starts no process runs; inside scheduler_loop the pick is
\* a listed process that has not exited.
PickInv ==
    /\ mode = "kmain" => /\ current_process = NULL
                         /\ process_to_continue = NULL
                         /\ cpu.pc = "hlt_loop"
    /\ mode = "scan" => process_to_continue = NULL
    /\ mode # "kmain" => memory[Idle] = "live"
    /\ mode = "dispatch" /\ process_to_continue # NULL =>
          Listed(process_to_continue) /\ state[process_to_continue] # "DEAD"
    /\ mode = "scan" => loops < MAX
    /\ mode = "dispatch" => scheduler_next <= MAX

\* During boot the reaper has not taken a step.
KmainInv == mode = "kmain" => context[Reaper].pc \in {"hlt_loop", "top"}

\* The exit path belongs to a DEAD current process and is never saved.
ExitInv ==
    /\ state[Reaper] # "DEAD" /\ state[Idle] # "DEAD"
    /\ \A p \in Proc : context[p].pc \notin {"exit_yield", "exit_return"}
    /\ mode = "run" /\ cpu.pc = "exit_yield" =>
          current_process # NULL /\ state[current_process] = "DEAD"
    /\ mode \in {"scan", "dispatch"} /\ frame.pc \in {"exit_yield", "exit_return"} =>
          current_process # NULL /\ state[current_process] = "DEAD"

\* Only current_process is RUNNING, and in mode "run" it is, up to its exit.
RunningInv ==
    /\ \A p \in Proc : state[p] = "RUNNING" => current_process = p
    /\ mode = "run" /\ current_process # NULL /\ cpu.pc # "exit_yield" =>
          state[current_process] = "RUNNING"
    /\ \A p \in Proc : memory[p] = "none" => state[p] = "READY" /\ ~ Held(p)

IInv == /\ TypeOK /\ SingleOwner /\ NoDangling /\ ReapOnlyDead
        /\ ExitNeverReturns
        /\ CriticalInv /\ PickInv /\ KmainInv /\ ExitInv /\ RunningInv

\* kmain creating the idle process preserves IInv.
LEMMA KmainIdle_Step ==
    ASSUME IInv, KmainIdle
    PROVE  IInv'
<1> USE MaxAssumption, ProcAssumption
    DEF IInv, TypeOK, ReaperAt, Context, PC, UserPC, KernelPC, ExitPC,
           ReaperPC, States, Memory, Slots, Proc, Programs, KmainIdle,
           process_create, Entry, vars, schedVars, procVars, reapVars
<1>1. TypeOK'
  BY DEF KmainInv
<1>2. Injective(process_list)'
  BY DEF SingleOwner, Injective
<1>3. Injective(process_list_reap)'
  BY DEF SingleOwner, Injective
<1>4. Disjoint'
  <2>1. ReaperAt' = ReaperAt
    BY DEF PickInv
  <2>2. \A q \in Proc : /\ Listed(q)' = Listed(q)
                        /\ Queued(q)' = Queued(q)
                        /\ Reaping(q)' = Reaping(q)
    BY <2>1 DEF Listed, Queued, Reaping
  <2> QED
    BY <2>2 DEF SingleOwner, Disjoint
<1>5. NoDangling'
  BY DEF NoDangling, Listed, Queued, Reaping, Chosen, KmainInv
<1>6. ReapOnlyDead'
  BY DEF ReapOnlyDead, Queued, Reaping, KmainInv, RunningInv, Held, Listed
<1>7. ExitNeverReturns'
  BY DEF ExitNeverReturns
<1>8. CriticalInv'
  BY DEF CriticalInv, KmainInv
<1>9. PickInv'
  BY DEF PickInv, Listed
<1>10. KmainInv'
  BY DEF KmainInv
<1>11. ExitInv'
  BY DEF ExitInv
<1>12. RunningInv'
  BY DEF RunningInv, Held, Listed, Queued, Reaping, PickInv
<1> QED
  BY <1>1, <1>2, <1>3, <1>4, <1>5, <1>6, <1>7, <1>8, <1>9, <1>10, <1>11, <1>12,
         Zenon DEF IInv, SingleOwner

\* kmain creating and listing the reaper preserves IInv.
LEMMA KmainReaper_Step ==
    ASSUME IInv, KmainReaper
    PROVE  IInv'
<1> USE MaxAssumption, ProcAssumption
    DEF IInv, TypeOK, ReaperAt, Context, PC, UserPC, KernelPC, ExitPC,
           ReaperPC, States, Memory, Slots, Proc, Programs, KmainReaper,
           process_create, scheduler_add_process, HasNull, FirstNull, Entry,
           vars, schedVars, procVars, reapVars
<1>1. TypeOK'
  OBVIOUS
<1>2. Injective(process_list)'
  <2>1. \A i \in Slots : process_list[i] # Reaper
    BY DEF RunningInv, Held, Listed
  <2>2. CASE HasNull(process_list)
    <3>1. PICK k \in Slots : process_list' = [process_list EXCEPT ![k] = Reaper]
      BY <2>2
    <3>2. \A i \in Slots : process_list'[i] = IF i = k THEN Reaper ELSE process_list[i]
      BY <3>1
    <3> QED
      BY <2>1, <3>2 DEF SingleOwner, Injective
  <2>3. CASE ~ HasNull(process_list)
    BY <2>3 DEF SingleOwner, Injective
  <2> QED
    BY <2>2, <2>3
<1>3. Injective(process_list_reap)'
  BY DEF SingleOwner, Injective
<1>4. Disjoint'
  <2>1. ~ Listed(Reaper) /\ ~ Queued(Reaper) /\ ~ Reaping(Reaper)
    BY DEF RunningInv, Held
  <2>2. \A q \in Proc : Listed(q)' => Listed(q) \/ q = Reaper
    BY DEF Listed
  <2>3. \A q \in Proc : Queued(q)' = Queued(q)
    BY DEF Queued
  <2>4. \A q \in Proc : Reaping(q)' => Reaping(q)
    BY DEF Reaping, PickInv
  <2> QED
    BY <2>1, <2>2, <2>3, <2>4 DEF SingleOwner, Disjoint
<1>5. NoDangling'
  BY DEF NoDangling, Listed, Queued, Reaping, Chosen
<1>6. ReapOnlyDead'
  BY DEF ReapOnlyDead, Queued, Reaping, RunningInv, Held, Listed
<1>7. ExitNeverReturns'
  BY DEF ExitNeverReturns
<1>8. CriticalInv'
  BY DEF CriticalInv
<1>9. PickInv'
  BY DEF PickInv, Listed
<1>10. KmainInv'
  BY DEF KmainInv
<1>11. ExitInv'
  BY DEF ExitInv
<1>12. RunningInv'
  BY DEF RunningInv, Held, Listed, Queued, Reaping
<1> QED
  BY <1>1, <1>2, <1>3, <1>4, <1>5, <1>6, <1>7, <1>8, <1>9, <1>10, <1>11, <1>12,
         Zenon DEF IInv, SingleOwner

\* Starting the timer at the end of kmain preserves IInv.
LEMMA KmainStart_Step ==
    ASSUME IInv, KmainStart
    PROVE  IInv'
<1> USE MaxAssumption, ProcAssumption
    DEF IInv, TypeOK, ReaperAt, Context, PC, UserPC, KernelPC, ExitPC,
           ReaperPC, States, Memory, Slots, Proc, Programs, KmainStart, vars,
           schedVars, procVars, reapVars
<1>1. TypeOK'
  BY DEF PickInv
<1>2. Injective(process_list)'
  BY DEF SingleOwner, Injective
<1>3. Injective(process_list_reap)'
  BY DEF SingleOwner, Injective
<1>4. Disjoint'
  <2>1. ReaperAt' = ReaperAt
    BY DEF PickInv
  <2>2. \A q \in Proc : /\ Listed(q)' = Listed(q)
                        /\ Queued(q)' = Queued(q)
                        /\ Reaping(q)' = Reaping(q)
    BY <2>1 DEF Listed, Queued, Reaping
  <2> QED
    BY <2>2 DEF SingleOwner, Disjoint
<1>5. NoDangling'
  BY DEF NoDangling, Listed, Queued, Reaping, Chosen, PickInv
<1>6. ReapOnlyDead'
  BY DEF ReapOnlyDead, Queued, Reaping, PickInv
<1>7. ExitNeverReturns'
  BY DEF ExitNeverReturns
<1>8. CriticalInv'
  BY DEF CriticalInv, PickInv
<1>9. PickInv'
  BY DEF PickInv, Listed
<1>10. KmainInv'
  BY DEF KmainInv
<1>11. ExitInv'
  BY DEF ExitInv, PickInv
<1>12. RunningInv'
  BY DEF RunningInv, Held, Listed, Queued, Reaping, PickInv
<1> QED
  BY <1>1, <1>2, <1>3, <1>4, <1>5, <1>6, <1>7, <1>8, <1>9, <1>10, <1>11, <1>12,
         Zenon DEF IInv, SingleOwner

\* kmain creating a program, and listing it if there is room, preserves IInv.
LEMMA KmainProgram_Step ==
    ASSUME NEW p \in Programs, IInv, KmainProgram(p)
    PROVE  IInv'
<1> USE MaxAssumption, ProcAssumption
    DEF IInv, TypeOK, ReaperAt, Context, PC, UserPC, KernelPC, ExitPC,
           ReaperPC, States, Memory, Slots, Proc, Programs, KmainProgram,
           process_create, scheduler_add_process, HasNull, FirstNull, Entry,
           vars, schedVars, procVars, reapVars
<1>1. TypeOK'
  OBVIOUS
<1>2. Injective(process_list)'
  <2>1. \A i \in Slots : process_list[i] # p
    BY DEF RunningInv, Held, Listed
  <2>2. CASE HasNull(process_list)
    <3>1. PICK k \in Slots : process_list' = [process_list EXCEPT ![k] = p]
      BY <2>2
    <3>2. \A i \in Slots : process_list'[i] = IF i = k THEN p ELSE process_list[i]
      BY <3>1
    <3> QED
      BY <2>1, <3>2 DEF SingleOwner, Injective
  <2>3. CASE ~ HasNull(process_list)
    BY <2>3 DEF SingleOwner, Injective
  <2> QED
    BY <2>2, <2>3
<1>3. Injective(process_list_reap)'
  BY DEF SingleOwner, Injective
<1>4. Disjoint'
  <2>1. ~ Listed(p) /\ ~ Queued(p) /\ ~ Reaping(p)
    BY DEF RunningInv, Held
  <2>2. \A q \in Proc : Listed(q)' => Listed(q) \/ q = p
    BY DEF Listed
  <2>3. \A q \in Proc : Queued(q)' = Queued(q)
    BY DEF Queued
  <2>4. \A q \in Proc : Reaping(q)' => Reaping(q)
    BY DEF Reaping, PickInv
  <2> QED
    BY <2>1, <2>2, <2>3, <2>4 DEF SingleOwner, Disjoint
<1>5. NoDangling'
  BY DEF NoDangling, Listed, Queued, Reaping, Chosen
<1>6. ReapOnlyDead'
  BY DEF ReapOnlyDead, Queued, Reaping, RunningInv, Held, Listed
<1>7. ExitNeverReturns'
  BY DEF ExitNeverReturns
<1>8. CriticalInv'
  BY DEF CriticalInv
<1>9. PickInv'
  BY DEF PickInv, Listed
<1>10. KmainInv'
  BY DEF KmainInv
<1>11. ExitInv'
  BY DEF ExitInv
<1>12. RunningInv'
  BY DEF RunningInv, Held, Listed, Queued, Reaping
<1> QED
  BY <1>1, <1>2, <1>3, <1>4, <1>5, <1>6, <1>7, <1>8, <1>9, <1>10, <1>11, <1>12,
         Zenon DEF IInv, SingleOwner

\* A timer interrupt entering scheduler_loop preserves IInv: it never comes from
\* the reaper's critical section, where IF is clear.
LEMMA Timer_Step ==
    ASSUME IInv, Timer
    PROVE  IInv'
<1> USE MaxAssumption, ProcAssumption
    DEF IInv, TypeOK, ReaperAt, Context, PC, UserPC, KernelPC, ExitPC,
           ReaperPC, States, Memory, Slots, Proc, Programs, Timer,
           EnterScheduler, vars, schedVars, procVars, reapVars
<1>1. TypeOK'
  OBVIOUS
<1>2. Injective(process_list)'
  BY DEF SingleOwner, Injective
<1>3. Injective(process_list_reap)'
  BY DEF SingleOwner, Injective
<1>4. Disjoint'
  BY Zenon DEF SingleOwner, Disjoint, Listed, Queued, Reaping
<1>5. NoDangling'
  BY DEF NoDangling, Listed, Queued, Reaping, Chosen
<1>6. ReapOnlyDead'
  BY DEF ReapOnlyDead, Queued, Reaping
<1>7. ExitNeverReturns'
  BY DEF ExitNeverReturns
<1>8. CriticalInv'
  BY DEF CriticalInv
<1>9. PickInv'
  BY DEF PickInv, Listed
<1>10. KmainInv'
  BY DEF KmainInv
<1>11. ExitInv'
  BY DEF ExitInv, ExitNeverReturns
<1>12. RunningInv'
  BY DEF RunningInv, Held, Listed, Queued, Reaping
<1> QED
  BY <1>1, <1>2, <1>3, <1>4, <1>5, <1>6, <1>7, <1>8, <1>9, <1>10, <1>11, <1>12,
         Zenon DEF IInv, SingleOwner

\* The int 0xFF of syscall_yield preserves IInv.
LEMMA syscall_yield_Step ==
    ASSUME NEW p \in Programs, IInv, syscall_yield(p)
    PROVE  IInv'
<1> USE MaxAssumption, ProcAssumption
    DEF IInv, TypeOK, ReaperAt, Context, PC, UserPC, KernelPC, ExitPC,
           ReaperPC, States, Memory, Slots, Proc, Programs, syscall_yield,
           vars, schedVars, procVars, reapVars
<1>1. TypeOK'
  OBVIOUS
<1>2. Injective(process_list)'
  BY DEF SingleOwner, Injective
<1>3. Injective(process_list_reap)'
  BY DEF SingleOwner, Injective
<1>4. Disjoint'
  BY Zenon DEF SingleOwner, Disjoint, Listed, Queued, Reaping
<1>5. NoDangling'
  BY DEF NoDangling, Listed, Queued, Reaping, Chosen
<1>6. ReapOnlyDead'
  BY DEF ReapOnlyDead, Queued, Reaping
<1>7. ExitNeverReturns'
  BY DEF ExitNeverReturns
<1>8. CriticalInv'
  BY DEF CriticalInv
<1>9. PickInv'
  BY DEF PickInv, Listed
<1>10. KmainInv'
  BY DEF KmainInv
<1>11. ExitInv'
  BY DEF ExitInv
<1>12. RunningInv'
  BY DEF RunningInv, Held, Listed, Queued, Reaping
<1> QED
  BY <1>1, <1>2, <1>3, <1>4, <1>5, <1>6, <1>7, <1>8, <1>9, <1>10, <1>11, <1>12,
         Zenon DEF IInv, SingleOwner

\* syscall_exit marking the running program DEAD preserves IInv.
LEMMA syscall_exit_Step ==
    ASSUME NEW p \in Programs, IInv, syscall_exit(p)
    PROVE  IInv'
<1> USE MaxAssumption, ProcAssumption
    DEF IInv, TypeOK, ReaperAt, Context, PC, UserPC, KernelPC, ExitPC,
           ReaperPC, States, Memory, Slots, Proc, Programs, syscall_exit,
           Entry, vars, schedVars, procVars, reapVars
<1>1. TypeOK'
  OBVIOUS
<1>2. Injective(process_list)'
  BY DEF SingleOwner, Injective
<1>3. Injective(process_list_reap)'
  BY DEF SingleOwner, Injective
<1>4. Disjoint'
  BY Zenon DEF SingleOwner, Disjoint, Listed, Queued, Reaping
<1>5. NoDangling'
  BY DEF NoDangling, Listed, Queued, Reaping, Chosen
<1>6. ReapOnlyDead'
  BY DEF ReapOnlyDead, Queued, Reaping
<1>7. ExitNeverReturns'
  BY DEF ExitNeverReturns
<1>8. CriticalInv'
  BY DEF CriticalInv
<1>9. PickInv'
  BY DEF PickInv, Listed
<1>10. KmainInv'
  BY DEF KmainInv
<1>11. ExitInv'
  BY DEF ExitInv
<1>12. RunningInv'
  BY DEF RunningInv, Held, Listed, Queued, Reaping
<1> QED
  BY <1>1, <1>2, <1>3, <1>4, <1>5, <1>6, <1>7, <1>8, <1>9, <1>10, <1>11, <1>12,
         Zenon DEF IInv, SingleOwner

\* The int 0xFF of syscall_exit preserves IInv: its return address goes with a
\* DEAD process.
LEMMA ExitYield_Step ==
    ASSUME IInv, ExitYield
    PROVE  IInv'
<1> USE MaxAssumption, ProcAssumption
    DEF IInv, TypeOK, ReaperAt, Context, PC, UserPC, KernelPC, ExitPC,
           ReaperPC, States, Memory, Slots, Proc, Programs, ExitYield,
           EnterScheduler, vars, schedVars, procVars, reapVars
<1>1. TypeOK'
  OBVIOUS
<1>2. Injective(process_list)'
  BY DEF SingleOwner, Injective
<1>3. Injective(process_list_reap)'
  BY DEF SingleOwner, Injective
<1>4. Disjoint'
  BY Zenon DEF SingleOwner, Disjoint, Listed, Queued, Reaping
<1>5. NoDangling'
  BY DEF NoDangling, Listed, Queued, Reaping, Chosen
<1>6. ReapOnlyDead'
  BY DEF ReapOnlyDead, Queued, Reaping
<1>7. ExitNeverReturns'
  BY DEF ExitNeverReturns
<1>8. CriticalInv'
  BY DEF CriticalInv
<1>9. PickInv'
  BY DEF PickInv, Listed
<1>10. KmainInv'
  BY DEF KmainInv
<1>11. ExitInv'
  BY DEF ExitInv
<1>12. RunningInv'
  BY DEF RunningInv, Held, Listed, Queued, Reaping
<1> QED
  BY <1>1, <1>2, <1>3, <1>4, <1>5, <1>6, <1>7, <1>8, <1>9, <1>10, <1>11, <1>12,
         Zenon DEF IInv, SingleOwner

\* scheduler_loop passing an empty slot preserves IInv.
LEMMA ScanEmpty_Step ==
    ASSUME IInv, ScanEmpty
    PROVE  IInv'
<1> USE MaxAssumption, ProcAssumption
    DEF IInv, TypeOK, ReaperAt, Context, PC, UserPC, KernelPC, ExitPC,
           ReaperPC, States, Memory, Slots, Proc, Programs, ScanEmpty,
           Continue, Wrapped, MoreLoops, vars, schedVars, procVars, reapVars
<1>1. TypeOK'
  BY DEF PickInv
<1>2. Injective(process_list)'
  BY DEF SingleOwner, Injective
<1>3. Injective(process_list_reap)'
  BY DEF SingleOwner, Injective
<1>4. Disjoint'
  BY Zenon DEF SingleOwner, Disjoint, Listed, Queued, Reaping
<1>5. NoDangling'
  BY DEF NoDangling, Listed, Queued, Reaping, Chosen, PickInv
<1>6. ReapOnlyDead'
  BY DEF ReapOnlyDead, Queued, Reaping
<1>7. ExitNeverReturns'
  BY DEF ExitNeverReturns
<1>8. CriticalInv'
  BY DEF CriticalInv
<1>9. PickInv'
  BY DEF PickInv, Listed
<1>10. KmainInv'
  BY DEF KmainInv
<1>11. ExitInv'
  BY DEF ExitInv
<1>12. RunningInv'
  BY DEF RunningInv, Held, Listed, Queued, Reaping
<1> QED
  BY <1>1, <1>2, <1>3, <1>4, <1>5, <1>6, <1>7, <1>8, <1>9, <1>10, <1>11, <1>12,
         Zenon DEF IInv, SingleOwner

\* scheduler_loop moving a DEAD process to the reap list preserves IInv: the one
\* list loses what the other gains.
LEMMA ScanDead_Step ==
    ASSUME IInv, ScanDead
    PROVE  IInv'
<1> USE MaxAssumption, ProcAssumption
    DEF IInv, TypeOK, ReaperAt, Context, PC, UserPC, KernelPC, ExitPC,
           ReaperPC, States, Memory, Slots, Proc, Programs, ScanDead, Exited,
           Continue, Wrapped, MoreLoops, HasNull, FirstNull,
           reaper_add_process, ClearListSlot, vars, schedVars, procVars,
           reapVars
<1>1. TypeOK'
  <2>1. Wrapped \in Slots /\ process_list[Wrapped] \in Proc
    OBVIOUS
  <2>2. process_list' \in [Slots -> Proc \cup {NULL}]
    OBVIOUS
  <2>3. process_list_reap' \in [Slots -> Proc \cup {NULL}]
    BY <2>1
  <2>4. loops' \in 0 .. MAX /\ scheduler_next' \in 0 .. MAX + 1
    BY DEF PickInv
  <2>5. ReaperAt' = ReaperAt
    BY DEF PickInv
  <2> QED
    BY <2>2, <2>3, <2>4, <2>5
<1>2. Injective(process_list)'
  BY DEF SingleOwner, Injective
<1>3. Injective(process_list_reap)'
  <2> DEFINE proc == process_list[Wrapped]
  <2>1. Wrapped \in Slots /\ proc \in Proc /\ Listed(proc)
    BY DEF Listed
  <2>2. \A i \in Slots : process_list_reap[i] # proc
    BY <2>1 DEF SingleOwner, Disjoint, Queued
  <2>3. CASE HasNull(process_list_reap)
    <3>1. PICK k \in Slots :
             process_list_reap' = [process_list_reap EXCEPT ![k] = proc]
      BY <2>3
    <3>2. \A i \in Slots : process_list_reap'[i] =
             IF i = k THEN proc ELSE process_list_reap[i]
      BY <3>1
    <3> HIDE DEF proc
    <3> QED
      BY <2>2, <3>2 DEF SingleOwner, Injective
  <2>4. CASE ~ HasNull(process_list_reap)
    BY <2>4 DEF SingleOwner, Injective
  <2> QED
    BY <2>3, <2>4
<1>4. Disjoint'
  <2> DEFINE proc == process_list[Wrapped]
  <2>1. Wrapped \in Slots /\ proc \in Proc /\ Listed(proc)
    BY DEF Listed
  <2>2. \A q \in Proc : Reaping(q)' = Reaping(q)
    BY DEF Reaping
  <2>3. CASE HasNull(process_list_reap)
    <3>1. \A q \in Proc : Listed(q)' => Listed(q) /\ q # proc
      BY <2>1, <2>3 DEF SingleOwner, Injective, Listed
    <3>2. \A q \in Proc : Queued(q)' => Queued(q) \/ q = proc
      BY <2>1, <2>3 DEF Queued
    <3> HIDE DEF proc
    <3> QED
      BY <2>1, <2>2, <3>1, <3>2 DEF SingleOwner, Disjoint
  <2>4. CASE ~ HasNull(process_list_reap)
    BY <2>2, <2>4 DEF SingleOwner, Disjoint, Listed, Queued
  <2> QED
    BY <2>3, <2>4
<1>5. NoDangling'
  BY DEF NoDangling, Listed, Queued, Reaping, Chosen, PickInv
<1>6. ReapOnlyDead'
  BY DEF ReapOnlyDead, Queued, Reaping
<1>7. ExitNeverReturns'
  BY DEF ExitNeverReturns
<1>8. CriticalInv'
  BY DEF CriticalInv
<1>9. PickInv'
  BY DEF PickInv, Listed
<1>10. KmainInv'
  BY DEF KmainInv
<1>11. ExitInv'
  BY DEF ExitInv
<1>12. RunningInv'
  BY DEF RunningInv, Held, Listed, Queued, Reaping
<1> QED
  BY <1>1, <1>2, <1>3, <1>4, <1>5, <1>6, <1>7, <1>8, <1>9, <1>10, <1>11, <1>12,
         Zenon DEF IInv, SingleOwner

\* scheduler_loop choosing a process preserves IInv.
LEMMA ScanPick_Step ==
    ASSUME IInv, ScanPick
    PROVE  IInv'
<1> USE MaxAssumption, ProcAssumption
    DEF IInv, TypeOK, ReaperAt, Context, PC, UserPC, KernelPC, ExitPC,
           ReaperPC, States, Memory, Slots, Proc, Programs, ScanPick, Exited,
           Wrapped, vars, schedVars, procVars, reapVars
<1>1. TypeOK'
  OBVIOUS
<1>2. Injective(process_list)'
  BY DEF SingleOwner, Injective
<1>3. Injective(process_list_reap)'
  BY DEF SingleOwner, Injective
<1>4. Disjoint'
  BY Zenon DEF SingleOwner, Disjoint, Listed, Queued, Reaping
<1>5. NoDangling'
  BY DEF NoDangling, Listed, Queued, Reaping, Chosen
<1>6. ReapOnlyDead'
  BY DEF ReapOnlyDead, Queued, Reaping
<1>7. ExitNeverReturns'
  BY DEF ExitNeverReturns
<1>8. CriticalInv'
  BY DEF CriticalInv
<1>9. PickInv'
  BY DEF PickInv, Listed
<1>10. KmainInv'
  BY DEF KmainInv
<1>11. ExitInv'
  BY DEF ExitInv
<1>12. RunningInv'
  BY DEF RunningInv, Held, Listed, Queued, Reaping
<1> QED
  BY <1>1, <1>2, <1>3, <1>4, <1>5, <1>6, <1>7, <1>8, <1>9, <1>10, <1>11, <1>12,
         Zenon DEF IInv, SingleOwner

\* The context switch at the end of scheduler_loop preserves IInv: what is saved
\* is not DEAD, and what is resumed is listed or idle.
LEMMA Dispatch_Step ==
    ASSUME IInv, Dispatch
    PROVE  IInv'
<1> USE MaxAssumption, ProcAssumption
    DEF IInv, TypeOK, ReaperAt, Context, PC, UserPC, KernelPC, ExitPC,
           ReaperPC, States, Memory, Slots, Proc, Programs, Dispatch, Chosen,
           process_save_state, process_jump,
           Preempted, NextSlot, vars, schedVars, procVars, reapVars
<1>1. TypeOK'
  BY DEF PickInv, ExitInv
<1>2. Injective(process_list)'
  BY DEF SingleOwner, Injective
<1>3. Injective(process_list_reap)'
  BY DEF SingleOwner, Injective
<1>4. Disjoint'
  <2>1. ReaperAt' = ReaperAt
    BY DEF PickInv, ExitInv
  <2>2. \A q \in Proc : /\ Listed(q)' = Listed(q)
                        /\ Queued(q)' = Queued(q)
                        /\ Reaping(q)' = Reaping(q)
    BY <2>1 DEF Listed, Queued, Reaping
  <2> QED
    BY <2>2 DEF SingleOwner, Disjoint
<1>5. NoDangling'
  BY DEF NoDangling, Listed, Queued, Reaping, Chosen, ExitInv
<1>6. ReapOnlyDead'
  BY DEF ReapOnlyDead, Queued, Reaping, PickInv, ExitInv
<1>7. ExitNeverReturns'
  BY DEF ExitNeverReturns, ExitInv
<1>8. CriticalInv'
  BY DEF CriticalInv, ExitInv
<1>9. PickInv'
  BY DEF PickInv, Listed
<1>10. KmainInv'
  BY DEF KmainInv
<1>11. ExitInv'
  BY DEF ExitInv
<1>12. RunningInv'
  BY DEF RunningInv, Held, Listed, Queued, Reaping, PickInv, ExitInv
<1> QED
  BY <1>1, <1>2, <1>3, <1>4, <1>5, <1>6, <1>7, <1>8, <1>9, <1>10, <1>11, <1>12,
         Zenon DEF IInv, SingleOwner

\* reaper_run wrapping its cursor and disabling interrupts preserves IInv.
LEMMA ReaperCli_Step ==
    ASSUME IInv, ReaperCli
    PROVE  IInv'
<1> USE MaxAssumption, ProcAssumption
    DEF IInv, TypeOK, ReaperAt, Context, PC, UserPC, KernelPC, ExitPC,
           ReaperPC, States, Memory, Slots, Proc, Programs, ReaperCli,
           AtReaper, WrappedCursor, idt64_disable_interrupts, vars, schedVars,
           procVars, reapVars
<1>1. TypeOK'
  OBVIOUS
<1>2. Injective(process_list)'
  BY DEF SingleOwner, Injective
<1>3. Injective(process_list_reap)'
  BY DEF SingleOwner, Injective
<1>4. Disjoint'
  BY Zenon DEF SingleOwner, Disjoint, Listed, Queued, Reaping
<1>5. NoDangling'
  BY DEF NoDangling, Listed, Queued, Reaping, Chosen
<1>6. ReapOnlyDead'
  BY DEF ReapOnlyDead, Queued, Reaping
<1>7. ExitNeverReturns'
  BY DEF ExitNeverReturns
<1>8. CriticalInv'
  BY DEF CriticalInv
<1>9. PickInv'
  BY DEF PickInv, Listed
<1>10. KmainInv'
  BY DEF KmainInv
<1>11. ExitInv'
  BY DEF ExitInv
<1>12. RunningInv'
  BY DEF RunningInv, Held, Listed, Queued, Reaping
<1> QED
  BY <1>1, <1>2, <1>3, <1>4, <1>5, <1>6, <1>7, <1>8, <1>9, <1>10, <1>11, <1>12,
         Zenon DEF IInv, SingleOwner

\* reaper_run reading a slot preserves IInv.
LEMMA ReaperRead_Step ==
    ASSUME IInv, ReaperRead
    PROVE  IInv'
<1> USE MaxAssumption, ProcAssumption
    DEF IInv, TypeOK, ReaperAt, Context, PC, UserPC, KernelPC, ExitPC,
           ReaperPC, States, Memory, Slots, Proc, Programs, ReaperRead,
           AtReaper, vars, schedVars, procVars, reapVars
<1>1. TypeOK'
  OBVIOUS
<1>2. Injective(process_list)'
  BY DEF SingleOwner, Injective
<1>3. Injective(process_list_reap)'
  BY DEF SingleOwner, Injective
<1>4. Disjoint'
  BY Zenon DEF SingleOwner, Disjoint, Listed, Queued, Reaping
<1>5. NoDangling'
  BY DEF NoDangling, Listed, Queued, Reaping, Chosen
<1>6. ReapOnlyDead'
  BY DEF ReapOnlyDead, Queued, Reaping
<1>7. ExitNeverReturns'
  BY DEF ExitNeverReturns
<1>8. CriticalInv'
  BY DEF CriticalInv
<1>9. PickInv'
  BY DEF PickInv, Listed
<1>10. KmainInv'
  BY DEF KmainInv
<1>11. ExitInv'
  BY DEF ExitInv
<1>12. RunningInv'
  BY DEF RunningInv, Held, Listed, Queued, Reaping
<1> QED
  BY <1>1, <1>2, <1>3, <1>4, <1>5, <1>6, <1>7, <1>8, <1>9, <1>10, <1>11, <1>12,
         Zenon DEF IInv, SingleOwner

\* reaper_run clearing the slot it read preserves IInv: the process passes from
\* the list to process_to_reap.
LEMMA ReaperClear_Step ==
    ASSUME IInv, ReaperClear
    PROVE  IInv'
<1> USE MaxAssumption, ProcAssumption
    DEF IInv, TypeOK, ReaperAt, Context, PC, UserPC, KernelPC, ExitPC,
           ReaperPC, States, Memory, Slots, Proc, Programs, ReaperClear,
           AtReaper, ClearReapSlot, idt64_enable_interrupts, vars, schedVars,
           procVars, reapVars
<1>1. TypeOK'
  OBVIOUS
<1>2. Injective(process_list)'
  BY DEF SingleOwner, Injective
<1>3. Injective(process_list_reap)'
  BY DEF SingleOwner, Injective
<1>4. Disjoint'
  <2>1. \A q \in Proc : Listed(q)' = Listed(q)
    BY DEF Listed
  <2>2. reaper_cursor \in Slots
    OBVIOUS
  <2>3. \A q \in Proc : Queued(q)' => Queued(q) /\ q # process_to_reap
    BY <2>2 DEF CriticalInv, Queued, SingleOwner, Injective
  <2>4. \A q \in Proc : Reaping(q)' => Queued(q) /\ q = process_to_reap
    BY <2>2 DEF CriticalInv, Queued, Reaping
  <2> QED
    BY <2>1, <2>3, <2>4 DEF SingleOwner, Disjoint
<1>5. NoDangling'
  BY DEF NoDangling, Listed, Queued, Reaping, Chosen, CriticalInv
<1>6. ReapOnlyDead'
  BY DEF ReapOnlyDead, Queued, Reaping, CriticalInv
<1>7. ExitNeverReturns'
  BY DEF ExitNeverReturns
<1>8. CriticalInv'
  BY DEF CriticalInv
<1>9. PickInv'
  BY DEF PickInv, Listed
<1>10. KmainInv'
  BY DEF KmainInv
<1>11. ExitInv'
  BY DEF ExitInv
<1>12. RunningInv'
  BY DEF RunningInv, Held, Listed, Queued, Reaping, CriticalInv
<1> QED
  BY <1>1, <1>2, <1>3, <1>4, <1>5, <1>6, <1>7, <1>8, <1>9, <1>10, <1>11, <1>12,
         Zenon DEF IInv, SingleOwner

\* reaper_run advancing its cursor preserves IInv.
LEMMA ReaperAdvance_Step ==
    ASSUME IInv, ReaperAdvance
    PROVE  IInv'
<1> USE MaxAssumption, ProcAssumption
    DEF IInv, TypeOK, ReaperAt, Context, PC, UserPC, KernelPC, ExitPC,
           ReaperPC, States, Memory, Slots, Proc, Programs, ReaperAdvance,
           AtReaper, vars, schedVars, procVars, reapVars
<1>1. TypeOK'
  <2>1. reaper_cursor' \in 0 .. MAX
    OBVIOUS
  <2>2. cpu' \in Context /\ ReaperAt' \in {"destroy", "halt"}
    BY Zenon
  <2> QED
    BY <2>1, <2>2
<1>2. Injective(process_list)'
  BY DEF SingleOwner, Injective
<1>3. Injective(process_list_reap)'
  BY DEF SingleOwner, Injective
<1>4. Disjoint'
  BY Zenon DEF SingleOwner, Disjoint, Listed, Queued, Reaping
<1>5. NoDangling'
  BY DEF NoDangling, Listed, Queued, Reaping, Chosen
<1>6. ReapOnlyDead'
  BY DEF ReapOnlyDead, Queued, Reaping
<1>7. ExitNeverReturns'
  BY DEF ExitNeverReturns
<1>8. CriticalInv'
  BY DEF CriticalInv
<1>9. PickInv'
  BY DEF PickInv, Listed
<1>10. KmainInv'
  BY DEF KmainInv
<1>11. ExitInv'
  BY DEF ExitInv
<1>12. RunningInv'
  BY DEF RunningInv, Held, Listed, Queued, Reaping
<1> QED
  BY <1>1, <1>2, <1>3, <1>4, <1>5, <1>6, <1>7, <1>8, <1>9, <1>10, <1>11, <1>12,
         Zenon DEF IInv, SingleOwner

\* process_destroy preserves IInv: nobody else points to the process.
LEMMA process_destroy_Step ==
    ASSUME IInv, process_destroy
    PROVE  IInv'
<1> USE MaxAssumption, ProcAssumption
    DEF IInv, TypeOK, ReaperAt, Context, PC, UserPC, KernelPC, ExitPC,
           ReaperPC, States, Memory, Slots, Proc, Programs, process_destroy,
           AtReaper, vars, schedVars, procVars, reapVars
<1>1. TypeOK'
  <2>1. memory' \in [Proc -> Memory]
    BY Zenon
  <2>2. cpu' \in Context /\ ReaperAt' \in {"kfree"}
    BY Zenon
  <2> QED
    BY <2>1, <2>2
<1>2. Injective(process_list)'
  BY DEF SingleOwner, Injective
<1>3. Injective(process_list_reap)'
  BY DEF SingleOwner, Injective
<1>4. Disjoint'
  BY Zenon DEF SingleOwner, Disjoint, Listed, Queued, Reaping
<1>5. NoDangling'
  BY DEF NoDangling, Listed, Queued, Reaping, Chosen, SingleOwner, Injective,
         Disjoint, ReapOnlyDead, RunningInv, Held
<1>6. ReapOnlyDead'
  BY DEF ReapOnlyDead, Queued, Reaping
<1>7. ExitNeverReturns'
  BY DEF ExitNeverReturns
<1>8. CriticalInv'
  BY DEF CriticalInv
<1>9. PickInv'
  BY DEF PickInv, Listed, ReapOnlyDead, Queued, Reaping, ExitInv
<1>10. KmainInv'
  BY DEF KmainInv
<1>11. ExitInv'
  BY DEF ExitInv
<1>12. RunningInv'
  BY DEF RunningInv, Held, Listed, Queued, Reaping
<1> QED
  BY <1>1, <1>2, <1>3, <1>4, <1>5, <1>6, <1>7, <1>8, <1>9, <1>10, <1>11, <1>12,
         Zenon DEF IInv, SingleOwner

\* The kfree in reaper_run preserves IInv.
LEMMA ReaperFree_Step ==
    ASSUME IInv, ReaperFree
    PROVE  IInv'
<1> USE MaxAssumption, ProcAssumption
    DEF IInv, TypeOK, ReaperAt, Context, PC, UserPC, KernelPC, ExitPC,
           ReaperPC, States, Memory, Slots, Proc, Programs, ReaperFree,
           AtReaper, vars, schedVars, procVars, reapVars
<1>1. TypeOK'
  <2>1. memory' \in [Proc -> Memory]
    BY Zenon
  <2>2. cpu' \in Context /\ ReaperAt' = "yield"
    BY Zenon
  <2> QED
    BY <2>1, <2>2
<1>2. Injective(process_list)'
  BY DEF SingleOwner, Injective
<1>3. Injective(process_list_reap)'
  BY DEF SingleOwner, Injective
<1>4. Disjoint'
  BY Zenon DEF SingleOwner, Disjoint, Listed, Queued, Reaping
<1>5. NoDangling'
  BY DEF NoDangling, Listed, Queued, Reaping, Chosen
<1>6. ReapOnlyDead'
  BY DEF ReapOnlyDead, Queued, Reaping
<1>7. ExitNeverReturns'
  BY DEF ExitNeverReturns
<1>8. CriticalInv'
  BY DEF CriticalInv
<1>9. PickInv'
  BY DEF PickInv, Listed, ReapOnlyDead, Queued, Reaping, ExitInv
<1>10. KmainInv'
  BY DEF KmainInv
<1>11. ExitInv'
  BY DEF ExitInv
<1>12. RunningInv'
  BY DEF RunningInv, Held, Listed, Queued, Reaping
<1> QED
  BY <1>1, <1>2, <1>3, <1>4, <1>5, <1>6, <1>7, <1>8, <1>9, <1>10, <1>11, <1>12,
         Zenon DEF IInv, SingleOwner

\* The scheduler_yield in reaper_run preserves IInv.
LEMMA ReaperYield_Step ==
    ASSUME IInv, ReaperYield
    PROVE  IInv'
<1> USE MaxAssumption, ProcAssumption
    DEF IInv, TypeOK, ReaperAt, Context, PC, UserPC, KernelPC, ExitPC,
           ReaperPC, States, Memory, Slots, Proc, Programs, ReaperYield,
           AtReaper, EnterScheduler, vars, schedVars, procVars, reapVars
<1>1. TypeOK'
  <2>1. frame' \in Context /\ cpu' \in Context /\ ReaperAt' = "top"
    OBVIOUS
  <2> QED
    BY <2>1
<1>2. Injective(process_list)'
  BY DEF SingleOwner, Injective
<1>3. Injective(process_list_reap)'
  BY DEF SingleOwner, Injective
<1>4. Disjoint'
  BY Zenon DEF SingleOwner, Disjoint, Listed, Queued, Reaping
<1>5. NoDangling'
  BY DEF NoDangling, Listed, Queued, Reaping, Chosen
<1>6. ReapOnlyDead'
  BY DEF ReapOnlyDead, Queued, Reaping
<1>7. ExitNeverReturns'
  BY DEF ExitNeverReturns
<1>8. CriticalInv'
  BY DEF CriticalInv
<1>9. PickInv'
  BY DEF PickInv, Listed
<1>10. KmainInv'
  BY DEF KmainInv
<1>11. ExitInv'
  BY DEF ExitInv
<1>12. RunningInv'
  BY DEF RunningInv, Held, Listed, Queued, Reaping
<1> QED
  BY <1>1, <1>2, <1>3, <1>4, <1>5, <1>6, <1>7, <1>8, <1>9, <1>10, <1>11, <1>12,
         Zenon DEF IInv, SingleOwner

\* kernel_halt in reaper_run preserves IInv.
LEMMA kernel_halt_Step ==
    ASSUME IInv, kernel_halt
    PROVE  IInv'
<1> USE MaxAssumption, ProcAssumption
    DEF IInv, TypeOK, ReaperAt, Context, PC, UserPC, KernelPC, ExitPC,
           ReaperPC, States, Memory, Slots, Proc, Programs, kernel_halt,
           AtReaper, vars, schedVars, procVars, reapVars
<1>1. TypeOK'
  <2>1. memory' \in [Proc -> Memory]
    BY Zenon
  <2>2. cpu' \in Context /\ ReaperAt' \in {"halted"}
    BY Zenon
  <2> QED
    BY <2>1, <2>2
<1>2. Injective(process_list)'
  BY DEF SingleOwner, Injective
<1>3. Injective(process_list_reap)'
  BY DEF SingleOwner, Injective
<1>4. Disjoint'
  BY Zenon DEF SingleOwner, Disjoint, Listed, Queued, Reaping
<1>5. NoDangling'
  BY DEF NoDangling, Listed, Queued, Reaping, Chosen
<1>6. ReapOnlyDead'
  BY DEF ReapOnlyDead, Queued, Reaping
<1>7. ExitNeverReturns'
  BY DEF ExitNeverReturns
<1>8. CriticalInv'
  BY DEF CriticalInv
<1>9. PickInv'
  BY DEF PickInv, Listed
<1>10. KmainInv'
  BY DEF KmainInv
<1>11. ExitInv'
  BY DEF ExitInv
<1>12. RunningInv'
  BY DEF RunningInv, Held, Listed, Queued, Reaping
<1> QED
  BY <1>1, <1>2, <1>3, <1>4, <1>5, <1>6, <1>7, <1>8, <1>9, <1>10, <1>11, <1>12,
         Zenon DEF IInv, SingleOwner

-----------------------------------------------------------------------------

\* The state kmain starts from satisfies IInv.
LEMMA InitInv == Init => IInv
<1> SUFFICES ASSUME Init PROVE IInv
  OBVIOUS
<1> USE MaxAssumption, ProcAssumption DEF Init, Slots, Proc, Programs
<1>1. TypeOK
  BY DEF TypeOK, ReaperAt, Context, PC, UserPC, KernelPC, ExitPC, ReaperPC,
         States, Memory
<1>2. \A p \in Proc : ~ Listed(p) /\ ~ Queued(p) /\ ~ Reaping(p)
  BY DEF Listed, Queued, Reaping, ReaperAt
<1>3. SingleOwner /\ NoDangling /\ ReapOnlyDead /\ ExitNeverReturns
  BY <1>2 DEF SingleOwner, Injective, Disjoint, NoDangling, ReapOnlyDead,
              ExitNeverReturns
<1>4. CriticalInv /\ PickInv /\ KmainInv /\ ExitInv /\ RunningInv
  BY <1>2 DEF CriticalInv, PickInv, KmainInv, ExitInv, RunningInv, ReaperAt, Held
<1> QED
  BY <1>1, <1>3, <1>4 DEF IInv

\* Every step of the kernel preserves IInv: one lemma per action.
LEMMA NextInv == IInv /\ [Next]_vars => IInv'
<1> SUFFICES ASSUME IInv, [Next]_vars PROVE IInv'
  OBVIOUS
<1>1. CASE Kmain
  BY <1>1, KmainIdle_Step, KmainReaper_Step, KmainStart_Step,
     KmainProgram_Step DEF Kmain
<1>2. CASE Timer
  BY <1>2, Timer_Step
<1>3. CASE \E p \in Yielding : syscall_yield(p)
  BY <1>3, syscall_yield_Step, ProcAssumption DEF Programs
<1>4. CASE \E p \in Programs : syscall_exit(p)
  BY <1>4, syscall_exit_Step
<1>5. CASE ExitYield
  BY <1>5, ExitYield_Step
<1>6. CASE Scan
  BY <1>6, ScanEmpty_Step, ScanDead_Step, ScanPick_Step DEF Scan
<1>7. CASE Dispatch
  BY <1>7, Dispatch_Step
<1>8. CASE ReaperStep
  BY <1>8, ReaperCli_Step, ReaperRead_Step, ReaperClear_Step,
     ReaperAdvance_Step, process_destroy_Step, ReaperFree_Step,
     ReaperYield_Step, kernel_halt_Step DEF ReaperStep
<1>9. CASE Undefined \/ UNCHANGED vars
  <2> USE DEF vars, schedVars, procVars, reapVars
  <2>1. UNCHANGED vars
    BY <1>9 DEF Undefined
  <2>2. TypeOK'
    BY <2>1, ZenonT(30) DEF IInv, TypeOK, ReaperAt
  <2>3. \A p \in Proc : /\ Listed(p)' = Listed(p)
                        /\ Queued(p)' = Queued(p)
                        /\ Reaping(p)' = Reaping(p)
    BY <2>1, ZenonT(30) DEF Listed, Queued, Reaping, ReaperAt
  <2>4. SingleOwner'
    BY <2>1, <2>3 DEF IInv, SingleOwner, Injective, Disjoint
  <2>5. NoDangling' /\ ReapOnlyDead' /\ ExitNeverReturns'
    BY <2>1, <2>3 DEF IInv, NoDangling, ReapOnlyDead, ExitNeverReturns, ReaperAt,
                      Chosen
  <2>6. CriticalInv' /\ PickInv' /\ KmainInv' /\ ExitInv'
    BY <2>1, ZenonT(30) DEF IInv, CriticalInv, PickInv, KmainInv, ExitInv,
                            Listed, ReaperAt
  <2>7. RunningInv'
    BY <2>1, <2>3, ZenonT(30) DEF IInv, RunningInv, Held
  <2> QED
    BY <2>2, <2>4, <2>5, <2>6, <2>7 DEF IInv
<1> QED
  BY <1>1, <1>2, <1>3, <1>4, <1>5, <1>6, <1>7, <1>8, <1>9 DEF Next

\* IInv holds in every state scheduler_loop, syscall_exit and reaper_run reach.
THEOREM Invariance == Spec => []IInv
  BY InitInv, NextInv, PTL DEF Spec

\* Every variable keeps its range, and reaper_run never indexes past its list.
THEOREM TypeCorrect == Spec => []TypeOK
<1>1. IInv => TypeOK
  BY DEF IInv
<1> QED
  BY <1>1, Invariance, PTL

\* No process is ever both scheduled and reaped, or reaped twice.
THEOREM Ownership == Spec => []SingleOwner
<1>1. IInv => SingleOwner
  BY DEF IInv
<1> QED
  BY <1>1, Invariance, PTL

\* Neither scheduler_loop nor reaper_run follows a pointer to a process that
\* process_destroy took down, and the CPU is never on such a process's stack.
THEOREM MemorySafety == Spec => []NoDangling
<1>1. IInv => NoDangling
  BY DEF IInv
<1> QED
  BY <1>1, Invariance, PTL

\* Only processes that called syscall_exit reach the reaper.
THEOREM ReapsTheDead == Spec => []ReapOnlyDead
<1>1. IInv => ReapOnlyDead
  BY DEF IInv
<1> QED
  BY <1>1, Invariance, PTL

\* The __builtin_unreachable() at the end of syscall_exit is unreachable.
THEOREM ExitIsFinal == Spec => []ExitNeverReturns
<1>1. IInv => ExitNeverReturns
  BY DEF IInv
<1> QED
  BY <1>1, Invariance, PTL

-----------------------------------------------------------------------------
(* What a step may not do.                                                 *)

\* The only step that takes a process out of everybody's hands is the kfree of
\* reaper_run; the slot read and cleared with interrupts off is the hard case.
LEMMA HeldStep ==
    ASSUME IInv, Next, NEW q \in Proc, Held(q)
    PROVE  Held(q)' \/ memory'[q] = "freed"
<1> USE MaxAssumption, ProcAssumption DEF IInv
<1> USE DEF TypeOK, Slots, Proc, Programs, Held, ReaperAt, vars, schedVars,
            procVars, reapVars
<1>1. CASE Kmain
  <2>1. \A p \in Proc : Listed(p) => Listed(p)'
    BY <1>1 DEF Kmain, KmainIdle, KmainReaper, KmainStart, KmainProgram,
                scheduler_add_process, HasNull, FirstNull, Listed
  <2>2. Queued(q) => Queued(q)'
    BY <1>1 DEF Kmain, KmainIdle, KmainReaper, KmainStart, KmainProgram, Queued
  <2>3. Reaping(q) => FALSE
    <3>1. mode = "kmain" /\ current_process = NULL
      BY <1>1 DEF Kmain, KmainIdle, KmainReaper, KmainStart, KmainProgram,
                  PickInv
    <3>2. Reaping(q) => memory[q] # "none"
      BY DEF RunningInv
    <3> QED
      BY <3>1, <3>2 DEF KmainInv, Reaping
  <2> QED
    BY <2>1, <2>2, <2>3, Zenon
<1>2. CASE Timer \/ ExitYield \/ (\E p \in Yielding : syscall_yield(p))
  <2>1. Reaping(q) => Reaping(q)'
    BY <1>2 DEF Timer, ExitYield, syscall_yield, EnterScheduler, Reaping
  <2> QED
    BY <1>2, <2>1 DEF Timer, ExitYield, syscall_yield, Listed, Queued
<1>3. CASE \E p \in Programs : syscall_exit(p)
  <2>1. Reaping(q) => Reaping(q)'
    BY <1>3 DEF syscall_exit, Reaping
  <2> QED
    BY <1>3, <2>1 DEF syscall_exit, Listed, Queued
<1>4. CASE ScanEmpty \/ ScanPick
  <2>1. Reaping(q) => Reaping(q)'
    BY <1>4 DEF ScanEmpty, ScanPick, Continue, MoreLoops, Reaping
  <2> QED
    BY <1>4, <2>1 DEF ScanEmpty, ScanPick, Continue, Listed, Queued
<1>5. CASE ScanDead
  <2>1. Reaping(q) => Reaping(q)'
    BY <1>5 DEF ScanDead, Continue, MoreLoops, Reaping
  <2>2. Queued(q) => Queued(q)'
    BY <1>5 DEF ScanDead, reaper_add_process, FirstNull, Queued
  <2>3. Listed(q) => Listed(q)' \/ Queued(q)'
    BY <1>5 DEF ScanDead, reaper_add_process, FirstNull, ClearListSlot, Wrapped,
                Listed, Queued
  <2> QED
    BY <2>1, <2>2, <2>3, Zenon
<1>6. CASE Dispatch
  <2>1. Reaping(q) => Reaping(q)'
    BY <1>6 DEF Dispatch, process_save_state, process_jump, Preempted,
                Chosen, Reaping, ExitInv
  <2> QED
    BY <1>6, <2>1 DEF Dispatch, Listed, Queued
<1>7. CASE ReaperClear
  <2>1. Listed(q) => Listed(q)'
    BY <1>7 DEF ReaperClear, Listed
  <2>2. Queued(q) => Queued(q)' \/ Reaping(q)'
    BY <1>7 DEF ReaperClear, AtReaper, ClearReapSlot, idt64_enable_interrupts,
                CriticalInv, Queued, Reaping
  <2>3. ~ Reaping(q)
    BY <1>7 DEF ReaperClear, AtReaper, Reaping
  <2> QED
    BY <2>1, <2>2, <2>3, Zenon
<1>8. CASE ReaperStep /\ ~ ReaperClear
  <2>1. (Listed(q) => Listed(q)') /\ (Queued(q) => Queued(q)')
    BY <1>8 DEF ReaperStep, ReaperCli, ReaperRead, ReaperAdvance,
                process_destroy, ReaperFree, ReaperYield, kernel_halt, Listed,
                Queued
  <2>2. CASE ReaperCli \/ ReaperRead \/ ReaperYield \/ kernel_halt
    <3>1. ~ Reaping(q)
      BY <2>2 DEF ReaperCli, ReaperRead, ReaperYield, kernel_halt, AtReaper,
                  Reaping
    <3> QED
      BY <2>1, <3>1, Zenon
  <2>3. CASE ReaperAdvance
    <3>1. Reaping(q) => Reaping(q)'
      BY <2>3 DEF ReaperAdvance, AtReaper, Reaping
    <3> QED
      BY <2>1, <3>1, Zenon
  <2>4. CASE process_destroy
    <3>1. Reaping(q) => Reaping(q)'
      BY <2>4 DEF process_destroy, AtReaper, Reaping
    <3> QED
      BY <2>1, <3>1, Zenon
  <2>5. CASE ReaperFree
    <3>1. Reaping(q) => memory'[q] = "freed"
      BY <2>5 DEF ReaperFree, AtReaper, Reaping
    <3> QED
      BY <2>1, <3>1, Zenon
  <2> QED
    BY <1>8, <2>2, <2>3, <2>4, <2>5, Zenon DEF ReaperStep
<1>9. CASE Undefined
  BY <1>9 DEF Undefined, Listed, Queued, Reaping
<1> QED
  BY <1>1, <1>2, <1>3, <1>4, <1>5, <1>6, <1>7, <1>8, <1>9, Zenon DEF Next, Scan

\* No interleaving of the timer with reaper_run loses a process: one that was
\* accepted by scheduler_add_process is listed, queued or being reaped until it
\* is freed.
THEOREM NothingIsLost == Spec => NoLostProcess
<1>1. IInv /\ [Next]_vars =>
        [\A p \in Proc : Held(p) => Held(p)' \/ memory'[p] = "freed"]_vars
  BY HeldStep, Zenon
<1> QED
  BY <1>1, Invariance, PTL DEF Spec, NoLostProcess

-----------------------------------------------------------------------------
(* The refinement of ProcessLifecycle.                                     *)

\* Every step of the kernel is a step of the abstract life cycle, or none.
LEMMA LifecycleStep ==
    ASSUME IInv, [Next]_vars
    PROVE  [Life!Next]_<<[p \in Proc |-> Phase(p)], current_process>>
<1> DEFINE ph == [p \in Proc |-> Phase(p)]
<1> USE MaxAssumption, ProcAssumption DEF IInv
<1> USE DEF TypeOK, States, Memory, Slots, Proc, Programs, vars, schedVars,
            procVars, reapVars
<1>1. ASSUME NEW p \in Proc, mode = "kmain", process_create(p),
             UNCHANGED current_process
      PROVE  Life!Create(p)
  BY <1>1, ZenonT(40) DEF Life!Create, process_create, Phase, PickInv
<1>2. CASE KmainIdle
  BY <1>1, <1>2 DEF KmainIdle, PickInv, Life!Next
<1>3. CASE KmainReaper
  BY <1>1, <1>3 DEF KmainReaper, Life!Next
<1>4. CASE \E p \in Programs : KmainProgram(p)
  BY <1>1, <1>4 DEF KmainProgram, Life!Next
<1>5. CASE \E p \in Programs : syscall_exit(p)
  <2>1. PICK p \in Programs : syscall_exit(p)
    BY <1>5
  <2>2. memory[p] = "live" /\ state[p] = "RUNNING" /\ current_process = p
    BY <2>1 DEF syscall_exit, Entry, NoDangling, RunningInv
  <2>3. Life!Exit(p)
    BY <2>1, <2>2, ZenonT(40) DEF Life!Exit, syscall_exit, Phase
  <2> QED
    BY <2>3 DEF Life!Next
<1>6. CASE Dispatch
  <2>1. Chosen \in Proc /\ memory[Chosen] = "live" /\ state[Chosen] # "DEAD"
    BY <1>6 DEF Dispatch, Chosen, NoDangling, PickInv, ExitInv
  <2>2. \A p \in Proc : state'[p] = IF p = Chosen THEN "RUNNING"
                                    ELSE IF state[p] = "RUNNING" THEN "READY"
                                    ELSE state[p]
    BY <1>6 DEF Dispatch, Preempted, RunningInv
  <2>3. memory' = memory /\ current_process' = Chosen
    BY <1>6 DEF Dispatch
  <2>4. ph' = [p \in Proc |-> IF p = Chosen THEN "running"
                              ELSE IF ph[p] = "running" THEN "ready"
                              ELSE ph[p]]
    BY <2>1, <2>2, <2>3 DEF Phase
  <2>5. Life!Switch(Chosen)
    BY <2>1, <2>3, <2>4, Zenon DEF Life!Switch, Phase
  <2> QED
    BY <2>1, <2>5 DEF Life!Next
<1>7. CASE process_destroy
  <2> DEFINE p == process_to_reap
  <2>1. p \in Proc /\ Reaping(p) /\ current_process = Reaper
    BY <1>7 DEF process_destroy, AtReaper, CriticalInv, Reaping, ReaperAt
  <2>2. state[p] = "DEAD" /\ memory[p] = "live" /\ p # Reaper
    BY <1>7, <2>1 DEF ReapOnlyDead, NoDangling, ExitInv, process_destroy,
                      AtReaper, ReaperAt
  <2>3. Life!Reap(p)
    BY <1>7, <2>1, <2>2, Zenon DEF Life!Reap, process_destroy, Phase
  <2> QED
    BY <2>1, <2>3 DEF Life!Next
<1>8. CASE ReaperFree
  <2>1. Reaping(process_to_reap) /\ process_to_reap \in Proc
    BY <1>8 DEF ReaperFree, AtReaper, CriticalInv, Reaping, ReaperAt
  <2>2. memory[process_to_reap] = "destroyed"
    BY <1>8, <2>1 DEF NoDangling, ReaperFree, AtReaper, ReaperAt
  <2> QED
    BY <1>8, <2>1, <2>2 DEF ReaperFree, Phase
<1>9. CASE UNCHANGED <<state, memory, current_process>>
  BY <1>9 DEF Phase
<1> QED
  BY <1>2, <1>3, <1>4, <1>5, <1>6, <1>7, <1>8, <1>9, Zenon
     DEF Next, Kmain, Scan, ReaperStep, KmainStart, Timer, ExitYield,
         syscall_yield, ScanEmpty, ScanDead, ScanPick, Continue, ReaperCli,
         ReaperRead, ReaperClear, ReaperAdvance, ReaperYield, kernel_halt,
         Undefined

\* Scheduler implements ProcessLifecycle for every number of slots and any set
\* of programs.
THEOREM Refinement == Spec => Lifecycle
<1>1. Init => Life!Init
  BY DEF Init, Life!Init, Phase
<1> QED
  BY <1>1, LifecycleStep, Invariance, PTL DEF Spec, Lifecycle, Life!Spec

=============================================================================
