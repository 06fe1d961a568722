------------------------- MODULE ProcessLifecycle --------------------------
(***************************************************************************)
(* What the kernel promises about processes, without lists, timer or       *)
(* interrupt flag: at most one process runs, only the running one exits,   *)
(* and what has exited is taken down once, when the CPU has left it.       *)
(***************************************************************************)
CONSTANTS Proc, NULL

VARIABLES phase,   \* [Proc -> Phases]
          running  \* the process the CPU belongs to, NULL before the first

Phases == {"unborn", "ready", "running", "dead", "reaped"}

Init ==
    /\ phase = [p \in Proc |-> "unborn"]
    /\ running = NULL

Create(p) ==
    /\ phase[p] = "unborn"
    /\ running = NULL
    /\ phase' = [phase EXCEPT ![p] = "ready"]
    /\ UNCHANGED running

\* The CPU passes to q.  The process it leaves is ready again unless it exited.
Switch(q) ==
    /\ phase[q] \in {"ready", "running"}
    /\ phase' = [p \in Proc |-> IF p = q THEN "running"
                                ELSE IF phase[p] = "running" THEN "ready"
                                ELSE phase[p]]
    /\ running' = q

Exit(p) ==
    /\ running = p
    /\ phase[p] = "running"
    /\ phase' = [phase EXCEPT ![p] = "dead"]
    /\ UNCHANGED running

Reap(p) ==
    /\ phase[p] = "dead"
    /\ running # p
    /\ phase' = [phase EXCEPT ![p] = "reaped"]
    /\ UNCHANGED running

Next == \E p \in Proc : Create(p) \/ Switch(p) \/ Exit(p) \/ Reap(p)

Spec == Init /\ [][Next]_<<phase, running>>

\* Every process that exited is reaped.
LiveSpec ==
    Spec /\ \A p \in Proc : WF_<<phase, running>>(Reap(p))
=============================================================================
