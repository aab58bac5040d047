------------------------------ MODULE MCParts ------------------------------
(***************************************************************************)
(* The units of semaphores, vnodes and descriptors, the block allocator,   *)
(* inter-CPU messages and timers for TLC, in one run: a behaviour is one   *)
(* of the part that it chose at its start, and the others stay as they     *)
(* were made.                                                              *)
(***************************************************************************)
EXTENDS MCSem, Vfs, BlockAllocator, Smp, Timer

VARIABLE part   \* the part that is used

PartsInit ==
    /\ part \in {"sem", "vfs", "allocator", "smp", "timer"}
    /\ Init /\ VfsInit /\ AllocatorInit /\ smp_init /\ timer_init

PartsNext ==
    \/ /\ part = "sem" /\ Next
       /\ UNCHANGED <<part, vnodeVars, allocatorVars, smpVars, timerVars>>
    \/ /\ part = "vfs" /\ NextPatient
       /\ UNCHANGED <<part, vars, allocatorVars, smpVars, timerVars>>
    \/ /\ part = "allocator" /\ AllocatorNextLate
       /\ UNCHANGED <<part, vars, vnodeVars, smpVars, timerVars>>
    \/ /\ part = "smp" /\ SmpNext
       /\ UNCHANGED <<part, vars, vnodeVars, allocatorVars, timerVars>>
    \/ /\ part = "timer" /\ TimerNext /\ PeriodicKept
       /\ UNCHANGED <<part, vars, vnodeVars, allocatorVars, smpVars>>

PartsSpec ==
    /\ PartsInit
    /\ [][PartsNext]_<<part, vars, vnodeVars, allocatorVars, smpVars, timerVars>>

(* The other parts are as they were made.                                  *)
PartsView ==
    <<part, CASE part = "sem" -> View
              [] part = "vfs" -> vnodeVars
              [] part = "allocator" -> allocatorVars
              [] part = "smp" -> smpVars
              [] part = "timer" -> timerVars>>

PartsSymmetry == Permutations(Callers) \cup Permutations(Fds)
=============================================================================
