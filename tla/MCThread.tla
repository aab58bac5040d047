------------------------------ MODULE MCThread ------------------------------
(***************************************************************************)
(* Model-checking instances of Thread.                                     *)
(***************************************************************************)
EXTENDS Thread, TLC

Symmetry == Permutations(Structs) \cup Permutations(Cpus)

(* Of the calls of the kernel's thread that lead to step to, those that    *)
(* come from step from.                                                    *)
KernelFor(to, from) == th'[Kernel].pc = to => th[Kernel].pc \in {to, from}

(* The kernel's thread waits for processes only; the others wait for any   *)
(* thread.                                                                 *)
KernelWaits == KernelFor("w_look", "k_main")

SafeSpec == Init /\ [][NextLate /\ KernelWaits]_vars

(* While a thread is being created, neither it nor its process ends.       *)
KilledLate ==
    \A t \in Structs : th[t].state = "BIRTH" =>
        /\ "KILL" \notin th'[t].sig
        /\ th[t].proc = "user" => proc'.state # "death"

(* The threads of the process do not wait for threads.                     *)
WaitsOutside == \A t \in Structs : th'[t].pc \notin {"w_look", "w_acq", "k_main"}

(* The kernel thread creates and kills processes, and neither creates nor  *)
(* waits for other threads; new threads are taken in the order of their    *)
(* numbers.                                                                *)
KernelCalls == KernelFor("c_insert", "p_create") /\ KernelWaits
InOrder == \A s, t \in Structs : s < t /\ th'[t].state # "NONE" => th'[s].state # "NONE"

NextLive ==
    NextLate /\ KilledLate /\ WaitsOutside /\ KernelCalls /\ InOrder
LiveSpec == Init /\ [][NextLive]_vars /\ Fairness
=============================================================================
