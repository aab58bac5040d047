------------------------------- MODULE MCSem -------------------------------
(***************************************************************************)
(* Model-checking instances of Sem.                                        *)
(***************************************************************************)
EXTENDS SemRefinement, SemInv, TLC

Symmetry == Permutations(Threads) \cup Permutations(Cpus)

(* TLC does not tell states apart by data that is written before it is     *)
(* read again: the locals of a kernel path that is over, and the sem_*     *)
(* fields of a thread that is not inside acquire_sem_etc.                  *)
Live(f, pc, dead) == [x \in DOMAIN f |-> IF pc[x] = "run" THEN dead ELSE f[x]]

View == <<sid, scount, sq, slock, next_sem, cur, cpc, lq, tlock, runq, state,
          nstate, tpc, sigkill, timer, fault,
          Live(lslot, cpc, 0), Live(ln, cpc, 0), Live(lt, cpc, NoThread),
          Live(flags, tpc, {}), Live(blk, tpc, -1), Live(acq, tpc, 0),
          Live(need, tpc, 0), Live(err, tpc, "B_NO_ERROR")>>

(* A system in which nobody deletes a semaphore.                           *)
NextKeep == Next /\ \A c \in Cpus : cpc'[c] = "del" => cpc[c] = "del"
SpecKeep == Init /\ [][NextKeep]_vars
============================================================================
