--------------------------- MODULE SemRefinement ---------------------------
(***************************************************************************)
(* Sem implements SemSpec when every acquire takes one unit, and keeps the *)
(* books of the units when acquires take several.                          *)
(***************************************************************************)
EXTENDS Sem

(* A free slot has the id -1, the pool is a positive count, and a thread's *)
(* wait is over once it has left the queue; its sem_errcode says how it    *)
(* ended.                                                                  *)
liveBar == [s \in Slots |-> sid[s] # -1]
unitsBar == [s \in Slots |->
                IF sid[s] # -1 /\ scount[s] > 0 THEN scount[s] ELSE 0]
outcomeBar == [t \in Threads |->
                  IF tpc[t] = "run" THEN "idle"
                  ELSE IF Queued(t) THEN "waiting"
                  ELSE IF err[t] = "B_NO_ERROR" THEN "granted" ELSE "failed"]

Abs == INSTANCE SemSpec WITH
           live <- liveBar, units <- unitsBar, queue <- sq, outcome <- outcomeBar

(* acquire_sem_etc, release_sem_etc, delete_sem_etc, sem_timeout and the   *)
(* kill path together behave like the FIFO counting semaphores of SemSpec. *)
ImplementsSemSpec == Abs!Spec

(* What the threads of Q still lack together, each unit with its number.   *)
Lacked(f, Q) == UNION {{t} \X (1 .. f[t]) : t \in Q}

(* For acquires of several units: a deficit is what the waiters still lack *)
(* together, and nobody waits without one (as long as nobody leaves the    *)
(* queue by a timeout or a kill: see NobodyStranded).                      *)
DeficitMatchesNeeds ==
    \A s \in Slots : ~Deleting(s) /\ sid[s] # -1 =>
        Cardinality(Lacked(need, Elems(sq[s]))) =
            IF scount[s] < 0 THEN -scount[s] ELSE 0
============================================================================
