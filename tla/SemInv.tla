------------------------------- MODULE SemInv -------------------------------
(***************************************************************************)
(* The inductive strengthening behind the theorems of SemProofs.           *)
(***************************************************************************)
EXTENDS Sem

(* Inside acquire_sem_etc, between the enqueue and thread_resched.         *)
AcquirePoints == {"acq", "acqkill", "acqr", "acqq"}

(* With a semaphore's spinlock held.                                       *)
HoldPoints == {"rel", "del", "tmor", "killr", "acqr"}

(* Where the local release or wakeup queue may hold threads.               *)
QueuePoints == {"rel", "relq", "del", "delq", "tmor", "tmoq", "killr", "killq",
                "acqr", "acqq"}

(* Where the path is about a target thread.                                *)
TargetPoints == {"tmo", "tmor", "kill", "killr", "acqkill", "acqr"}

OnList(t) == t \in runq \/ (\E c \in Cpus : t \in lq[c]) \/ Queued(t)

LocalsInv ==
    \A c \in Cpus :
        /\ cpc[c] \notin QueuePoints => lq[c] = {}
        /\ cpc[c] \in TargetPoints => lt[c] \in Threads
        /\ cpc[c] \in AcquirePoints \cup {"woken", "null"} => cur[c] \in Threads

(* A semaphore's spinlock is held by the CPU that works in its slot.       *)
LockInv ==
    \A s \in Slots, c \in Cpus :
        slock[s] = c <=> cpc[c] \in HoldPoints /\ lslot[c] = s

(* A thread that runs is on a list, with next_state WAITING, exactly while *)
(* it is about to switch away in acquire_sem_etc; and it runs on one CPU.  *)
RunningInv ==
    fault = "none" =>
        /\ \A c \in Cpus : cur[c] \in Threads =>
              /\ OnList(cur[c]) <=> cpc[c] \in AcquirePoints
              /\ nstate[cur[c]] = "WAITING" <=> cpc[c] \in AcquirePoints
        /\ \A c, d \in Cpus : c # d /\ cur[c] = cur[d] => cur[c] = NoThread

(* With acquires of one unit, every waiter lacks exactly that unit.        *)
UnitInv ==
    \A s \in Slots : \A t \in Elems(sq[s]) : need[t] = 1 /\ acq[t] = 1

(* Inside acquire_sem_etc after the enqueue.                               *)
WaitPoints == AcquirePoints \cup {"woken", "null"}

(* A waiter has not returned and nothing has ended its wait; a thread is   *)
(* inside acquire_sem_etc exactly when its CPU is; a kill that slipped in  *)
(* is about the thread itself; and a locked slot holds a semaphore.        *)
ReturnInv ==
    /\ \A t \in Threads : Queued(t) => tpc[t] # "run" /\ err[t] = "B_NO_ERROR"
    /\ \A c \in Cpus : cur[c] \in Threads =>
          (tpc[cur[c]] = "run" <=> cpc[c] \notin WaitPoints)
    /\ \A c \in Cpus : cpc[c] = "acqkill" => lt[c] = cur[c]
    /\ \A s \in Slots : slock[s] # NoCpu => sid[s] # -1

ListInv == OneList /\ NoThreadLost /\ WaitsForLiveSem

SemInductive == TypeOK /\ ListInv /\ LocalsInv /\ LockInv /\ RunningInv
=============================================================================
