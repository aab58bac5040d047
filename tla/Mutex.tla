------------------------------- MODULE Mutex -------------------------------
(***************************************************************************)
(* The mutex of kernel/core/lock.c: an atomic counter of the threads that  *)
(* hold or want it, and a semaphore, created with no units, on which all   *)
(* but the first of them wait.  The counter and the semaphore are touched  *)
(* in separate steps, so a thread may be anywhere between them when        *)
(* another one locks or unlocks.  The semaphore is used as SemSpec         *)
(* promises: a released unit goes to the first waiter or to the pool.      *)
(* acquire_sem passes no flags: the wait is neither timed nor killed.      *)
(***************************************************************************)
EXTENDS LockThreads, Integers, Sequences, FiniteSets

ASSUME MutexAssumption == IsFiniteSet(Threads)

VARIABLES
    mcount,      \* m->count
    munits,      \* the units in the pool of m->sem
    mqueue,      \* the threads waiting for m->sem
    mpc          \* where each thread is

mvars == <<mcount, munits, mqueue, mpc>>

(* "acq": counted, about to call acquire_sem; "wait": in the queue;        *)
(* "rel": no longer counted, about to call release_sem.                    *)
MutexPlaces == {"out", "acq", "wait", "in", "rel"}

mutex_init ==
    /\ mcount = 0
    /\ munits = 0
    /\ mqueue = <<>>
    /\ mpc = [t \in Threads |-> "out"]

ContendedLate(old) == old > 1

(* What mutex_lock makes of the old count: others hold or want the mutex.  *)
Contended(old) == old >= 1

mutex_lock(t) ==
    /\ mpc[t] = "out"
    /\ mcount' = mcount + 1
    /\ mpc' = [mpc EXCEPT ![t] = IF Contended(mcount) THEN "acq" ELSE "in"]
    /\ UNCHANGED <<munits, mqueue>>

MutexAcquireSem(t) ==
    /\ mpc[t] = "acq"
    /\ \/ /\ munits > 0
          /\ munits' = munits - 1
          /\ mpc' = [mpc EXCEPT ![t] = "in"]
          /\ UNCHANGED mqueue
       \/ /\ munits = 0
          /\ mqueue' = Append(mqueue, t)
          /\ mpc' = [mpc EXCEPT ![t] = "wait"]
          /\ UNCHANGED munits
    /\ UNCHANGED mcount

WantedLate(old) == old > 2

(* What mutex_unlock makes of it: somebody else wants the mutex.           *)
Wanted(old) == old > 1

mutex_unlock(t) ==
    /\ mpc[t] = "in"
    /\ mcount' = mcount - 1
    /\ mpc' = [mpc EXCEPT ![t] = IF Wanted(mcount) THEN "rel" ELSE "out"]
    /\ UNCHANGED <<munits, mqueue>>

MutexReleaseSem(t) ==
    /\ mpc[t] = "rel"
    /\ \/ /\ mqueue # <<>>
          /\ mqueue' = Tail(mqueue)
          /\ mpc' = [mpc EXCEPT ![t] = "out", ![Head(mqueue)] = "in"]
          /\ UNCHANGED munits
       \/ /\ mqueue = <<>>
          /\ munits' = munits + 1
          /\ mpc' = [mpc EXCEPT ![t] = "out"]
          /\ UNCHANGED mqueue
    /\ UNCHANGED mcount

MutexNext == \E t \in Threads : mutex_lock(t) \/ MutexAcquireSem(t) \/ mutex_unlock(t)
                             \/ MutexReleaseSem(t)

MutexSpec == mutex_init /\ [][MutexNext]_mvars

(* Every thread runs on (the scheduler) and leaves its critical section.   *)
MutexFairness ==
    \A t \in Threads :
        WF_mvars(MutexAcquireSem(t) \/ mutex_unlock(t) \/ MutexReleaseSem(t))

-----------------------------------------------------------------------------
MutexTypeOK ==
    /\ mcount \in Int /\ munits \in Nat
    /\ mqueue \in Seq(Threads)
    /\ mpc \in [Threads -> MutexPlaces]

(* The point of the mutex: at most one thread is in the critical section.  *)
MutualExclusion ==
    \A t, u \in Threads : mpc[t] = "in" /\ mpc[u] = "in" => t = u

(* Whoever waits on the semaphore, or is on the way to it, is waited for   *)
(* by nobody: some thread holds the mutex, is about to release a unit, or  *)
(* the unit is there already.  No unlock slips past a lock that has        *)
(* counted itself and not yet reached the semaphore.                       *)
NoLostWakeup ==
    (\E t \in Threads : mpc[t] \in {"acq", "wait"}) =>
        munits > 0 \/ \E u \in Threads : mpc[u] \in {"in", "rel"}

(* The inductive strengthening: the count is the number of threads that    *)
(* hold or want the mutex, and there is one permission to enter, which is  *)
(* in a thread that holds or is about to release it, or in the semaphore's *)
(* pool, or, when the count is zero, nowhere.                              *)
Inside  == {t \in Threads : mpc[t] \in {"acq", "wait", "in"}}
Permit  == {t \in Threads : mpc[t] \in {"in", "rel"}}
CountInv == mcount = Cardinality(Inside)
PermitInv ==
    /\ \A t, u \in Permit : t = u
    /\ munits \in {0, 1}
    /\ munits = 1 => Permit = {}
    /\ mcount > 0 => munits = 1 \/ Permit # {}
    /\ mcount = 0 => munits = 0 /\ Permit = {}
QueueInv ==
    /\ \A i \in 1 .. Len(mqueue) : mpc[mqueue[i]] = "wait"
    /\ \A i, j \in 1 .. Len(mqueue) : mqueue[i] = mqueue[j] => i = j
MutexInv == MutexTypeOK /\ CountInv /\ PermitInv /\ QueueInv

(* Every lock is granted, if critical sections end.                        *)
LockGranted ==
    \A t \in Threads : (mpc[t] \in {"acq", "wait"}) ~> (mpc[t] = "in")
============================================================================
