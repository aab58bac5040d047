--------------------------- MODULE RecursiveLock ---------------------------
(***************************************************************************)
(* The recursive_lock of kernel/core/lock.c: a semaphore with one unit and *)
(* two unprotected fields, holder and recursion.  Every thread reads       *)
(* holder before it has the semaphore, at any moment of the holder's work. *)
(* The semaphore is used as SemSpec promises.                              *)
(***************************************************************************)
EXTENDS LockThreads, Integers, Sequences

CONSTANTS
    NoThread,   \* holder == -1
    MaxDepth    \* bound on the nesting of one thread

ASSUME RecursiveLockAssumption == NoThread \notin Threads /\ MaxDepth \in Nat

VARIABLES
    holder, recursion,  \* lock->holder, lock->recursion
    runits, rqueue,       \* lock->sem: its pool and its waiters
    rpc,                 \* where each thread is
    depth               \* how many locks each thread has yet to unlock

rvars == <<holder, recursion, runits, rqueue, rpc, depth>>

(* "acq": saw another holder, about to call acquire_sem; "wait": in the    *)
(* queue; "own": back from acquire_sem; "rel": about to call release_sem.  *)
RecursivePlaces == {"run", "acq", "wait", "own", "rel"}

recursive_lock_create ==
    /\ holder = NoThread /\ recursion = 0
    /\ runits = 1 /\ rqueue = <<>>
    /\ rpc = [t \in Threads |-> "run"]
    /\ depth = [t \in Threads |-> 0]

(* recursive_lock_lock by the holder.                                      *)
LockAgain(t) ==
    /\ rpc[t] = "run" /\ holder = t /\ depth[t] < MaxDepth
    /\ recursion' = recursion + 1
    /\ depth' = [depth EXCEPT ![t] = @ + 1]
    /\ UNCHANGED <<holder, runits, rqueue, rpc>>

(* By any other thread.                                                    *)
LockOther(t) ==
    /\ rpc[t] = "run" /\ holder # t
    /\ rpc' = [rpc EXCEPT ![t] = "acq"]
    /\ UNCHANGED <<holder, recursion, runits, rqueue, depth>>

RecursiveAcquireSem(t) ==
    /\ rpc[t] = "acq"
    /\ \/ /\ runits > 0
          /\ runits' = runits - 1
          /\ rpc' = [rpc EXCEPT ![t] = "own"]
          /\ UNCHANGED rqueue
       \/ /\ runits = 0
          /\ rqueue' = Append(rqueue, t)
          /\ rpc' = [rpc EXCEPT ![t] = "wait"]
          /\ UNCHANGED runits
    /\ UNCHANGED <<holder, recursion, depth>>

(* The new holder writes its id, and counts up from what its predecessor   *)
(* left in recursion.                                                      *)
LockOwn(t) ==
    /\ rpc[t] = "own"
    /\ holder' = t
    /\ recursion' = recursion + 1
    /\ depth' = [depth EXCEPT ![t] = @ + 1]
    /\ rpc' = [rpc EXCEPT ![t] = "run"]
    /\ UNCHANGED <<runits, rqueue>>

LastEarly(r) == r <= 1
LastLate(r) == r < 0

(* The unlock that gives the lock up.                                      *)
LastUnlock(r) == r = 0

HolderKept(t, r) == holder

(* It clears holder before it releases the semaphore.                      *)
HolderAfter(t, r) == IF LastUnlock(r) THEN NoThread ELSE holder

(* recursive_lock_unlock, by a thread that has a lock to unlock.  (The     *)
(* panic for any other caller is not reached: see HolderIsOwner.)          *)
recursive_lock_unlock(t) ==
    /\ rpc[t] = "run" /\ depth[t] > 0 /\ holder = t
    /\ recursion' = recursion - 1
    /\ holder' = HolderAfter(t, recursion - 1)
    /\ depth' = [depth EXCEPT ![t] = @ - 1]
    /\ rpc' = [rpc EXCEPT ![t] = IF LastUnlock(recursion - 1) THEN "rel" ELSE "run"]
    /\ UNCHANGED <<runits, rqueue>>

RecursiveReleaseSem(t) ==
    /\ rpc[t] = "rel"
    /\ \/ /\ rqueue # <<>>
          /\ rqueue' = Tail(rqueue)
          /\ rpc' = [rpc EXCEPT ![t] = "run", ![Head(rqueue)] = "own"]
          /\ UNCHANGED runits
       \/ /\ rqueue = <<>>
          /\ runits' = runits + 1
          /\ rpc' = [rpc EXCEPT ![t] = "run"]
          /\ UNCHANGED rqueue
    /\ UNCHANGED <<holder, recursion, depth>>

RecursiveFinish(t) == RecursiveAcquireSem(t) \/ LockOwn(t) \/ recursive_lock_unlock(t)
                \/ RecursiveReleaseSem(t)

RecursiveNext == \E t \in Threads : LockAgain(t) \/ LockOther(t) \/ RecursiveFinish(t)

RecursiveSpec == recursive_lock_create /\ [][RecursiveNext]_rvars

(* Every thread runs on (the scheduler), and takes its locks back in turn: *)
(* a thread whose unlock is possible again and again gets to it.           *)
RecursiveFairness ==
    \A t \in Threads :
        /\ WF_rvars(RecursiveFinish(t))
        /\ SF_rvars(recursive_lock_unlock(t) /\ depth[t] = 1)

-----------------------------------------------------------------------------
RecursiveTypeOK ==
    /\ holder \in Threads \cup {NoThread} /\ recursion \in Int
    /\ runits \in Nat /\ rqueue \in Seq(Threads)
    /\ rpc \in [Threads -> RecursivePlaces] /\ depth \in [Threads -> Nat]

(* At most one thread has the lock, however often it has locked it, and no *)
(* thread is mistaken for the holder by its unprotected read of the field. *)
OneOwner ==
    \A t, u \in Threads :
        (depth[t] > 0 \/ rpc[t] = "own") /\ (depth[u] > 0 \/ rpc[u] = "own")
            => t = u

(* Whoever has locks to unlock is the holder, and recursion is how many    *)
(* they are: its unlocks do not panic and give the lock up at the last one.*)
HolderIsOwner ==
    \A t \in Threads : depth[t] > 0 => holder = t /\ recursion = depth[t]

(* A waiter has somebody or a unit to wait for.                            *)
WaiterHasOwner ==
    (\E t \in Threads : rpc[t] \in {"acq", "wait"}) =>
        runits > 0 \/ \E u \in Threads : depth[u] > 0 \/ rpc[u] \in {"own", "rel"}

(* Every lock is granted if every holder unlocks as often as it locked.    *)
RecursiveLockGranted ==
    \A t \in Threads : (rpc[t] \in {"acq", "wait"}) ~> (depth[t] > 0)

(* The inductive strengthening: there is one permission, in the semaphore  *)
(* or with one thread, and the fields are those of its owner.              *)
Owners == {t \in Threads : depth[t] > 0 \/ rpc[t] \in {"own", "rel"}}
OwnersInv ==
    /\ \A t, u \in Owners : t = u
    /\ runits \in {0, 1}
    /\ runits = 1 <=> Owners = {}
FieldsInv ==
    /\ \A t \in Threads : depth[t] > 0 <=> holder = t
    /\ \A t \in Threads : depth[t] > 0 => rpc[t] = "run" /\ recursion = depth[t]
    /\ holder = NoThread => recursion = 0
WaitersInv ==
    /\ \A i \in 1 .. Len(rqueue) : rpc[rqueue[i]] = "wait"
    /\ \A i, j \in 1 .. Len(rqueue) : rqueue[i] = rqueue[j] => i = j
RecursiveInv == RecursiveTypeOK /\ OwnersInv /\ FieldsInv /\ WaitersInv
============================================================================
