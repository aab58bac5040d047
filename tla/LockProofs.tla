----------------------------- MODULE LockProofs -----------------------------
(***************************************************************************)
(* The locks of lock.c and lock.h, for any number of threads: the mutex    *)
(* excludes and loses no wake-up; the recursive_lock has one owner at any  *)
(* nesting, although holder and recursion are read unprotected; and under  *)
(* the read/write lock a writer is alone and nothing is forgotten between  *)
(* the count, the semaphore and the benaphore.                             *)
(***************************************************************************)
EXTENDS Mutex, RecursiveLock, RwLock, ListLemmas, FiniteSetTheorems, TLAPS

-----------------------------------------------------------------------------
(* The mutex.                                                              *)

(* The set that the count counts is finite, and empty when the count is 0. *)
LEMMA InsideFacts ==
    /\ IsFiniteSet(Inside)
    /\ Cardinality(Inside) \in Nat
    /\ Cardinality(Inside) = 0 <=> Inside = {}
<1>1. IsFiniteSet(Inside)
  BY MutexAssumption, FS_Subset DEF Inside
<1> QED BY <1>1, FS_CardinalityType, FS_EmptySet

(* mutex_lock: the thread counts itself; it is alone with the permission   *)
(* exactly when the count was zero.                                        *)
LEMMA MutexLockStep ==
    ASSUME MutexInv, NEW t \in Threads, mutex_lock(t)
    PROVE  MutexInv'
<1> USE DEF MutexInv
<1>1. MutexTypeOK'
  BY DEF MutexTypeOK, MutexPlaces, mutex_lock
<1>2. mpc'[t] \in {"acq", "in"} /\ \A u \in Threads : u # t => mpc'[u] = mpc[u]
  BY DEF MutexTypeOK, mutex_lock
<1>3. Inside' = Inside \cup {t} /\ t \notin Inside
  BY <1>2 DEF Inside, mutex_lock
<1>4. CountInv'
  BY <1>3, InsideFacts, FS_AddElement DEF CountInv, mutex_lock
<1>5. mcount \in Nat /\ mcount' = mcount + 1 /\ munits' = munits
  BY InsideFacts DEF CountInv, mutex_lock
<1>6. CASE mcount >= 1
  <2>1. mpc'[t] = "acq" /\ mpc[t] = "out"
    BY <1>6 DEF mutex_lock, Contended, MutexTypeOK
  <2>2. Permit' = Permit
    BY <1>2, <2>1 DEF Permit
  <2> QED BY <1>1, <1>4, <1>5, <1>6, <1>2, <2>1, <2>2
          DEF PermitInv, QueueInv, mutex_lock, MutexTypeOK
<1>7. CASE mcount = 0
  <2>1. mpc'[t] = "in" /\ mpc[t] = "out"
    BY <1>7 DEF mutex_lock, Contended, MutexTypeOK
  <2>2. Permit = {} /\ Permit' = {t} /\ munits = 0
    BY <1>2, <1>7, <2>1 DEF Permit, PermitInv
  <2>3. PermitInv'
    BY <1>5, <1>7, <2>2 DEF PermitInv
  <2>4. QueueInv'
    BY <1>2, <2>1 DEF QueueInv, mutex_lock, MutexTypeOK
  <2> QED BY <1>1, <1>4, <2>3, <2>4
<1> QED BY <1>5, <1>6, <1>7

(* acquire_sem: the thread takes the permission from the pool, or queues.  *)
LEMMA MutexAcquireStep ==
    ASSUME MutexInv, NEW t \in Threads, MutexAcquireSem(t)
    PROVE  MutexInv'
<1> USE DEF MutexInv
<1>1. MutexTypeOK'
  BY SMTT(30) DEF MutexTypeOK, MutexPlaces, MutexAcquireSem
<1>2. /\ mpc'[t] \in {"wait", "in"} /\ mpc[t] = "acq" /\ mcount' = mcount
      /\ \A u \in Threads : u # t => mpc'[u] = mpc[u]
  BY DEF MutexTypeOK, MutexAcquireSem
<1>3. Inside' = Inside
  BY <1>2 DEF Inside
<1>4. CountInv'
  BY <1>2, <1>3 DEF CountInv
<1>5. mcount > 0
  BY <1>2, InsideFacts DEF CountInv, Inside
<1>6. CASE munits > 0 /\ munits' = munits - 1 /\ mpc'[t] = "in" /\ mqueue' = mqueue
  <2>1. munits = 1 /\ Permit = {} /\ Permit' = {t} /\ munits' = 0
    BY <1>2, <1>6 DEF PermitInv, Permit
  <2>2. PermitInv'
    BY <1>2, <1>5, <2>1 DEF PermitInv
  <2>3. QueueInv'
    BY <1>2, <1>6 DEF QueueInv, MutexTypeOK
  <2> QED BY <1>1, <1>4, <2>2, <2>3
<1>7. CASE /\ munits = 0 /\ munits' = munits /\ mpc'[t] = "wait"
           /\ mqueue' = Append(mqueue, t)
  <2>1. Permit' = Permit
    BY <1>2, <1>7 DEF Permit
  <2>2. PermitInv'
    BY <1>2, <1>7, <2>1 DEF PermitInv
  <2>3. /\ Len(mqueue') = Len(mqueue) + 1 /\ Len(mqueue) \in Nat
        /\ mqueue'[Len(mqueue) + 1] = t
        /\ \A i \in 1 .. Len(mqueue) : mqueue'[i] = mqueue[i] /\ mqueue[i] \in Threads
    BY <1>7 DEF MutexTypeOK
  <2>4. \A i \in 1 .. Len(mqueue) : mqueue[i] # t
    BY <1>2 DEF QueueInv
  <2>5. QueueInv'
    BY <1>2, <1>7, <2>3, <2>4 DEF QueueInv
  <2> QED BY <1>1, <1>4, <2>2, <2>5
<1> QED BY <1>6, <1>7 DEF MutexAcquireSem, MutexTypeOK

(* mutex_unlock: the permission stays with the thread if others want it,   *)
(* and is gone with the count otherwise.                                   *)
LEMMA MutexUnlockStep ==
    ASSUME MutexInv, NEW t \in Threads, mutex_unlock(t)
    PROVE  MutexInv'
<1> USE DEF MutexInv
<1>1. MutexTypeOK'
  BY DEF MutexTypeOK, MutexPlaces, mutex_unlock
<1>2. /\ mpc'[t] \in {"rel", "out"} /\ mpc[t] = "in" /\ munits' = munits
      /\ mcount' = mcount - 1 /\ mqueue' = mqueue
      /\ \A u \in Threads : u # t => mpc'[u] = mpc[u]
  BY DEF MutexTypeOK, mutex_unlock
<1>3. Inside' = Inside \ {t} /\ t \in Inside
  BY <1>2 DEF Inside
<1>4. CountInv'
  BY <1>2, <1>3, InsideFacts, FS_RemoveElement DEF CountInv
<1>5. mcount \in Nat /\ mcount > 0
  BY <1>3, InsideFacts DEF CountInv
<1>6. Permit = {t} /\ munits = 0
  BY <1>2 DEF Permit, PermitInv
<1>7. PermitInv'
  <2>1. CASE mcount > 1
    <3>1. Permit' = {t}
      BY <1>2, <1>6, <2>1 DEF Permit, mutex_unlock, Wanted, MutexTypeOK
    <3> QED BY <1>2, <1>5, <1>6, <2>1, <3>1 DEF PermitInv
  <2>2. CASE mcount = 1
    <3>1. Permit' = {}
      BY <1>2, <1>6, <2>2 DEF Permit, mutex_unlock, Wanted, MutexTypeOK
    <3> QED BY <1>2, <1>6, <2>2, <3>1 DEF PermitInv
  <2> QED BY <1>5, <2>1, <2>2
<1>8. QueueInv'
  BY <1>2 DEF QueueInv, MutexTypeOK
<1> QED BY <1>1, <1>4, <1>7, <1>8

(* release_sem: the permission passes to the first waiter or to the pool.  *)
LEMMA MutexReleaseStep ==
    ASSUME MutexInv, NEW t \in Threads, MutexReleaseSem(t)
    PROVE  MutexInv'
<1> USE DEF MutexInv
<1>1. mpc[t] = "rel" /\ mcount' = mcount
  BY DEF MutexReleaseSem
<1>2. Permit = {t} /\ munits = 0
  BY <1>1 DEF Permit, PermitInv
<1>3. mcount > 0
  BY <1>2, InsideFacts DEF PermitInv, CountInv
<1>4. CASE /\ mqueue # <<>> /\ mqueue' = Tail(mqueue) /\ munits' = munits
           /\ mpc' = [mpc EXCEPT ![t] = "out", ![Head(mqueue)] = "in"]
  <2> DEFINE h == Head(mqueue)
  <2>1. /\ Len(mqueue) \in Nat \ {0} /\ h = mqueue[1] /\ h \in Threads
        /\ Len(mqueue') = Len(mqueue) - 1
        /\ \A i \in 1 .. Len(mqueue') : mqueue'[i] = mqueue[i + 1]
        /\ mqueue' \in Seq(Threads)
    BY <1>4 DEF MutexTypeOK
  <2>2. mpc[h] = "wait" /\ h # t
    BY <1>1, <2>1 DEF QueueInv
  <2> HIDE DEF h
  <2>3. /\ mpc'[t] = "out" /\ mpc'[h] = "in"
        /\ \A u \in Threads : u # t /\ u # h => mpc'[u] = mpc[u]
    BY <1>4, <2>1, <2>2 DEF MutexTypeOK, h
  <2>4. MutexTypeOK'
    BY <1>1, <1>4, <2>1 DEF MutexTypeOK, MutexPlaces, h
  <2>5. Inside' = Inside
    BY <1>1, <2>1, <2>2, <2>3 DEF Inside
  <2>6. Permit' = {h}
    BY <1>2, <2>1, <2>2, <2>3 DEF Permit
  <2>7. CountInv' /\ PermitInv'
    BY <1>1, <1>2, <1>3, <1>4, <2>5, <2>6 DEF CountInv, PermitInv
  <2>8. \A i \in 2 .. Len(mqueue) : mqueue[i] \in Threads /\ mqueue[i] # h
    BY <2>1 DEF QueueInv, MutexTypeOK
  <2>9. QueueInv'
    <3>1. \A i \in 1 .. Len(mqueue') : i + 1 \in 2 .. Len(mqueue)
      BY <2>1
    <3>2. ASSUME NEW i \in 1 .. Len(mqueue') PROVE mpc'[mqueue'[i]] = "wait"
      BY <1>1, <2>1, <2>3, <2>8, <3>1 DEF QueueInv
    <3>3. ASSUME NEW i \in 1 .. Len(mqueue'), NEW j \in 1 .. Len(mqueue'),
                 mqueue'[i] = mqueue'[j]
          PROVE  i = j
      BY <2>1, <3>1, <3>3 DEF QueueInv
    <3> QED BY <3>2, <3>3 DEF QueueInv
  <2> QED BY <2>4, <2>7, <2>9
<1>5. CASE /\ mqueue = <<>> /\ mqueue' = mqueue /\ munits' = munits + 1
           /\ mpc' = [mpc EXCEPT ![t] = "out"]
  <2>1. MutexTypeOK'
    BY <1>1, <1>5 DEF MutexTypeOK, MutexPlaces
  <2>2. mpc'[t] = "out" /\ \A u \in Threads : u # t => mpc'[u] = mpc[u]
    BY <1>5 DEF MutexTypeOK
  <2>3. Inside' = Inside /\ Permit' = {}
    BY <1>1, <1>2, <2>2 DEF Inside, Permit
  <2>4. CountInv' /\ PermitInv'
    BY <1>1, <1>2, <1>3, <1>5, <2>3 DEF CountInv, PermitInv
  <2>5. QueueInv'
    BY <1>5 DEF QueueInv
  <2> QED BY <2>1, <2>4, <2>5
<1> QED BY <1>4, <1>5 DEF MutexReleaseSem

(* The inductive invariant of the mutex.                                   *)
THEOREM MutexInvariant == MutexSpec => []MutexInv
<1>1. mutex_init => MutexInv
  <2> SUFFICES ASSUME mutex_init PROVE MutexInv
    OBVIOUS
  <2>1. Inside = {} /\ Permit = {}
    BY DEF mutex_init, Inside, Permit
  <2> QED BY <2>1, FS_EmptySet DEF mutex_init, MutexInv, MutexTypeOK, MutexPlaces,
             CountInv, PermitInv, QueueInv
<1>2. MutexInv /\ [MutexNext]_mvars => MutexInv'
  <2>1. ASSUME MutexInv, MutexNext PROVE MutexInv'
    BY <2>1, MutexLockStep, MutexAcquireStep, MutexUnlockStep, MutexReleaseStep DEF MutexNext
  <2>2. ASSUME MutexInv, UNCHANGED mvars PROVE MutexInv'
    BY <2>2 DEF mvars, MutexInv, MutexTypeOK, CountInv, PermitInv, QueueInv,
                Inside, Permit
  <2> QED BY <2>1, <2>2
<1> QED BY <1>1, <1>2, PTL DEF MutexSpec

(* At most one thread is between mutex_lock and mutex_unlock.              *)
THEOREM MutexExcludes == MutexSpec => []MutualExclusion
<1>1. MutexInv => MutualExclusion
  BY DEF MutexInv, PermitInv, Permit, MutualExclusion
<1> QED BY <1>1, MutexInvariant, PTL

(* A thread that waits for the mutex, or is about to, has somebody or a    *)
(* unit to wait for.                                                       *)
THEOREM MutexNoLostWakeup == MutexSpec => []NoLostWakeup
<1>1. MutexInv => NoLostWakeup
  <2> SUFFICES ASSUME MutexInv, NEW t \in Threads, mpc[t] \in {"acq", "wait"}
               PROVE  munits > 0 \/ \E u \in Threads : mpc[u] \in {"in", "rel"}
    BY DEF NoLostWakeup
  <2>1. mcount > 0
    BY InsideFacts DEF MutexInv, CountInv, Inside
  <2> QED BY <2>1 DEF MutexInv, PermitInv, Permit
<1> QED BY <1>1, MutexInvariant, PTL

-----------------------------------------------------------------------------
(* The recursive lock.                                                     *)

(* A lock by the holder changes its nesting and nothing else.              *)
LEMMA RecursiveAgainStep ==
    ASSUME RecursiveInv, NEW t \in Threads, LockAgain(t)
    PROVE  RecursiveInv'
<1> USE DEF RecursiveInv
<1>1. RecursiveTypeOK'
  BY DEF RecursiveTypeOK, LockAgain
<1>2. /\ holder = t /\ holder' = t /\ recursion' = recursion + 1 /\ rpc' = rpc
      /\ runits' = runits /\ rqueue' = rqueue /\ depth'[t] = depth[t] + 1
      /\ \A u \in Threads : u # t => depth'[u] = depth[u]
  BY DEF RecursiveTypeOK, LockAgain
<1>3. depth[t] > 0 /\ depth[t] \in Nat /\ depth'[t] > 0
  BY <1>2 DEF FieldsInv, RecursiveTypeOK
<1>4. Owners' = Owners
  BY <1>2, <1>3 DEF Owners
<1>5. OwnersInv'
  BY <1>2, <1>4 DEF OwnersInv
<1>6. FieldsInv'
  BY <1>2, <1>3, RecursiveLockAssumption DEF FieldsInv
<1>7. WaitersInv'
  BY <1>2 DEF WaitersInv
<1> QED BY <1>1, <1>5, <1>6, <1>7

(* A thread that is not the holder goes to the semaphore.                  *)
LEMMA RecursiveOtherStep ==
    ASSUME RecursiveInv, NEW t \in Threads, LockOther(t)
    PROVE  RecursiveInv'
<1> USE DEF RecursiveInv
<1>1. RecursiveTypeOK'
  BY DEF RecursiveTypeOK, RecursivePlaces, LockOther
<1>2. /\ holder # t /\ rpc[t] = "run" /\ rpc'[t] = "acq"
      /\ \A u \in Threads : u # t => rpc'[u] = rpc[u]
      /\ UNCHANGED <<holder, recursion, runits, rqueue, depth>>
  BY DEF RecursiveTypeOK, LockOther
<1>3. Owners' = Owners
  BY <1>2 DEF Owners
<1>4. OwnersInv'
  BY <1>2, <1>3 DEF OwnersInv
<1>5. FieldsInv'
  BY <1>2 DEF FieldsInv
<1>6. WaitersInv'
  BY <1>2 DEF WaitersInv, RecursiveTypeOK
<1> QED BY <1>1, <1>4, <1>5, <1>6

(* acquire_sem takes the permission from the pool, or queues.              *)
LEMMA RecursiveAcquireStep ==
    ASSUME RecursiveInv, NEW t \in Threads, RecursiveAcquireSem(t)
    PROVE  RecursiveInv'
<1> USE DEF RecursiveInv
<1>1. RecursiveTypeOK'
  <2>1. runits' \in Nat /\ rqueue' \in Seq(Threads)
    <3>1. runits \in Nat /\ rqueue \in Seq(Threads)
      BY DEF RecursiveTypeOK
    <3>2. Append(rqueue, t) \in Seq(Threads)
      BY <3>1
    <3>3. \/ runits > 0 /\ runits' = runits - 1 /\ rqueue' = rqueue
          \/ runits' = runits /\ rqueue' = Append(rqueue, t)
      BY DEF RecursiveAcquireSem
    <3> QED BY <3>1, <3>2, <3>3
  <2>2. rpc' \in [Threads -> RecursivePlaces]
    BY DEF RecursiveTypeOK, RecursivePlaces, RecursiveAcquireSem
  <2> QED BY <2>1, <2>2 DEF RecursiveTypeOK, RecursiveAcquireSem
<1>2. /\ rpc[t] = "acq" /\ rpc'[t] \in {"own", "wait"}
      /\ \A u \in Threads : u # t => rpc'[u] = rpc[u]
      /\ UNCHANGED <<holder, recursion, depth>>
  BY DEF RecursiveTypeOK, RecursiveAcquireSem
<1>3. FieldsInv'
  BY <1>2 DEF FieldsInv
<1>4. CASE runits > 0 /\ runits' = runits - 1 /\ rpc'[t] = "own" /\ rqueue' = rqueue
  <2>1. runits = 1 /\ runits' = 0 /\ Owners = {}
    BY <1>4 DEF OwnersInv
  <2>2. Owners' = {t}
    BY <1>2, <1>4, <2>1 DEF Owners
  <2>3. OwnersInv'
    BY <2>1, <2>2 DEF OwnersInv
  <2>4. WaitersInv'
    BY <1>2, <1>4 DEF WaitersInv, RecursiveTypeOK
  <2> QED BY <1>1, <1>3, <2>3, <2>4
<1>5. CASE /\ runits = 0 /\ runits' = runits /\ rpc'[t] = "wait"
           /\ rqueue' = Append(rqueue, t)
  <2>1. depth[t] = 0
    BY <1>2 DEF FieldsInv, RecursiveTypeOK
  <2>2. Owners' = Owners
    BY <1>2, <1>5, <2>1 DEF Owners
  <2>3. OwnersInv'
    BY <1>5, <2>2 DEF OwnersInv
  <2>4. /\ Len(rqueue') = Len(rqueue) + 1 /\ Len(rqueue) \in Nat
        /\ rqueue'[Len(rqueue) + 1] = t
        /\ \A i \in 1 .. Len(rqueue) : rqueue'[i] = rqueue[i] /\ rqueue[i] \in Threads
    BY <1>5 DEF RecursiveTypeOK
  <2>5. \A i \in 1 .. Len(rqueue) : rqueue[i] # t
    BY <1>2 DEF WaitersInv
  <2>6. WaitersInv'
    BY <1>2, <1>5, <2>4, <2>5 DEF WaitersInv
  <2> QED BY <1>1, <1>3, <2>3, <2>6
<1> QED BY <1>4, <1>5 DEF RecursiveAcquireSem, RecursiveTypeOK

(* The new owner finds the fields as a free lock's, and fills them in.     *)
LEMMA RecursiveOwnStep ==
    ASSUME RecursiveInv, NEW t \in Threads, LockOwn(t)
    PROVE  RecursiveInv'
<1> USE DEF RecursiveInv
<1>1. RecursiveTypeOK'
  BY DEF RecursiveTypeOK, RecursivePlaces, LockOwn
<1>2. /\ rpc[t] = "own" /\ rpc'[t] = "run" /\ holder' = t
      /\ recursion' = recursion + 1 /\ depth'[t] = depth[t] + 1
      /\ \A u \in Threads : u # t => rpc'[u] = rpc[u] /\ depth'[u] = depth[u]
      /\ UNCHANGED <<runits, rqueue>>
  BY DEF RecursiveTypeOK, LockOwn
<1>3. Owners = {t}
  BY <1>2 DEF Owners, OwnersInv
<1>4. \A u \in Threads : depth[u] = 0
  BY <1>2, <1>3 DEF Owners, FieldsInv, RecursiveTypeOK
<1>5. holder = NoThread /\ recursion = 0
  BY <1>4 DEF FieldsInv, RecursiveTypeOK
<1>6. Owners' = {t}
  BY <1>2, <1>3, <1>4 DEF Owners
<1>7. OwnersInv'
  BY <1>2, <1>3, <1>6 DEF OwnersInv
<1>8. FieldsInv'
  BY <1>2, <1>4, <1>5, RecursiveLockAssumption DEF FieldsInv
<1>9. WaitersInv'
  BY <1>2 DEF WaitersInv, RecursiveTypeOK
<1> QED BY <1>1, <1>7, <1>8, <1>9

(* An unlock keeps the fields in step, and the last one clears them.       *)
LEMMA RecursiveUnlockStep ==
    ASSUME RecursiveInv, NEW t \in Threads, recursive_lock_unlock(t)
    PROVE  RecursiveInv'
<1> USE DEF RecursiveInv
<1>1. RecursiveTypeOK'
  BY DEF RecursiveTypeOK, RecursivePlaces, recursive_lock_unlock, HolderAfter, LastUnlock
<1>2. /\ rpc[t] = "run" /\ depth[t] > 0 /\ depth[t] \in Nat /\ holder = t
      /\ recursion = depth[t]
      /\ recursion' = recursion - 1 /\ depth'[t] = depth[t] - 1
      /\ \A u \in Threads : u # t => rpc'[u] = rpc[u] /\ depth'[u] = depth[u]
      /\ UNCHANGED <<runits, rqueue>>
  BY DEF RecursiveTypeOK, recursive_lock_unlock, FieldsInv
<1>3. \A u \in Threads : u # t => depth[u] = 0
  BY <1>2 DEF FieldsInv, RecursiveTypeOK
<1>4. Owners = {t} /\ runits = 0
  BY <1>2 DEF Owners, OwnersInv
<1>5. CASE depth[t] = 1
  <2>1. rpc'[t] = "rel" /\ holder' = NoThread /\ depth'[t] = 0 /\ recursion' = 0
    BY <1>2, <1>5 DEF recursive_lock_unlock, HolderAfter, LastUnlock, RecursiveTypeOK
  <2>2. Owners' = {t}
    BY <1>2, <1>4, <2>1 DEF Owners
  <2>3. FieldsInv'
    BY <1>2, <1>3, <2>1, RecursiveLockAssumption DEF FieldsInv
  <2>4. WaitersInv'
    BY <1>2, <2>1 DEF WaitersInv, RecursiveTypeOK
  <2>5. OwnersInv'
    BY <1>2, <1>4, <2>2 DEF OwnersInv
  <2> QED BY <1>1, <2>3, <2>4, <2>5
<1>6. CASE depth[t] > 1
  <2>1. rpc'[t] = "run" /\ holder' = t /\ depth'[t] > 0
    BY <1>2, <1>6 DEF recursive_lock_unlock, HolderAfter, LastUnlock, RecursiveTypeOK
  <2>2. Owners' = {t}
    BY <1>2, <1>4, <2>1 DEF Owners
  <2>3. FieldsInv'
    BY <1>2, <1>3, <2>1, RecursiveLockAssumption DEF FieldsInv
  <2>4. WaitersInv'
    BY <1>2, <2>1 DEF WaitersInv, RecursiveTypeOK
  <2>5. OwnersInv'
    BY <1>2, <1>4, <2>2 DEF OwnersInv
  <2> QED BY <1>1, <2>3, <2>4, <2>5
<1> QED BY <1>2, <1>5, <1>6

(* release_sem passes the permission to the first waiter or to the pool.   *)
LEMMA RecursiveReleaseStep ==
    ASSUME RecursiveInv, NEW t \in Threads, RecursiveReleaseSem(t)
    PROVE  RecursiveInv'
<1> USE DEF RecursiveInv
<1>1. rpc[t] = "rel" /\ UNCHANGED <<holder, recursion, depth>>
  BY DEF RecursiveReleaseSem
<1>2. Owners = {t} /\ runits = 0
  BY <1>1 DEF Owners, OwnersInv
<1>3. \A u \in Threads : depth[u] = 0
  BY <1>1, <1>2 DEF Owners, FieldsInv, RecursiveTypeOK
<1>4. FieldsInv'
  BY <1>1, <1>3 DEF FieldsInv
<1>5. CASE /\ rqueue # <<>> /\ rqueue' = Tail(rqueue) /\ runits' = runits
           /\ rpc' = [rpc EXCEPT ![t] = "run", ![Head(rqueue)] = "own"]
  <2> DEFINE h == Head(rqueue)
  <2>1. /\ Len(rqueue) \in Nat \ {0} /\ h = rqueue[1] /\ h \in Threads
        /\ Len(rqueue') = Len(rqueue) - 1
        /\ \A i \in 1 .. Len(rqueue') : rqueue'[i] = rqueue[i + 1]
        /\ rqueue' \in Seq(Threads)
    BY <1>5 DEF RecursiveTypeOK
  <2>2. rpc[h] = "wait" /\ h # t
    BY <1>1, <2>1 DEF WaitersInv
  <2> HIDE DEF h
  <2>3. /\ rpc'[t] = "run" /\ rpc'[h] = "own"
        /\ \A u \in Threads : u # t /\ u # h => rpc'[u] = rpc[u]
    BY <1>5, <2>1, <2>2 DEF RecursiveTypeOK, h
  <2>4. RecursiveTypeOK'
    BY <1>1, <1>5, <2>1 DEF RecursiveTypeOK, RecursivePlaces, h
  <2>5. Owners' = {h}
    BY <1>1, <1>2, <1>3, <2>1, <2>2, <2>3 DEF Owners
  <2>6. OwnersInv'
    BY <1>2, <1>5, <2>5 DEF OwnersInv
  <2>7. \A i \in 2 .. Len(rqueue) : rqueue[i] \in Threads /\ rqueue[i] # h
    BY <2>1 DEF WaitersInv, RecursiveTypeOK
  <2>8. WaitersInv'
    <3>1. \A i \in 1 .. Len(rqueue') : i + 1 \in 2 .. Len(rqueue)
      BY <2>1
    <3>2. ASSUME NEW i \in 1 .. Len(rqueue') PROVE rpc'[rqueue'[i]] = "wait"
      BY <1>1, <2>1, <2>3, <2>7, <3>1 DEF WaitersInv
    <3>3. ASSUME NEW i \in 1 .. Len(rqueue'), NEW j \in 1 .. Len(rqueue'),
                 rqueue'[i] = rqueue'[j]
          PROVE  i = j
      BY <2>1, <3>1, <3>3 DEF WaitersInv
    <3> QED BY <3>2, <3>3 DEF WaitersInv
  <2> QED BY <1>4, <2>4, <2>6, <2>8
<1>6. CASE /\ rqueue = <<>> /\ rqueue' = rqueue /\ runits' = runits + 1
           /\ rpc' = [rpc EXCEPT ![t] = "run"]
  <2>1. RecursiveTypeOK'
    BY <1>1, <1>6 DEF RecursiveTypeOK, RecursivePlaces
  <2>2. rpc'[t] = "run" /\ \A u \in Threads : u # t => rpc'[u] = rpc[u]
    BY <1>6 DEF RecursiveTypeOK
  <2>3. Owners' = {}
    BY <1>1, <1>2, <1>3, <2>2 DEF Owners
  <2>4. OwnersInv'
    BY <1>2, <1>6, <2>3 DEF OwnersInv
  <2>5. WaitersInv'
    BY <1>6 DEF WaitersInv
  <2> QED BY <1>4, <2>1, <2>4, <2>5
<1> QED BY <1>5, <1>6 DEF RecursiveReleaseSem

(* The inductive invariant of the recursive lock.                          *)
THEOREM RecursiveInvariant == RecursiveSpec => []RecursiveInv
<1>1. recursive_lock_create => RecursiveInv
  BY RecursiveLockAssumption DEF recursive_lock_create, RecursiveInv,
     RecursiveTypeOK, RecursivePlaces, OwnersInv, Owners, FieldsInv, WaitersInv
<1>2. RecursiveInv /\ [RecursiveNext]_rvars => RecursiveInv'
  <2>1. ASSUME RecursiveInv, RecursiveNext PROVE RecursiveInv'
    BY <2>1, RecursiveAgainStep, RecursiveOtherStep, RecursiveAcquireStep,
       RecursiveOwnStep, RecursiveUnlockStep, RecursiveReleaseStep
    DEF RecursiveNext, RecursiveFinish
  <2>2. ASSUME RecursiveInv, UNCHANGED rvars PROVE RecursiveInv'
    BY <2>2 DEF rvars, RecursiveInv, RecursiveTypeOK, OwnersInv, Owners,
                FieldsInv, WaitersInv
  <2> QED BY <2>1, <2>2
<1> QED BY <1>1, <1>2, PTL DEF RecursiveSpec

(* At most one thread has the lock.                                        *)
THEOREM RecursiveOneOwner == RecursiveSpec => []OneOwner
<1>1. RecursiveInv => OneOwner
  BY DEF RecursiveInv, OwnersInv, Owners, OneOwner
<1> QED BY <1>1, RecursiveInvariant, PTL

(* The unlocks of the owner do not panic, and recursion is its nesting.    *)
THEOREM RecursiveHolderIsOwner == RecursiveSpec => []HolderIsOwner
<1>1. RecursiveInv => HolderIsOwner
  BY DEF RecursiveInv, FieldsInv, HolderIsOwner
<1> QED BY <1>1, RecursiveInvariant, PTL

(* Nobody waits for a lock that is free.                                   *)
THEOREM RecursiveWaiterHasOwner == RecursiveSpec => []WaiterHasOwner
<1>1. RecursiveInv => WaiterHasOwner
  BY DEF RecursiveInv, OwnersInv, Owners, WaiterHasOwner
<1> QED BY <1>1, RecursiveInvariant, PTL

-----------------------------------------------------------------------------
(* The read/write lock.  The inductive invariant.                          *)

RwPlaces == Waiting \cup {"out", "reading", "rel", "wsub", "wben", "brel", "writing"}

Reading     == {"reading"}
ReadWaits   == {"racq", "rwait"}
WriteIn     == {"wben", "brel", "writing"}
WriteWaits  == {"wacq", "wwait"}
(* Who has taken one from bcount, and who has the benaphore.               *)
BenCounted  == {"bacq", "bwait", "wsub", "wacq", "wwait", "wben"}
BenHeld     == {"wsub", "wacq", "wwait", "wben", "brel"}

At(P)   == {t \in Threads : wpc[t] \in P}
Num(P)  == Cardinality(At(P))
Some(P) == \E t \in Threads : wpc[t] \in P
One(P)  == \A t, u \in Threads : wpc[t] \in P /\ wpc[u] \in P => t = u

(* A reader has taken one from the count and a writer MAX_READERS.         *)
Taken(P) == IF Some(P) THEN MaxReaders ELSE 0
ReadersCounted ==
    wcount = MaxReaders - Num(Reading) - Num(ReadWaits) - Taken(WriteIn) - Taken(WriteWaits)

(* One thread has the benaphore, or its semaphore has the one unit for the *)
(* next, while anybody is counted.                                         *)
BenaphoreKept ==
    /\ bcount = 1 - Num(BenCounted)
    /\ One(BenHeld)
    /\ bunits = IF Some(BenCounted) /\ ~Some(BenHeld) THEN 1 ELSE 0
    /\ Some(BenHeld) => Some(BenCounted)
BenaphoreQueue ==
    /\ Distinct(bqueue)
    /\ \A u \in Threads : Contains(bqueue, u) => wpc[u] = "bwait"

RwQueueKept ==
    /\ \A i, j \in 1 .. Len(wqueue) : wqueue[i].thread = wqueue[j].thread => i = j
    /\ \A i \in 1 .. Len(wqueue) :
          \/ wpc[wqueue[i].thread] = "rwait" /\ wqueue[i].need = 1
          \/ wpc[wqueue[i].thread] = "wwait"

(* The units of lock.sem, those included that a thread is about to give,   *)
(* each with its number.                                                   *)
Owed == {q \in Threads \X Nat : wpc[q[1]] = "rel" /\ q[2] \in 1 .. arg[q[1]]}
Supply == wunits + Cardinality(Owed)
OwedKept ==
    /\ IsFiniteSet(Owed)
    /\ \A t \in Threads : wpc[t] = "rel" => arg[t] > 0

(* A writer that waits lacks a unit per reader that is in or has one       *)
(* coming, or the one of the writer that is in.                            *)
WriterLacks == IF Some(WriteIn) THEN 1 ELSE Num(Reading) + Supply
WriterAlone ==
    /\ One(WriteIn)
    /\ Some(WriteIn) => ~Some(Reading) /\ ~Some({"rel"}) /\ wunits = 0
ReadersBacked ==
    ~Some(WriteIn) /\ ~Some(WriteWaits) => Num(ReadWaits) = Supply
WriterBacked ==
    /\ \A t \in Threads : wpc[t] = "wacq" => arg[t] = WriterLacks
    /\ \A i \in 1 .. Len(wqueue) :
          wpc[wqueue[i].thread] = "wwait" => wqueue[i].need = WriterLacks

LockPart == RwQueueKept /\ OwedKept /\ WriterAlone /\ ReadersBacked /\ WriterBacked
RwInductive ==
    RwTypeOK /\ ReadersCounted /\ BenaphoreKept /\ BenaphoreQueue /\ LockPart

-----------------------------------------------------------------------------
(* Counting.                                                               *)

Bit(b) == IF b THEN 1 ELSE 0

(* Sets that differ in one element at most.                                *)
LEMMA CardOneElement ==
    ASSUME NEW S, NEW T, NEW e, IsFiniteSet(S), S \ {e} = T \ {e}
    PROVE  /\ IsFiniteSet(T) /\ Cardinality(S) \in Nat /\ Cardinality(T) \in Nat
           /\ Cardinality(T) = Cardinality(S) - Bit(e \in S) + Bit(e \in T)
<1> DEFINE R == S \ {e}
<1>1. IsFiniteSet(R)
  BY FS_RemoveElement
<1>2. ASSUME NEW U, U \ {e} = R
      PROVE  IsFiniteSet(U) /\ Cardinality(U) = Cardinality(R) + Bit(e \in U)
  <2>0. Cardinality(R) \in Nat
    BY <1>1, FS_CardinalityType
  <2>1. CASE e \in U
    <3>1. U = R \cup {e} /\ e \notin R
      BY <1>2, <2>1
    <3> HIDE DEF R
    <3>2. IsFiniteSet(R \cup {e}) /\ Cardinality(R \cup {e}) = Cardinality(R) + 1
      BY <1>1, <3>1, FS_AddElement
    <3> QED BY <2>1, <3>1, <3>2 DEF Bit
  <2>2. CASE e \notin U
    <3>1. U = R
      BY <1>2, <2>2
    <3> HIDE DEF R
    <3> QED BY <1>1, <2>0, <2>2, <3>1 DEF Bit
  <2> QED BY <2>1, <2>2
<1>3. /\ IsFiniteSet(S) /\ Cardinality(S) = Cardinality(R) + Bit(e \in S)
      /\ IsFiniteSet(T) /\ Cardinality(T) = Cardinality(R) + Bit(e \in T)
  <2>1. S \ {e} = R /\ T \ {e} = R
    OBVIOUS
  <2> HIDE DEF R
  <2> QED BY <1>2, <2>1
<1>4. Cardinality(S) \in Nat /\ Cardinality(T) \in Nat /\ Cardinality(R) \in Nat
  BY <1>1, <1>3, FS_CardinalityType
<1>5. Bit(e \in S) \in Int /\ Bit(e \in T) \in Int
  BY DEF Bit
<1> HIDE DEF R
<1> QED BY <1>3, <1>4, <1>5

(* The number of the threads at some places, and when it is 0.             *)
LEMMA NumFacts ==
    ASSUME NEW P
    PROVE  /\ IsFiniteSet(At(P)) /\ Num(P) \in Nat
           /\ Num(P) = 0 <=> ~Some(P)
<1>1. IsFiniteSet(At(P))
  BY RwLockAssumption, FS_Subset DEF At
<1>2. At(P) = {} <=> ~Some(P)
  BY DEF At, Some
<1> QED BY <1>1, <1>2, FS_CardinalityType, FS_EmptySet DEF Num

(* When one thread goes on, a number of threads changes by that one.       *)
LEMMA NumStep ==
    ASSUME RwTypeOK, NEW P, NEW t \in Threads, NEW p, wpc' = [wpc EXCEPT ![t] = p]
    PROVE  /\ Num(P)' \in Nat
           /\ Num(P)' = Num(P) - Bit(wpc[t] \in P) + Bit(p \in P)
           /\ Num(P)' = 0 <=> ~Some(P)'
<1>1. At(P) \ {t} = At(P)' \ {t} /\ (t \in At(P) <=> wpc[t] \in P) /\ (t \in At(P)' <=> p \in P)
  BY DEF At, RwTypeOK
<1>2. IsFiniteSet(At(P))
  BY NumFacts
<1>3. PICK T : T = At(P)'
  OBVIOUS
<1>4. /\ IsFiniteSet(T) /\ Cardinality(T) \in Nat
      /\ Cardinality(T) = Cardinality(At(P)) - Bit(t \in At(P)) + Bit(t \in T)
  BY <1>1, <1>2, <1>3, CardOneElement
<1>5. Bit(t \in At(P)) = Bit(wpc[t] \in P) /\ Bit(t \in T) = Bit(p \in P)
  BY <1>1, <1>3 DEF Bit
<1>6. T = {} <=> ~Some(P)'
  BY <1>3 DEF At, Some
<1>7. Cardinality(T) = 0 <=> T = {}
  BY <1>4, FS_EmptySet
<1> QED BY <1>3, <1>4, <1>5, <1>6, <1>7 DEF Num

(* There are fewer readers than MAX_READERS.                               *)
LEMMA FewReaders ==
    Num(Reading) + Num(ReadWaits) < MaxReaders
<1>1. IsFiniteSet(At(Reading)) /\ IsFiniteSet(At(ReadWaits))
  BY NumFacts
<1>2. At(Reading) \cap At(ReadWaits) = {}
  BY DEF At, Reading, ReadWaits
<1>3. At(Reading) \cup At(ReadWaits) \in SUBSET Threads
  BY DEF At
<1>4. Cardinality(At(Reading) \cup At(ReadWaits)) <= Cardinality(Threads)
  BY <1>3, RwLockAssumption, FS_Subset
<1>5. Cardinality(At(Reading) \cup At(ReadWaits)) = Num(Reading) + Num(ReadWaits)
                                                    - Cardinality({})
  BY <1>1, <1>2, FS_Union DEF Num
<1>6. /\ Num(Reading) \in Nat /\ Num(ReadWaits) \in Nat /\ Cardinality(Threads) \in Nat
      /\ Cardinality({}) = 0
  BY NumFacts, RwLockAssumption, FS_CardinalityType, FS_EmptySet
<1> QED BY <1>4, <1>5, <1>6, RwLockAssumption

(* Somebody or nobody at some places, when one thread goes on.             *)
LEMMA SomeStep ==
    ASSUME RwTypeOK, NEW P, NEW t \in Threads, NEW p, wpc' = [wpc EXCEPT ![t] = p]
    PROVE  /\ p \in P => Some(P)'
           /\ p \notin P /\ wpc[t] \notin P => (Some(P)' <=> Some(P))
           /\ p \notin P /\ One(P) /\ wpc[t] \in P => ~Some(P)'
           /\ p \notin P /\ One(P) => One(P)'
           /\ p \in P /\ wpc[t] \in P /\ One(P) => One(P)'
           /\ p \in P /\ ~Some(P) => One(P)'
BY DEF Some, One, RwTypeOK

(* The units that one thread is about to give.                             *)
Gives(t) == IF wpc[t] = "rel" THEN arg[t] ELSE 0

LEMMA OwedFacts ==
    ASSUME RwTypeOK, OwedKept
    PROVE  /\ Cardinality(Owed) \in Nat
           /\ Cardinality(Owed) = 0 <=> ~Some({"rel"})
<1>1. Cardinality(Owed) \in Nat /\ (Cardinality(Owed) = 0 <=> Owed = {})
  BY FS_CardinalityType, FS_EmptySet DEF OwedKept
<1>2. Owed = {} => ~Some({"rel"})
  <2> SUFFICES ASSUME NEW t \in Threads, wpc[t] = "rel"
               PROVE  <<t, 1>> \in Owed
    BY DEF Some
  <2>1. arg[t] \in Nat /\ arg[t] > 0
    BY DEF RwTypeOK, OwedKept
  <2> QED BY <2>1 DEF Owed
<1>3. ~Some({"rel"}) => Owed = {}
  BY DEF Owed, Some
<1> QED BY <1>1, <1>2, <1>3

(* The owed units change by those of the thread that goes on.              *)
LEMMA OwedStep ==
    ASSUME RwTypeOK, OwedKept, NEW t \in Threads,
           \A u \in Threads \ {t} : (wpc'[u] = "rel" <=> wpc[u] = "rel") /\ arg'[u] = arg[u],
           Gives(t)' \in Nat, wpc'[t] = "rel" => arg'[t] > 0
    PROVE  /\ OwedKept'
           /\ Cardinality(Owed)' \in Nat /\ Gives(t) \in Nat /\ Gives(t) <= Cardinality(Owed)
           /\ Cardinality(Owed)' = Cardinality(Owed) - Gives(t) + Gives(t)'
<1> DEFINE R == {q \in Owed : q[1] # t}
<1>1. PICK k \in Nat : k = Gives(t)
  BY DEF Gives, RwTypeOK
<1>2. PICK m \in Nat : m = Gives(t)'
  OBVIOUS
<1>3. IsFiniteSet(R) /\ Cardinality(R) \in Nat
  BY FS_Subset, FS_CardinalityType DEF OwedKept
<1>4. Owed = R \cup ({t} \X (1 .. k))
  BY <1>1 DEF Owed, Gives
<1>5. PICK T : T = Owed'
  OBVIOUS
<1>6. T = R \cup ({t} \X (1 .. m))
  <2>1. R = {q \in T : q[1] # t}
    BY <1>5 DEF Owed
  <2>2. {q \in T : q[1] = t} = {t} \X (1 .. m)
    BY <1>2, <1>5 DEF Owed, Gives
  <2> HIDE DEF R
  <2> QED BY <2>1, <2>2
<1>7. \A q \in R : q[1] # t
  OBVIOUS
<1> HIDE DEF R
<1>8. Cardinality(Owed) = Cardinality(R) + k
  BY <1>3, <1>4, <1>7, UnitsAdded
<1>9. IsFiniteSet(T) /\ Cardinality(T) = Cardinality(R) + m
  BY <1>3, <1>6, <1>7, UnitsAdded
<1>10. OwedKept'
  BY <1>5, <1>9 DEF OwedKept
<1> QED BY <1>1, <1>2, <1>3, <1>5, <1>8, <1>9, <1>10

(* The owed units stay when nobody who gives any is concerned.             *)
LEMMA OwedSame ==
    ASSUME RwTypeOK, OwedKept,
           \A u \in Threads : (wpc'[u] = "rel" <=> wpc[u] = "rel")
                              /\ (wpc[u] = "rel" => arg'[u] = arg[u])
    PROVE  OwedKept' /\ Owed' = Owed
<1>1. Owed' = Owed
  BY DEF Owed
<1> QED BY <1>1 DEF OwedKept

(* Who waits for lock.sem.                                                 *)
LEMMA QueueType ==
    ASSUME RwTypeOK
    PROVE  /\ Len(wqueue) \in Nat
           /\ \A i \in 1 .. Len(wqueue) :
                 wqueue[i].thread \in Threads /\ wqueue[i].need \in Nat \ {0}
<1> DEFINE Waiter == [thread : Threads, need : Nat \ {0}]
<1>1. wqueue \in Seq(Waiter)
  BY DEF RwTypeOK
<1>2. \A w \in Waiter : w.thread \in Threads /\ w.need \in Nat \ {0}
  OBVIOUS
<1> HIDE DEF Waiter
<1>3. Len(wqueue) \in Nat /\ \A i \in 1 .. Len(wqueue) : wqueue[i] \in Waiter
  BY <1>1, ElementOfSeq, LenProperties
<1> QED BY <1>2, <1>3

-----------------------------------------------------------------------------
(* The benaphore.                                                          *)

BenPart == BenaphoreKept /\ BenaphoreQueue

(* Nobody enters or leaves the benaphore.                                  *)
LEMMA BenSame ==
    ASSUME RwTypeOK, BenPart, UNCHANGED benVars,
           \A u \in Threads : /\ wpc'[u] \in BenCounted <=> wpc[u] \in BenCounted
                              /\ wpc'[u] \in BenHeld <=> wpc[u] \in BenHeld
                              /\ wpc[u] = "bwait" => wpc'[u] = "bwait"
    PROVE  BenPart'
<1>1. At(BenCounted)' = At(BenCounted)
  BY DEF At
<1>2. Num(BenCounted)' = Num(BenCounted)
  BY <1>1 DEF Num
<1>3. /\ Some(BenCounted)' <=> Some(BenCounted)
      /\ Some(BenHeld)' <=> Some(BenHeld)
      /\ One(BenHeld)' <=> One(BenHeld)
  BY DEF Some, One
<1>4. BenaphoreKept'
  BY <1>2, <1>3 DEF BenPart, BenaphoreKept, benVars
<1>5. BenaphoreQueue'
  BY DEF BenPart, BenaphoreQueue, benVars, RwTypeOK
<1> QED BY <1>4, <1>5 DEF BenPart

(* Nobody is at another place of lock.count and lock.sem.                  *)
LEMMA LockSame ==
    ASSUME RwTypeOK, ReadersCounted, LockPart, UNCHANGED <<wcount, semVars, arg>>,
           \A u \in Threads : /\ wpc'[u] \in Reading <=> wpc[u] \in Reading
                              /\ wpc'[u] \in ReadWaits <=> wpc[u] \in ReadWaits
                              /\ wpc'[u] \in WriteIn <=> wpc[u] \in WriteIn
                              /\ wpc'[u] \in WriteWaits <=> wpc[u] \in WriteWaits
                              /\ \A p \in {"rel", "wacq", "rwait", "wwait"} :
                                    wpc'[u] = p <=> wpc[u] = p
    PROVE  ReadersCounted' /\ LockPart'
<1>1. At(Reading)' = At(Reading) /\ At(ReadWaits)' = At(ReadWaits)
  BY DEF At
<1>2. Num(Reading)' = Num(Reading) /\ Num(ReadWaits)' = Num(ReadWaits)
  BY <1>1 DEF Num
<1>3. /\ Some(Reading)' <=> Some(Reading)
      /\ Some(WriteIn)' <=> Some(WriteIn)
      /\ Some(WriteWaits)' <=> Some(WriteWaits)
      /\ Some({"rel"})' <=> Some({"rel"})
      /\ One(WriteIn)' <=> One(WriteIn)
  BY DEF Some, One
<1>4. ReadersCounted'
  BY <1>2, <1>3 DEF ReadersCounted, Taken
<1>5. wunits' = wunits /\ wqueue' = wqueue /\ arg' = arg
  BY DEF semVars
<1>6. OwedKept' /\ Owed' = Owed
  BY <1>5, OwedSame DEF LockPart
<1>7. Supply' = Supply /\ WriterLacks' = WriterLacks
  BY <1>2, <1>3, <1>5, <1>6 DEF Supply, WriterLacks
<1>8. \A i \in 1 .. Len(wqueue) : wqueue[i].thread \in Threads
  BY QueueType
<1>9. RwQueueKept'
  BY <1>5, <1>8 DEF LockPart, RwQueueKept
<1>10. WriterAlone' /\ ReadersBacked'
  BY <1>2, <1>3, <1>5, <1>7 DEF LockPart, WriterAlone, ReadersBacked
<1>11. WriterBacked'
  BY <1>5, <1>7, <1>8 DEF LockPart, WriterBacked
<1> QED BY <1>4, <1>6, <1>9, <1>10, <1>11 DEF LockPart

(* ACQUIRE_BENAPHORE: the thread counts itself, and has the benaphore if   *)
(* it is the first.                                                        *)
LEMMA WriteLockStep ==
    ASSUME RwInductive, NEW t \in Threads, ACQUIRE_WRITE_LOCK(t)
    PROVE  RwInductive'
<1> USE DEF RwInductive
<1>0. wpc[t] = "out" /\ bcount' = bcount - 1 /\ UNCHANGED <<wcount, semVars, bunits, bqueue, arg>>
  BY DEF ACQUIRE_WRITE_LOCK
<1>1. PICK p \in {"bacq", "wsub"} : /\ wpc' = [wpc EXCEPT ![t] = p]
                                    /\ p = "bacq" <=> bcount <= 0
  BY DEF ACQUIRE_WRITE_LOCK, Goto, RwTypeOK
<1>2. RwTypeOK'
  BY <1>0, <1>1 DEF RwTypeOK, Waiting, semVars
<1>3. ReadersCounted' /\ LockPart'
  <2>1. \A u \in Threads : u # t => wpc'[u] = wpc[u]
    BY <1>1 DEF RwTypeOK
  <2>2. wpc'[t] = p
    BY <1>1 DEF RwTypeOK
  <2> QED BY <1>0, <1>1, <2>1, <2>2, LockSame
          DEF Reading, ReadWaits, WriteIn, WriteWaits
<1>4. /\ Num(BenCounted) \in Nat /\ (Num(BenCounted) = 0 <=> ~Some(BenCounted))
      /\ Num(BenCounted)' = Num(BenCounted) - Bit(wpc[t] \in BenCounted) + Bit(p \in BenCounted)
  BY <1>1, NumFacts, NumStep
<1>5. Bit(wpc[t] \in BenCounted) = 0 /\ Bit(p \in BenCounted) = 1 /\ p \in BenCounted
  BY <1>0, <1>1 DEF Bit, BenCounted
<1>6. Some(BenCounted)'
  BY <1>1, <1>5, SomeStep
<1>7. bcount = 1 - Num(BenCounted) /\ bcount' = 1 - Num(BenCounted)'
  <2> HIDE DEF RwInductive
  <2>1. bcount = 1 - Num(BenCounted)
    BY DEF RwInductive, BenaphoreKept
  <2> QED BY <1>0, <1>4, <1>5, <2>1
<1>8. ASSUME p = "bacq" PROVE BenaphoreKept'
  <2>1. Some(BenCounted)
    BY <1>1, <1>4, <1>7, <1>8
  <2>2. (Some(BenHeld)' <=> Some(BenHeld)) /\ One(BenHeld)'
    BY <1>0, <1>1, <1>8, SomeStep DEF BenHeld, BenaphoreKept
  <2>3. bunits' = IF Some(BenCounted)' /\ ~Some(BenHeld)' THEN 1 ELSE 0
    BY <1>0, <1>6, <2>1, <2>2 DEF BenaphoreKept
  <2> QED BY <1>6, <1>7, <2>2, <2>3 DEF BenaphoreKept
<1>9. ASSUME p = "wsub" PROVE BenaphoreKept'
  <2>1. ~Some(BenCounted)
    BY <1>1, <1>4, <1>7, <1>9
  <2>2. ~Some(BenHeld) /\ bunits = 0
    BY <2>1 DEF BenaphoreKept
  <2>3. Some(BenHeld)' /\ One(BenHeld)'
    BY <1>1, <1>9, <2>2, SomeStep DEF BenHeld
  <2>4. bunits' = 0
    BY <1>0, <2>2
  <2> QED BY <1>6, <1>7, <2>3, <2>4 DEF BenaphoreKept
<1>10. BenaphoreKept'
  BY <1>1, <1>8, <1>9
<1>11. BenaphoreQueue'
  BY <1>0, <1>1 DEF BenaphoreQueue, RwTypeOK
<1> QED BY <1>2, <1>3, <1>10, <1>11

(* The semaphore of the benaphore: a thread that gets its unit has the     *)
(* benaphore, and one that does not waits behind the others.               *)
LEMMA BenaphoreAcquireStep ==
    ASSUME RwInductive, NEW t \in Threads, BenaphoreAcquire(t)
    PROVE  RwInductive'
<1>0. wpc[t] = "bacq" /\ UNCHANGED <<wcount, semVars, bcount, arg>>
  BY DEF BenaphoreAcquire
<1>1. RwTypeOK /\ BenaphoreKept /\ BenaphoreQueue /\ ReadersCounted /\ LockPart
  BY DEF RwInductive
<1>2. PICK p \in {"wsub", "bwait"} :
         /\ wpc' = [wpc EXCEPT ![t] = p]
         /\ p = "wsub" => bunits > 0 /\ bunits' = bunits - 1 /\ bqueue' = bqueue
         /\ p = "bwait" => bunits = 0 /\ bunits' = bunits /\ bqueue' = Append(bqueue, t)
  BY DEF BenaphoreAcquire, Goto
<1>3. wpc'[t] = p /\ \A u \in Threads : u # t => wpc'[u] = wpc[u]
  BY <1>1, <1>2 DEF RwTypeOK
<1>4. ReadersCounted' /\ LockPart'
  BY <1>0, <1>1, <1>2, <1>3, LockSame DEF Reading, ReadWaits, WriteIn, WriteWaits
<1>5. /\ bqueue' \in Seq(Threads) /\ Distinct(bqueue')
      /\ \A u \in Threads : Contains(bqueue', u) => wpc'[u] = "bwait"
  <2>1. CASE p = "wsub"
    BY <1>0, <1>1, <1>2, <1>3, <2>1 DEF BenaphoreQueue, RwTypeOK
  <2>2. CASE p = "bwait"
    <3>1. ~Contains(bqueue, t) /\ Distinct(bqueue) /\ bqueue \in Seq(Threads)
      BY <1>0, <1>1 DEF BenaphoreQueue, RwTypeOK
    <3>2. PICK q : q = Append(bqueue, t)
      OBVIOUS
    <3>3. /\ q \in Seq(Threads) /\ Distinct(q)
          /\ \A u : Contains(q, u) <=> Contains(bqueue, u) \/ u = t
      BY <3>1, <3>2, AppendDistinct
    <3>4. bqueue' = q
      BY <1>2, <2>2, <3>2
    <3> QED BY <1>1, <1>3, <2>2, <3>3, <3>4 DEF BenaphoreQueue
  <2> QED BY <1>2, <2>1, <2>2
<1>6. RwTypeOK'
  <2>1. bunits' \in Nat
    BY <1>1, <1>2 DEF RwTypeOK
  <2> QED BY <1>0, <1>1, <1>2, <1>5, <2>1 DEF RwTypeOK, Waiting, semVars
<1>7. Some(BenCounted) /\ Some(BenCounted)' /\ Num(BenCounted)' = Num(BenCounted)
  <2>1. wpc[t] \in BenCounted /\ p \in BenCounted
    BY <1>0, <1>2 DEF BenCounted
  <2>2. At(BenCounted)' = At(BenCounted)
    BY <1>3, <2>1 DEF At
  <2> QED BY <1>2, <1>3, <2>1, <2>2 DEF Some, Num
<1>8. BenaphoreKept'
  <2>1. CASE p = "wsub"
    <3>1. bunits = 1 /\ bunits' = 0 /\ ~Some(BenHeld)
      BY <1>1, <1>2, <2>1 DEF BenaphoreKept
    <3>2. Some(BenHeld)' /\ One(BenHeld)'
      BY <1>1, <1>2, <2>1, <3>1, SomeStep DEF BenHeld
    <3> QED BY <1>0, <1>1, <1>7, <3>1, <3>2 DEF BenaphoreKept
  <2>2. CASE p = "bwait"
    <3>1. (Some(BenHeld)' <=> Some(BenHeld)) /\ One(BenHeld)'
      BY <1>0, <1>1, <1>2, <2>2, SomeStep DEF BenHeld, BenaphoreKept
    <3> QED BY <1>0, <1>1, <1>2, <1>7, <2>2, <3>1 DEF BenaphoreKept
  <2> QED BY <1>2, <2>1, <2>2
<1> QED BY <1>4, <1>5, <1>6, <1>8 DEF RwInductive, BenaphoreQueue

(* RELEASE_BENAPHORE, its count: the thread still has to release the       *)
(* semaphore when others are counted.                                      *)
LEMMA BenaphoreAddStep ==
    ASSUME RwInductive, NEW t \in Threads, BenaphoreAdd(t)
    PROVE  RwInductive'
<1>0. /\ wpc[t] = "wben" /\ bcount' = bcount + 1
      /\ UNCHANGED <<wcount, semVars, bunits, bqueue, arg>>
  BY DEF BenaphoreAdd
<1>1. RwTypeOK /\ BenaphoreKept /\ BenaphoreQueue /\ ReadersCounted /\ LockPart
  BY DEF RwInductive
<1>2. PICK p \in {"brel", "writing"} : /\ wpc' = [wpc EXCEPT ![t] = p]
                                       /\ p = "brel" <=> bcount < 0
  BY <1>1 DEF BenaphoreAdd, Goto, RwTypeOK
<1>3. wpc'[t] = p /\ \A u \in Threads : u # t => wpc'[u] = wpc[u]
  BY <1>1, <1>2 DEF RwTypeOK
<1>4. ReadersCounted' /\ LockPart'
  BY <1>0, <1>1, <1>2, <1>3, LockSame DEF Reading, ReadWaits, WriteIn, WriteWaits
<1>5. RwTypeOK'
  BY <1>0, <1>1, <1>2 DEF RwTypeOK, Waiting, semVars
<1>6. BenaphoreQueue'
  BY <1>0, <1>1, <1>3 DEF BenaphoreQueue
<1>7. /\ Num(BenCounted) \in Nat /\ Num(BenCounted)' \in Nat
      /\ Num(BenCounted)' = 0 <=> ~Some(BenCounted)'
      /\ Num(BenCounted)' = Num(BenCounted) - 1
  <2>1. Bit(wpc[t] \in BenCounted) = 1 /\ Bit(p \in BenCounted) = 0
    BY <1>0, <1>2 DEF Bit, BenCounted
  <2>2. /\ Num(BenCounted)' \in Nat
        /\ Num(BenCounted)' = Num(BenCounted) - Bit(wpc[t] \in BenCounted) + Bit(p \in BenCounted)
        /\ Num(BenCounted)' = 0 <=> ~Some(BenCounted)'
    BY <1>1, <1>2, NumStep
  <2>3. Num(BenCounted) \in Nat
    BY NumFacts
  <2> QED BY <2>1, <2>2, <2>3
<1>8. bcount = 1 - Num(BenCounted) /\ bcount' = 1 - Num(BenCounted)'
  <2>1. bcount = 1 - Num(BenCounted)
    BY <1>1 DEF BenaphoreKept
  <2> QED BY <1>0, <1>7, <2>1
<1>9. Some(BenCounted)' <=> p = "brel"
  BY <1>2, <1>7, <1>8
<1>10. bunits = 0
  BY <1>0, <1>1 DEF BenaphoreKept, Some, BenHeld
<1>11. BenaphoreKept'
  <2>1. CASE p = "brel"
    <3>1. Some(BenHeld)' /\ One(BenHeld)'
      BY <1>0, <1>1, <1>2, <2>1, SomeStep DEF BenHeld, BenaphoreKept
    <3> QED BY <1>0, <1>8, <1>9, <1>10, <2>1, <3>1 DEF BenaphoreKept
  <2>2. CASE p = "writing"
    <3>1. ~Some(BenHeld)' /\ One(BenHeld)'
      BY <1>0, <1>1, <1>2, <2>2, SomeStep DEF BenHeld, BenaphoreKept
    <3> QED BY <1>0, <1>8, <1>9, <1>10, <2>2, <3>1 DEF BenaphoreKept
  <2> QED BY <1>2, <2>1, <2>2
<1> QED BY <1>4, <1>5, <1>6, <1>11 DEF RwInductive

(* RELEASE_BENAPHORE, its semaphore: the first waiter has the benaphore    *)
(* now, or its semaphore has the unit.                                     *)
LEMMA BenaphoreReleaseStep ==
    ASSUME RwInductive, NEW t \in Threads, BenaphoreRelease(t)
    PROVE  RwInductive'
<1>0. wpc[t] = "brel" /\ UNCHANGED <<wcount, semVars, bcount, arg>>
  BY DEF BenaphoreRelease
<1>1. RwTypeOK /\ BenaphoreKept /\ BenaphoreQueue /\ ReadersCounted /\ LockPart
  BY DEF RwInductive
<1>2. bqueue \in Seq(Threads) /\ Distinct(bqueue) /\ bunits = 0 /\ Some(BenCounted)
  BY <1>0, <1>1 DEF RwTypeOK, BenaphoreQueue, BenaphoreKept, Some, BenHeld
<1>3. \A u \in Threads : wpc[u] \in BenHeld => u = t
  BY <1>0, <1>1 DEF BenaphoreKept, One, BenHeld
<1>4. CASE bqueue # <<>>
  <2>1. PICK h, q : h = Head(bqueue) /\ q = Tail(bqueue)
    OBVIOUS
  <2>2. /\ q \in Seq(Threads) /\ h \in Threads /\ Contains(bqueue, h) /\ Distinct(q)
        /\ \A u : Contains(q, u) <=> Contains(bqueue, u) /\ u # h
    BY <1>2, <1>4, <2>1, TailDistinct
  <2>3. wpc[h] = "bwait" /\ h # t
    BY <1>0, <1>1, <2>2 DEF BenaphoreQueue
  <2>4. /\ bqueue' = q /\ bunits' = 0
        /\ wpc' = [wpc EXCEPT ![t] = "writing", ![h] = "wsub"]
    BY <1>2, <1>4, <2>1 DEF BenaphoreRelease
  <2>5. /\ wpc'[t] = "writing" /\ wpc'[h] = "wsub"
        /\ \A u \in Threads : u # t /\ u # h => wpc'[u] = wpc[u]
    BY <1>1, <2>2, <2>3, <2>4 DEF RwTypeOK
  <2>6. RwTypeOK'
    BY <1>0, <1>1, <2>2, <2>4 DEF RwTypeOK, Waiting, semVars
  <2>7. ReadersCounted' /\ LockPart'
    BY <1>0, <1>1, <2>3, <2>5, LockSame DEF Reading, ReadWaits, WriteIn, WriteWaits
  <2>8. BenaphoreQueue'
    BY <1>0, <1>1, <2>2, <2>4, <2>5 DEF BenaphoreQueue
  <2>9. Num(BenCounted)' = Num(BenCounted) /\ Some(BenCounted)'
    <3>1. At(BenCounted)' = At(BenCounted)
      BY <1>0, <2>3, <2>5 DEF At, BenCounted
    <3> QED BY <2>2, <2>5, <3>1 DEF Num, Some, BenCounted
  <2>10. Some(BenHeld)' /\ One(BenHeld)'
    BY <1>3, <2>2, <2>3, <2>5 DEF Some, One, BenHeld
  <2>11. BenaphoreKept'
    BY <1>0, <1>1, <2>4, <2>9, <2>10 DEF BenaphoreKept
  <2> QED BY <2>6, <2>7, <2>8, <2>11 DEF RwInductive
<1>5. CASE bqueue = <<>>
  <2>1. bqueue' = bqueue /\ bunits' = 1 /\ wpc' = [wpc EXCEPT ![t] = "writing"]
    BY <1>2, <1>5 DEF BenaphoreRelease, Goto
  <2>2. wpc'[t] = "writing" /\ \A u \in Threads : u # t => wpc'[u] = wpc[u]
    BY <1>1, <2>1 DEF RwTypeOK
  <2>3. RwTypeOK'
    BY <1>0, <1>1, <2>1 DEF RwTypeOK, Waiting, semVars
  <2>4. ReadersCounted' /\ LockPart'
    BY <1>0, <1>1, <2>2, LockSame DEF Reading, ReadWaits, WriteIn, WriteWaits
  <2>5. BenaphoreQueue'
    BY <1>0, <1>1, <2>1, <2>2 DEF BenaphoreQueue
  <2>6. Num(BenCounted)' = Num(BenCounted) /\ Some(BenCounted)'
    <3>1. At(BenCounted)' = At(BenCounted)
      BY <1>0, <2>2 DEF At, BenCounted
    <3>2. Some(BenCounted)' <=> Some(BenCounted)
      BY <1>0, <2>2 DEF Some, BenCounted
    <3> QED BY <1>2, <3>1, <3>2 DEF Num
  <2>7. ~Some(BenHeld)' /\ One(BenHeld)'
    BY <1>3, <2>2 DEF Some, One, BenHeld
  <2>8. BenaphoreKept'
    BY <1>0, <1>1, <2>1, <2>6, <2>7 DEF BenaphoreKept
  <2> QED BY <2>3, <2>4, <2>5, <2>8 DEF RwInductive
<1> QED BY <1>4, <1>5

-----------------------------------------------------------------------------
(* The count and its semaphore: the queue.                                 *)

(* Who waits in the queue stays there as it was.                           *)
LEMMA QueueSame ==
    ASSUME RwTypeOK, RwQueueKept, wqueue' = wqueue,
           \A u \in Threads : wpc[u] \in {"rwait", "wwait"} => wpc'[u] = wpc[u]
    PROVE  RwQueueKept'
<1>1. \A i \in 1 .. Len(wqueue) : wqueue[i].thread \in Threads
  BY QueueType
<1> QED BY <1>1 DEF RwQueueKept

(* A writer that waits keeps what it lacks.                                *)
LEMMA LacksSame ==
    ASSUME RwTypeOK, WriterBacked, wqueue' = wqueue, WriterLacks' = WriterLacks,
           \A u \in Threads : /\ wpc'[u] = "wacq" => wpc[u] = "wacq" /\ arg'[u] = arg[u]
                              /\ wpc'[u] = "wwait" => wpc[u] = "wwait"
    PROVE  WriterBacked'
<1>1. \A i \in 1 .. Len(wqueue) : wqueue[i].thread \in Threads
  BY QueueType
<1> QED BY <1>1 DEF WriterBacked

(* No writer waits.                                                        *)
LEMMA LacksNone ==
    ASSUME RwTypeOK', ~Some(WriteWaits)'
    PROVE  WriterBacked'
<1> DEFINE Waiter == [thread : Threads, need : Nat \ {0}]
<1>1. wqueue' \in Seq(Waiter)
  BY DEF RwTypeOK
<1>2. \A w \in Waiter : w.thread \in Threads
  OBVIOUS
<1> HIDE DEF Waiter
<1>3. \A i \in 1 .. Len(wqueue') : wqueue'[i].thread \in Threads
  BY <1>1, <1>2, ElementOfSeq
<1>4. \A u \in Threads : wpc'[u] # "wacq" /\ wpc'[u] # "wwait"
  BY DEF Some, WriteWaits
<1> QED BY <1>3, <1>4 DEF WriterBacked

(* A thread waits at the end of the queue.                                 *)
LEMMA QueueAppend ==
    ASSUME RwTypeOK, RwQueueKept, NEW t \in Threads, NEW n \in Nat \ {0},
           wpc[t] \notin {"rwait", "wwait"},
           wqueue' = Append(wqueue, [thread |-> t, need |-> n]),
           \A u \in Threads : u # t => wpc'[u] = wpc[u],
           (wpc'[t] = "rwait" /\ n = 1) \/ wpc'[t] = "wwait"
    PROVE  /\ wqueue' \in Seq([thread : Threads, need : Nat \ {0}])
           /\ Len(wqueue') = Len(wqueue) + 1
           /\ \A i \in 1 .. Len(wqueue) : wqueue'[i] = wqueue[i]
           /\ wqueue'[Len(wqueue) + 1] = [thread |-> t, need |-> n]
           /\ RwQueueKept'
<1> DEFINE Waiter == [thread : Threads, need : Nat \ {0}]
<1>0. PICK w \in Waiter : w = [thread |-> t, need |-> n] /\ w.thread = t /\ w.need = n
  OBVIOUS
<1>1. PICK q : q = wqueue'
  OBVIOUS
<1>2. wqueue \in Seq(Waiter)
  BY DEF RwTypeOK
<1>3. q = Append(wqueue, w)
  BY <1>0, <1>1
<1>4. \A i \in 1 .. Len(wqueue) : wqueue[i].thread \in Threads
  BY QueueType
<1> HIDE DEF Waiter
<1>5. /\ q \in Seq(Waiter) /\ Len(q) = Len(wqueue) + 1 /\ Len(wqueue) \in Nat
      /\ \A i \in 1 .. Len(wqueue) : q[i] = wqueue[i]
      /\ q[Len(wqueue) + 1] = w
  BY <1>2, <1>3, AppendProperties
<1>6. \A i \in 1 .. Len(wqueue) : q[i].thread # t /\ wpc'[q[i].thread] = wpc[q[i].thread]
  BY <1>4, <1>5 DEF RwQueueKept
<1>7. \A i \in 1 .. Len(q) : i \in 1 .. Len(wqueue) \/ i = Len(wqueue) + 1
  BY <1>5
<1>8. \A i, j \in 1 .. Len(q) : q[i].thread = q[j].thread => i = j
  BY <1>0, <1>5, <1>6, <1>7 DEF RwQueueKept
<1>9. \A i \in 1 .. Len(q) : \/ wpc'[q[i].thread] = "rwait" /\ q[i].need = 1
                             \/ wpc'[q[i].thread] = "wwait"
  BY <1>0, <1>5, <1>6, <1>7 DEF RwQueueKept
<1>10. RwQueueKept'
  BY <1>1, <1>8, <1>9 DEF RwQueueKept
<1> QED BY <1>0, <1>1, <1>5, <1>10 DEF Waiter

(* What the counts say about who holds the lock.                           *)
LEMMA CountFacts ==
    ASSUME RwTypeOK, ReadersCounted
    PROVE  /\ wcount \in Int /\ Num(Reading) \in Nat /\ Num(ReadWaits) \in Nat
           /\ MaxReaders \in Nat /\ Num(Reading) + Num(ReadWaits) < MaxReaders
           /\ wcount = MaxReaders - Num(Reading) - Num(ReadWaits)
                       - Taken(WriteIn) - Taken(WriteWaits)
           /\ Taken(WriteIn) = IF Some(WriteIn) THEN MaxReaders ELSE 0
           /\ Taken(WriteWaits) = IF Some(WriteWaits) THEN MaxReaders ELSE 0
           /\ Taken(WriteIn) \in {0, MaxReaders} /\ Taken(WriteWaits) \in {0, MaxReaders}
BY NumFacts, FewReaders, RwLockAssumption DEF RwTypeOK, ReadersCounted, Taken

(* ACQUIRE_READ_LOCK: the count is positive exactly when no writer is      *)
(* there.                                                                  *)
LEMMA ReadLockStep ==
    ASSUME RwInductive, NEW t \in Threads, ACQUIRE_READ_LOCK(t)
    PROVE  RwInductive'
<1>0. wpc[t] = "out" /\ wcount' = wcount - 1 /\ UNCHANGED <<semVars, benVars, arg>>
  BY DEF ACQUIRE_READ_LOCK
<1>1. RwTypeOK /\ BenPart /\ ReadersCounted /\ LockPart
  BY DEF RwInductive, BenPart
<1>2. PICK p \in {"racq", "reading"} : /\ wpc' = [wpc EXCEPT ![t] = p]
                                       /\ p = "racq" <=> wcount <= 0
  BY <1>1 DEF ACQUIRE_READ_LOCK, Goto, RwTypeOK
<1>3. wpc'[t] = p /\ \A u \in Threads : u # t => wpc'[u] = wpc[u]
  BY <1>1, <1>2 DEF RwTypeOK
<1>4. RwTypeOK'
  BY <1>0, <1>1, <1>2 DEF RwTypeOK, Waiting, semVars, benVars
<1>5. BenPart'
  BY <1>0, <1>1, <1>2, <1>3, BenSame DEF BenCounted, BenHeld
<1>6. /\ Some(WriteIn)' <=> Some(WriteIn)
      /\ Some(WriteWaits)' <=> Some(WriteWaits)
      /\ Some({"rel"})' <=> Some({"rel"})
      /\ One(WriteIn)'
  <2>1. /\ p \notin WriteIn /\ p \notin WriteWaits /\ p \notin {"rel"}
        /\ wpc[t] \notin WriteIn /\ wpc[t] \notin WriteWaits /\ wpc[t] \notin {"rel"}
    BY <1>0, <1>2 DEF WriteIn, WriteWaits
  <2> QED BY <1>1, <1>2, <2>1, SomeStep DEF LockPart, WriterAlone
<1>7. /\ Num(Reading)' \in Nat /\ Num(ReadWaits)' \in Nat
      /\ Num(Reading)' = Num(Reading) + Bit(p = "reading")
      /\ Num(ReadWaits)' = Num(ReadWaits) + Bit(p = "racq")
  <2>1. /\ Bit(wpc[t] \in Reading) = 0 /\ Bit(p \in Reading) = Bit(p = "reading")
        /\ Bit(wpc[t] \in ReadWaits) = 0 /\ Bit(p \in ReadWaits) = Bit(p = "racq")
        /\ Bit(p = "reading") \in Nat /\ Bit(p = "racq") \in Nat
    BY <1>0, <1>2 DEF Bit, Reading, ReadWaits
  <2>2. /\ Num(Reading)' = Num(Reading) - Bit(wpc[t] \in Reading) + Bit(p \in Reading)
        /\ Num(ReadWaits)' = Num(ReadWaits) - Bit(wpc[t] \in ReadWaits) + Bit(p \in ReadWaits)
        /\ Num(Reading)' \in Nat /\ Num(ReadWaits)' \in Nat
    BY <1>1, <1>2, NumStep
  <2> QED BY <2>1, <2>2, NumFacts
<1>8. /\ p = "reading" => Bit(p = "reading") = 1 /\ Bit(p = "racq") = 0
      /\ p = "racq" => Bit(p = "reading") = 0 /\ Bit(p = "racq") = 1
  BY DEF Bit
<1>9. Taken(WriteIn)' = Taken(WriteIn) /\ Taken(WriteWaits)' = Taken(WriteWaits)
  BY <1>6 DEF Taken
<1>10. ReadersCounted'
  <2>1. wcount' = MaxReaders - Num(Reading)' - Num(ReadWaits)' - Taken(WriteIn) - Taken(WriteWaits)
    BY <1>0, <1>1, <1>2, <1>7, <1>8, CountFacts
  <2> QED BY <1>9, <2>1 DEF ReadersCounted
<1>11. p = "reading" <=> ~Some(WriteIn) /\ ~Some(WriteWaits)
  BY <1>1, <1>2, CountFacts
<1>12. wunits' = wunits /\ wqueue' = wqueue /\ arg' = arg
  BY <1>0 DEF semVars
<1>13. OwedKept' /\ Owed' = Owed
  BY <1>0, <1>1, <1>2, <1>3, <1>12, OwedSame DEF LockPart
<1>14. Supply' = Supply
  BY <1>12, <1>13 DEF Supply
<1>15. RwQueueKept'
  BY <1>0, <1>1, <1>3, <1>12, QueueSame DEF LockPart
<1>16. CASE p = "racq"
  <2>1. Some(Reading)' <=> Some(Reading)
    BY <1>0, <1>1, <1>2, <1>16, SomeStep DEF Reading
  <2>2. WriterAlone'
    BY <1>1, <1>6, <1>12, <2>1 DEF LockPart, WriterAlone
  <2>3. ReadersBacked'
    BY <1>6, <1>11, <1>16 DEF ReadersBacked
  <2>4. WriterLacks' = WriterLacks
    BY <1>6, <1>7, <1>8, <1>14, <1>16, NumFacts DEF WriterLacks
  <2>5. WriterBacked'
    BY <1>1, <1>3, <1>12, <1>16, <2>4, LacksSame DEF LockPart
  <2> QED BY <1>4, <1>5, <1>10, <1>13, <1>15, <2>2, <2>3, <2>5 DEF RwInductive, LockPart, BenPart
<1>17. CASE p = "reading"
  <2>1. WriterAlone'
    BY <1>6, <1>11, <1>17 DEF WriterAlone
  <2>2. ReadersBacked'
    BY <1>1, <1>6, <1>7, <1>8, <1>14, <1>17, NumFacts DEF LockPart, ReadersBacked
  <2>3. WriterBacked'
    BY <1>4, <1>6, <1>11, <1>17, LacksNone
  <2> QED BY <1>4, <1>5, <1>10, <1>13, <1>15, <2>1, <2>2, <2>3 DEF RwInductive, LockPart, BenPart
<1> QED BY <1>2, <1>16, <1>17

(* acquire_sem_etc of a reader: with a unit it is in, without one it waits *)
(* behind the others.                                                      *)
LEMMA ReadAcquireStep ==
    ASSUME RwInductive, NEW t \in Threads, ReadAcquire(t)
    PROVE  RwInductive'
<1>0. wpc[t] = "racq" /\ UNCHANGED <<wcount, benVars, arg>>
  BY DEF ReadAcquire
<1>1. RwTypeOK /\ BenPart /\ ReadersCounted /\ LockPart
  BY DEF RwInductive, BenPart
<1>2. PICK p \in {"reading", "rwait"} :
         /\ wpc' = [wpc EXCEPT ![t] = p]
         /\ p = "reading" => wunits >= 1 /\ wunits' = wunits - 1 /\ wqueue' = wqueue
         /\ p = "rwait" => /\ wunits = 0 /\ wunits' = 0
                           /\ wqueue' = Append(wqueue, [thread |-> t, need |-> 1])
  <2>1. wunits \in Nat /\ (wunits < 1 => wunits = 0 /\ 1 - wunits = 1)
    BY <1>1 DEF RwTypeOK
  <2>2. \/ /\ wunits >= 1 /\ wunits' = wunits - 1 /\ wqueue' = wqueue
           /\ wpc' = [wpc EXCEPT ![t] = "reading"]
        \/ /\ wunits < 1 /\ wunits' = 0
           /\ wqueue' = Append(wqueue, [thread |-> t, need |-> 1 - wunits])
           /\ wpc' = [wpc EXCEPT ![t] = "rwait"]
    BY DEF ReadAcquire, Acquire, Goto
  <2>3. CASE wunits >= 1
    BY <2>1, <2>2, <2>3
  <2>4. CASE wunits < 1
    BY <2>1, <2>2, <2>4
  <2> QED BY <2>1, <2>3, <2>4
<1>3. wpc'[t] = p /\ \A u \in Threads : u # t => wpc'[u] = wpc[u]
  BY <1>1, <1>2 DEF RwTypeOK
<1>5. BenPart'
  BY <1>0, <1>1, <1>2, <1>3, BenSame DEF BenCounted, BenHeld
<1>6. /\ Some(WriteIn)' <=> Some(WriteIn)
      /\ Some(WriteWaits)' <=> Some(WriteWaits)
      /\ Some({"rel"})' <=> Some({"rel"})
      /\ One(WriteIn)'
  <2>1. /\ p \notin WriteIn /\ p \notin WriteWaits /\ p \notin {"rel"}
        /\ wpc[t] \notin WriteIn /\ wpc[t] \notin WriteWaits /\ wpc[t] \notin {"rel"}
    BY <1>0, <1>2 DEF WriteIn, WriteWaits
  <2> QED BY <1>1, <1>2, <2>1, SomeStep DEF LockPart, WriterAlone
<1>7. /\ Num(Reading)' \in Nat /\ Num(ReadWaits)' \in Nat
      /\ Num(Reading)' = Num(Reading) + Bit(p = "reading")
      /\ Num(ReadWaits)' = Num(ReadWaits) - Bit(p = "reading")
  <2>1. /\ Bit(wpc[t] \in Reading) = 0 /\ Bit(p \in Reading) = Bit(p = "reading")
        /\ Bit(wpc[t] \in ReadWaits) = 1 /\ Bit(p \in ReadWaits) = 1 - Bit(p = "reading")
        /\ Bit(p = "reading") \in Nat
    BY <1>0, <1>2 DEF Bit, Reading, ReadWaits
  <2>2. /\ Num(Reading)' = Num(Reading) - Bit(wpc[t] \in Reading) + Bit(p \in Reading)
        /\ Num(ReadWaits)' = Num(ReadWaits) - Bit(wpc[t] \in ReadWaits) + Bit(p \in ReadWaits)
        /\ Num(Reading)' \in Nat /\ Num(ReadWaits)' \in Nat
    BY <1>1, <1>2, NumStep
  <2> QED BY <2>1, <2>2, NumFacts
<1>8. /\ p = "reading" => Bit(p = "reading") = 1
      /\ p = "rwait" => Bit(p = "reading") = 0
  BY DEF Bit
<1>9. Taken(WriteIn)' = Taken(WriteIn) /\ Taken(WriteWaits)' = Taken(WriteWaits)
  BY <1>6 DEF Taken
<1>10. ReadersCounted'
  <2>1. PICK b \in Nat : b = Bit(p = "reading")
    BY DEF Bit
  <2>2. PICK r, m, r1, m1 \in Nat :
           /\ r = Num(Reading) /\ m = Num(ReadWaits)
           /\ r1 = Num(Reading)' /\ m1 = Num(ReadWaits)'
    BY <1>7, NumFacts
  <2>3. r1 = r + b /\ m1 = m - b
    BY <1>7, <2>1, <2>2
  <2>4. PICK i, j \in Int : i = Taken(WriteIn) /\ j = Taken(WriteWaits)
    BY RwLockAssumption DEF Taken
  <2>5. wcount' = wcount /\ wcount = MaxReaders - r - m - i - j
    BY <1>0, <1>1, <2>2, <2>4 DEF ReadersCounted
  <2>6. MaxReaders - r1 - m1 - i - j = MaxReaders - r - m - i - j
    BY <2>3, RwLockAssumption
  <2> QED BY <1>9, <2>2, <2>4, <2>5, <2>6 DEF ReadersCounted
<1>11. OwedKept' /\ Owed' = Owed
  BY <1>0, <1>1, <1>2, <1>3, OwedSame DEF LockPart
<1>12. Cardinality(Owed) \in Nat /\ wunits \in Nat
  BY <1>1, OwedFacts DEF LockPart, RwTypeOK
<1>13. CASE p = "reading"
  <2>1. RwTypeOK'
    BY <1>0, <1>1, <1>2, <1>13 DEF RwTypeOK, Waiting, benVars
  <2>2. ~Some(WriteIn)
    BY <1>1, <1>2, <1>12, <1>13 DEF LockPart, WriterAlone
  <2>3. Supply' = Supply - 1 /\ Supply \in Nat
    BY <1>2, <1>11, <1>12, <1>13 DEF Supply
  <2>4. RwQueueKept'
    BY <1>0, <1>1, <1>2, <1>3, <1>13, QueueSame DEF LockPart
  <2>5. WriterAlone'
    BY <1>6, <2>2 DEF WriterAlone
  <2>6. ReadersBacked'
    BY <1>1, <1>6, <1>7, <1>8, <1>13, <2>3, NumFacts DEF LockPart, ReadersBacked
  <2>7. WriterLacks' = WriterLacks
    BY <1>6, <1>7, <1>8, <1>13, <2>2, <2>3, NumFacts DEF WriterLacks
  <2>8. WriterBacked'
    BY <1>0, <1>1, <1>2, <1>3, <1>13, <2>7, LacksSame DEF LockPart
  <2> QED BY <1>5, <1>10, <1>11, <2>1, <2>4, <2>5, <2>6, <2>8 DEF RwInductive, LockPart, BenPart
<1>14. CASE p = "rwait"
  <2>1. /\ wqueue' \in Seq([thread : Threads, need : Nat \ {0}])
        /\ Len(wqueue') = Len(wqueue) + 1
        /\ \A i \in 1 .. Len(wqueue) : wqueue'[i] = wqueue[i]
        /\ wqueue'[Len(wqueue) + 1] = [thread |-> t, need |-> 1]
        /\ RwQueueKept'
    <3>1. 1 \in Nat \ {0} /\ wpc[t] \notin {"rwait", "wwait"} /\ wpc'[t] = "rwait"
      BY <1>0, <1>3, <1>14
    <3>2. wqueue' = Append(wqueue, [thread |-> t, need |-> 1])
      BY <1>2, <1>14
    <3>3. RwTypeOK /\ RwQueueKept
      BY <1>1 DEF LockPart
    <3> QED BY <1>3, <3>1, <3>2, <3>3, QueueAppend
  <2>2. RwTypeOK'
    BY <1>0, <1>1, <1>2, <1>14, <2>1 DEF RwTypeOK, Waiting, benVars
  <2>3. Supply' = Supply
    BY <1>2, <1>11, <1>14 DEF Supply
  <2>4. Some(Reading)' <=> Some(Reading)
    BY <1>0, <1>1, <1>2, <1>14, SomeStep DEF Reading
  <2>5. WriterAlone'
    BY <1>1, <1>2, <1>6, <1>14, <2>4 DEF LockPart, WriterAlone
  <2>6. Num(Reading)' = Num(Reading) /\ Num(ReadWaits)' = Num(ReadWaits)
    BY <1>7, <1>8, <1>14, NumFacts
  <2>7. ReadersBacked' /\ WriterLacks' = WriterLacks
    BY <1>1, <1>6, <2>3, <2>6 DEF LockPart, ReadersBacked, WriterLacks
  <2>8. WriterBacked'
    <3>1. \A u \in Threads : wpc'[u] \in {"wacq", "wwait"} => wpc'[u] = wpc[u]
      BY <1>3, <1>14
    <3>2. \A i \in 1 .. Len(wqueue) : wqueue[i].thread \in Threads
      BY <1>1, QueueType
    <3>3. wqueue'[Len(wqueue) + 1].thread = t
      BY <2>1
    <3>4. \A i \in 1 .. Len(wqueue') : i \in 1 .. Len(wqueue) \/ i = Len(wqueue) + 1
      BY <1>1, <2>1, QueueType
    <3>5. ASSUME NEW i \in 1 .. Len(wqueue'), wpc'[wqueue'[i].thread] = "wwait"
          PROVE  wqueue'[i].need = WriterLacks
      <4>1. i \in 1 .. Len(wqueue)
        BY <1>3, <1>14, <3>3, <3>4, <3>5
      <4> QED BY <1>1, <2>1, <3>1, <3>2, <3>5, <4>1 DEF LockPart, WriterBacked
    <3> QED BY <1>0, <1>1, <2>7, <3>1, <3>5 DEF LockPart, WriterBacked
  <2> QED BY <1>5, <1>10, <1>11, <2>1, <2>2, <2>5, <2>7, <2>8 DEF RwInductive, LockPart, BenPart
<1> QED BY <1>2, <1>13, <1>14

(* RELEASE_READ_LOCK: the count is negative exactly when a writer waits,   *)
(* and then the reader owes it a unit.                                     *)
LEMMA ReadUnlockStep ==
    ASSUME RwInductive, NEW t \in Threads, RELEASE_READ_LOCK(t)
    PROVE  RwInductive'
<1>0. /\ wpc[t] = "reading" /\ wcount' = wcount + 1 /\ arg' = [arg EXCEPT ![t] = 1]
      /\ UNCHANGED <<semVars, benVars>>
  BY DEF RELEASE_READ_LOCK
<1>1. RwTypeOK /\ BenPart /\ ReadersCounted /\ LockPart
  BY DEF RwInductive, BenPart
<1>2. PICK p \in {"rel", "out"} : /\ wpc' = [wpc EXCEPT ![t] = p]
                                  /\ p = "rel" <=> wcount < 0
  BY <1>1 DEF RELEASE_READ_LOCK, Goto, ReadWanted, RwTypeOK
<1>3. /\ wpc'[t] = p /\ arg'[t] = 1
      /\ \A u \in Threads : u # t => wpc'[u] = wpc[u] /\ arg'[u] = arg[u]
  BY <1>0, <1>1, <1>2 DEF RwTypeOK
<1>4. RwTypeOK'
  <2>1. arg' \in [Threads -> Nat]
    BY <1>0, <1>1 DEF RwTypeOK
  <2> QED BY <1>0, <1>1, <1>2, <2>1 DEF RwTypeOK, Waiting, semVars, benVars
<1>5. BenPart'
  BY <1>0, <1>1, <1>2, <1>3, BenSame DEF BenCounted, BenHeld
<1>6. Some(Reading) /\ ~Some(WriteIn)
  BY <1>0, <1>1 DEF LockPart, WriterAlone, Some, Reading
<1>7. ~Some(WriteIn)' /\ (Some(WriteWaits)' <=> Some(WriteWaits)) /\ One(WriteIn)'
  <2>1. /\ p \notin WriteIn /\ p \notin WriteWaits
        /\ wpc[t] \notin WriteIn /\ wpc[t] \notin WriteWaits
    BY <1>0, <1>2 DEF WriteIn, WriteWaits
  <2> QED BY <1>1, <1>2, <1>6, <2>1, SomeStep DEF LockPart, WriterAlone
<1>8. /\ Num(Reading)' \in Nat /\ Num(ReadWaits)' \in Nat
      /\ Num(Reading)' = Num(Reading) - 1 /\ Num(ReadWaits)' = Num(ReadWaits)
  <2>1. /\ Bit(wpc[t] \in Reading) = 1 /\ Bit(p \in Reading) = 0
        /\ Bit(wpc[t] \in ReadWaits) = 0 /\ Bit(p \in ReadWaits) = 0
    BY <1>0, <1>2 DEF Bit, Reading, ReadWaits
  <2>2. /\ Num(Reading)' = Num(Reading) - Bit(wpc[t] \in Reading) + Bit(p \in Reading)
        /\ Num(ReadWaits)' = Num(ReadWaits) - Bit(wpc[t] \in ReadWaits) + Bit(p \in ReadWaits)
        /\ Num(Reading)' \in Nat /\ Num(ReadWaits)' \in Nat
    BY <1>1, <1>2, NumStep
  <2> QED BY <2>1, <2>2, NumFacts
<1>9. Taken(WriteIn)' = Taken(WriteIn) /\ Taken(WriteWaits)' = Taken(WriteWaits)
  BY <1>6, <1>7 DEF Taken
<1>10. ReadersCounted'
  <2>1. wcount' = MaxReaders - Num(Reading)' - Num(ReadWaits)' - Taken(WriteIn) - Taken(WriteWaits)
    BY <1>0, <1>1, <1>8, CountFacts
  <2> QED BY <1>9, <2>1 DEF ReadersCounted
<1>11. p = "rel" <=> Some(WriteWaits)
  BY <1>1, <1>2, <1>6, <1>8, CountFacts
<1>12. /\ OwedKept' /\ Cardinality(Owed) \in Nat
       /\ Cardinality(Owed)' = Cardinality(Owed) + (IF p = "rel" THEN 1 ELSE 0)
  <2>1. Gives(t) = 0 /\ Gives(t)' = (IF p = "rel" THEN 1 ELSE 0)
    BY <1>0, <1>3 DEF Gives
  <2>2. Gives(t)' \in Nat /\ arg'[t] > 0
    BY <1>3, <2>1
  <2>3. Cardinality(Owed) \in Nat
    BY <1>1, OwedFacts DEF LockPart
  <2>4. /\ OwedKept'
        /\ Cardinality(Owed)' = Cardinality(Owed) - Gives(t) + Gives(t)'
    BY <1>1, <1>3, <2>2, OwedStep DEF LockPart
  <2> QED BY <2>1, <2>3, <2>4
<1>13. wunits' = wunits /\ wqueue' = wqueue /\ wunits \in Nat
  BY <1>0, <1>1 DEF semVars, RwTypeOK
<1>14. Supply \in Nat /\ Supply' = Supply + (IF p = "rel" THEN 1 ELSE 0)
  BY <1>12, <1>13 DEF Supply
<1>15. RwQueueKept' /\ WriterAlone'
  <2>1. RwQueueKept'
    BY <1>0, <1>1, <1>3, <1>13, QueueSame DEF LockPart
  <2> QED BY <1>7, <2>1 DEF WriterAlone
<1>16. CASE p = "rel"
  <2>1. ReadersBacked'
    BY <1>7, <1>11, <1>16 DEF ReadersBacked
  <2>2. WriterLacks' = WriterLacks
    BY <1>6, <1>7, <1>8, <1>14, <1>16, NumFacts DEF WriterLacks
  <2>3. WriterBacked'
    BY <1>1, <1>3, <1>13, <1>16, <2>2, LacksSame DEF LockPart
  <2> QED BY <1>4, <1>5, <1>10, <1>12, <1>15, <2>1, <2>3 DEF RwInductive, LockPart, BenPart
<1>17. CASE p = "out"
  <2>1. ReadersBacked'
    BY <1>1, <1>6, <1>7, <1>8, <1>11, <1>14, <1>17 DEF LockPart, ReadersBacked
  <2>2. WriterBacked'
    BY <1>4, <1>7, <1>11, <1>17, LacksNone
  <2> QED BY <1>4, <1>5, <1>10, <1>12, <1>15, <2>1, <2>2 DEF RwInductive, LockPart, BenPart
<1> QED BY <1>2, <1>16, <1>17

(* Who has the benaphore is the only writer that waits for the lock.       *)
LEMMA OneWriterWaits ==
    ASSUME BenPart, NEW t \in Threads, wpc[t] \in BenHeld
    PROVE  \A u \in Threads : wpc[u] \in WriteWaits => u = t
BY DEF BenPart, BenaphoreKept, One, BenHeld, WriteWaits

(* A writer takes MAX_READERS from the count: it has the lock when nobody  *)
(* was there, and otherwise knows how many units to wait for.              *)
LEMMA WriteSubtractStep ==
    ASSUME RwInductive, NEW t \in Threads, WriteSubtract(t)
    PROVE  RwInductive'
<1>0. /\ wpc[t] = "wsub" /\ wcount' = wcount - MaxReaders
      /\ arg' = [arg EXCEPT ![t] = WriterNeeds(wcount)]
      /\ UNCHANGED <<semVars, benVars>>
  BY DEF WriteSubtract
<1>1. RwTypeOK /\ BenPart /\ ReadersCounted /\ LockPart
  BY DEF RwInductive, BenPart
<1>2. PICK p \in {"wacq", "wben"} : /\ wpc' = [wpc EXCEPT ![t] = p]
                                    /\ p = "wacq" <=> wcount < MaxReaders
  BY <1>1, CountFacts DEF WriteSubtract, Goto
<1>3. \A u \in Threads : wpc[u] \notin WriteWaits
  BY <1>0, <1>1, OneWriterWaits DEF BenHeld, WriteWaits
<1>4. ~Some(WriteWaits) /\ Taken(WriteWaits) = 0
  BY <1>3 DEF Some, Taken
<1>5. WriterNeeds(wcount) \in Nat
  BY <1>1, <1>4, CountFacts DEF WriterNeeds
<1>6. /\ wpc'[t] = p /\ arg'[t] = WriterNeeds(wcount)
      /\ \A u \in Threads : u # t => wpc'[u] = wpc[u] /\ arg'[u] = arg[u]
  BY <1>0, <1>1, <1>2 DEF RwTypeOK
<1>7. RwTypeOK'
  <2>1. arg' \in [Threads -> Nat]
    BY <1>0, <1>1, <1>5 DEF RwTypeOK
  <2>2. wcount' \in Int
    BY <1>0, <1>1, CountFacts
  <2> QED BY <1>0, <1>1, <1>2, <2>1, <2>2 DEF RwTypeOK, Waiting, semVars, benVars
<1>8. BenPart'
  BY <1>0, <1>1, <1>2, <1>6, BenSame DEF BenCounted, BenHeld
<1>9. /\ Some(Reading)' <=> Some(Reading)
      /\ Some({"rel"})' <=> Some({"rel"})
  <2>1. p \notin Reading /\ p \notin {"rel"} /\ wpc[t] \notin Reading /\ wpc[t] \notin {"rel"}
    BY <1>0, <1>2 DEF Reading
  <2> QED BY <1>1, <1>2, <2>1, SomeStep
<1>10. Num(Reading)' = Num(Reading) /\ Num(ReadWaits)' = Num(ReadWaits)
  <2>1. At(Reading)' = At(Reading) /\ At(ReadWaits)' = At(ReadWaits)
    BY <1>0, <1>2, <1>6 DEF At, Reading, ReadWaits
  <2> QED BY <2>1 DEF Num
<1>11. wunits' = wunits /\ wqueue' = wqueue /\ wunits \in Nat
  BY <1>0, <1>1 DEF semVars, RwTypeOK
<1>12. OwedKept' /\ Owed' = Owed /\ Cardinality(Owed) \in Nat
  BY <1>0, <1>1, <1>2, <1>6, OwedSame, OwedFacts DEF LockPart
<1>13. Supply' = Supply
  BY <1>11, <1>12 DEF Supply
<1>14. RwQueueKept'
  BY <1>0, <1>1, <1>6, <1>11, QueueSame DEF LockPart
<1>15. CASE p = "wacq"
  <2>1. Some(WriteWaits)'
    BY <1>1, <1>2, <1>15, SomeStep DEF WriteWaits
  <2>2. (Some(WriteIn)' <=> Some(WriteIn)) /\ One(WriteIn)'
    BY <1>0, <1>1, <1>2, <1>15, SomeStep DEF WriteIn, LockPart, WriterAlone
  <2>3. ReadersCounted'
    <3>1. wcount' = MaxReaders - Num(Reading)' - Num(ReadWaits)' - Taken(WriteIn) - MaxReaders
      BY <1>0, <1>1, <1>4, <1>10, CountFacts
    <3>2. Taken(WriteIn)' = Taken(WriteIn) /\ Taken(WriteWaits)' = MaxReaders
      BY <2>1, <2>2 DEF Taken
    <3> QED BY <3>1, <3>2 DEF ReadersCounted
  <2>4. WriterAlone' /\ ReadersBacked'
    BY <1>1, <1>9, <1>11, <2>1, <2>2 DEF LockPart, WriterAlone, ReadersBacked
  <2>5. WriterLacks' = WriterLacks
    BY <1>10, <1>13, <2>2 DEF WriterLacks
  <2>6. WriterNeeds(wcount) = WriterLacks
    <3>1. CASE Some(WriteIn)
      BY <1>1, <1>4, <3>1, CountFacts DEF WriterNeeds, WriterLacks
    <3>2. CASE ~Some(WriteIn)
      <4>1. wcount = MaxReaders - Num(Reading) - Num(ReadWaits) /\ wcount > 0
        BY <1>1, <1>4, <3>2, CountFacts
      <4>2. Num(ReadWaits) = Supply
        BY <1>1, <1>4, <3>2 DEF LockPart, ReadersBacked
      <4>3. WriterNeeds(wcount) = Num(Reading) + Num(ReadWaits)
        BY <1>1, <4>1, CountFacts DEF WriterNeeds
      <4> QED BY <3>2, <4>2, <4>3 DEF WriterLacks
    <3> QED BY <3>1, <3>2
  <2>7. WriterBacked'
    <3>1. \A u \in Threads : wpc'[u] = "wacq" => u = t
      BY <1>3, <1>6 DEF WriteWaits
    <3>2. \A i \in 1 .. Len(wqueue) : wpc'[wqueue[i].thread] # "wwait"
      BY <1>1, <1>3, <1>6, <1>15, QueueType DEF WriteWaits
    <3> QED BY <1>6, <1>11, <2>5, <2>6, <3>1, <3>2 DEF WriterBacked
  <2> QED BY <1>7, <1>8, <1>12, <1>14, <2>3, <2>4, <2>7 DEF RwInductive, LockPart, BenPart
<1>16. CASE p = "wben"
  <2>1. ~Some(WriteIn) /\ Num(Reading) = 0 /\ Num(ReadWaits) = 0 /\ wcount = MaxReaders
    BY <1>1, <1>2, <1>4, <1>16, CountFacts
  <2>2. Some(WriteIn)' /\ One(WriteIn)' /\ ~Some(WriteWaits)'
    BY <1>0, <1>1, <1>2, <1>4, <1>16, <2>1, SomeStep DEF WriteIn, WriteWaits
  <2>3. ReadersCounted'
    <3>1. Taken(WriteIn)' = MaxReaders /\ Taken(WriteWaits)' = 0
      BY <2>2 DEF Taken
    <3>2. wcount' = MaxReaders - Num(Reading)' - Num(ReadWaits)' - MaxReaders - 0
      BY <1>0, <1>1, <1>10, <2>1, CountFacts
    <3> QED BY <3>1, <3>2 DEF ReadersCounted
  <2>4. Supply = 0
    BY <1>1, <1>4, <2>1 DEF LockPart, ReadersBacked
  <2>5. wunits = 0 /\ Cardinality(Owed) = 0
    BY <1>11, <1>12, <2>4 DEF Supply
  <2>6. ~Some(Reading) /\ ~Some({"rel"})
    BY <1>1, <2>1, <2>5, NumFacts, OwedFacts DEF LockPart
  <2>7. WriterAlone' /\ ReadersBacked'
    BY <1>9, <1>11, <2>2, <2>5, <2>6 DEF WriterAlone, ReadersBacked
  <2>8. WriterBacked'
    BY <1>7, <2>2, LacksNone
  <2> QED BY <1>7, <1>8, <1>12, <1>14, <2>3, <2>7, <2>8 DEF RwInductive, LockPart, BenPart
<1> QED BY <1>2, <1>15, <1>16

(* acquire_sem_etc of a writer: the pool has all that it lacks only when   *)
(* no reader is in and nobody owes a unit.                                 *)
LEMMA WriteAcquireStep ==
    ASSUME RwInductive, NEW t \in Threads, WriteAcquire(t)
    PROVE  RwInductive'
<1>0. wpc[t] = "wacq" /\ UNCHANGED <<wcount, benVars, arg>>
  BY DEF WriteAcquire
<1>1. RwTypeOK /\ BenPart /\ ReadersCounted /\ LockPart
  BY DEF RwInductive, BenPart
<1>2. PICK n \in Nat : n = arg[t] /\ n = WriterLacks
  BY <1>0, <1>1 DEF LockPart, WriterBacked, RwTypeOK
<1>3. PICK p \in {"wben", "wwait"} :
         /\ wpc' = [wpc EXCEPT ![t] = p]
         /\ p = "wben" => wunits >= n /\ wunits' = wunits - n /\ wqueue' = wqueue
         /\ p = "wwait" => /\ wunits < n /\ wunits' = 0
                           /\ wqueue' = Append(wqueue, [thread |-> t, need |-> n - wunits])
  <2>1. \/ /\ wunits >= n /\ wunits' = wunits - n /\ wqueue' = wqueue
           /\ wpc' = [wpc EXCEPT ![t] = "wben"]
        \/ /\ wunits < n /\ wunits' = 0
           /\ wqueue' = Append(wqueue, [thread |-> t, need |-> n - wunits])
           /\ wpc' = [wpc EXCEPT ![t] = "wwait"]
    BY <1>2 DEF WriteAcquire, Acquire, Goto
  <2>2. CASE wpc' = [wpc EXCEPT ![t] = "wben"] /\ wunits >= n
    BY <1>1, <1>2, <2>1, <2>2 DEF RwTypeOK
  <2>3. CASE wpc' = [wpc EXCEPT ![t] = "wwait"] /\ wunits < n
    BY <1>1, <1>2, <2>1, <2>3 DEF RwTypeOK
  <2> QED BY <2>1, <2>2, <2>3
<1>4. wpc'[t] = p /\ \A u \in Threads : u # t => wpc'[u] = wpc[u]
  BY <1>1, <1>3 DEF RwTypeOK
<1>5. BenPart'
  BY <1>0, <1>1, <1>3, <1>4, BenSame DEF BenCounted, BenHeld
<1>6. \A u \in Threads : wpc[u] \in WriteWaits => u = t
  BY <1>0, <1>1, OneWriterWaits DEF BenHeld
<1>7. Some(WriteWaits)
  BY <1>0 DEF Some, WriteWaits
<1>8. /\ Some(Reading)' <=> Some(Reading)
      /\ Some({"rel"})' <=> Some({"rel"})
  <2>1. p \notin Reading /\ p \notin {"rel"} /\ wpc[t] \notin Reading /\ wpc[t] \notin {"rel"}
    BY <1>0, <1>3 DEF Reading
  <2> QED BY <1>1, <1>3, <2>1, SomeStep
<1>9. Num(Reading)' = Num(Reading) /\ Num(ReadWaits)' = Num(ReadWaits)
  <2>1. At(Reading)' = At(Reading) /\ At(ReadWaits)' = At(ReadWaits)
    BY <1>0, <1>3, <1>4 DEF At, Reading, ReadWaits
  <2> QED BY <2>1 DEF Num
<1>10. OwedKept' /\ Owed' = Owed /\ Cardinality(Owed) \in Nat /\ wunits \in Nat
  BY <1>0, <1>1, <1>3, <1>4, OwedSame, OwedFacts DEF LockPart, RwTypeOK
<1>11. CASE p = "wben"
  <2>1. RwTypeOK'
    BY <1>0, <1>1, <1>2, <1>3, <1>11 DEF RwTypeOK, Waiting, benVars
  <2>2. ~Some(WriteIn)
    BY <1>1, <1>2, <1>3, <1>11 DEF LockPart, WriterAlone, WriterLacks
  <2>3. n = Num(Reading) + (wunits + Cardinality(Owed))
    BY <1>2, <2>2 DEF WriterLacks, Supply
  <2>4. Num(Reading) = 0 /\ Cardinality(Owed) = 0 /\ n = wunits
    BY <1>2, <1>3, <1>10, <1>11, <2>3, NumFacts
  <2>5. ~Some(Reading) /\ ~Some({"rel"}) /\ wunits' = 0
    BY <1>1, <1>3, <1>10, <1>11, <2>4, NumFacts, OwedFacts DEF LockPart
  <2>6. Some(WriteIn)' /\ One(WriteIn)'
    BY <1>1, <1>3, <1>11, <2>2, SomeStep DEF WriteIn
  <2>7. ~Some(WriteWaits)'
    BY <1>4, <1>6, <1>11 DEF Some, WriteWaits
  <2>8. ReadersCounted'
    <3>1. Taken(WriteIn)' = Taken(WriteWaits) /\ Taken(WriteWaits)' = Taken(WriteIn)
      BY <1>7, <2>2, <2>6, <2>7 DEF Taken
    <3>2. wcount' = MaxReaders - Num(Reading)' - Num(ReadWaits)'
                    - Taken(WriteWaits) - Taken(WriteIn)
      BY <1>0, <1>1, <1>9, CountFacts
    <3> QED BY <3>1, <3>2 DEF ReadersCounted
  <2>9. RwQueueKept'
    BY <1>0, <1>1, <1>3, <1>4, <1>11, QueueSame DEF LockPart
  <2>10. WriterAlone' /\ ReadersBacked'
    BY <1>8, <2>5, <2>6 DEF WriterAlone, ReadersBacked
  <2>11. WriterBacked'
    BY <2>1, <2>7, LacksNone
  <2> QED BY <1>5, <1>10, <2>1, <2>8, <2>9, <2>10, <2>11 DEF RwInductive, LockPart, BenPart
<1>12. CASE p = "wwait"
  <2>0. PICK k \in Nat \ {0} : k = n - wunits
    BY <1>2, <1>3, <1>10, <1>12
  <2>1. /\ wqueue' \in Seq([thread : Threads, need : Nat \ {0}])
        /\ Len(wqueue') = Len(wqueue) + 1
        /\ \A i \in 1 .. Len(wqueue) : wqueue'[i] = wqueue[i]
        /\ wqueue'[Len(wqueue) + 1] = [thread |-> t, need |-> k]
        /\ RwQueueKept'
    <3>1. wpc[t] \notin {"rwait", "wwait"} /\ wpc'[t] = "wwait"
      BY <1>0, <1>4, <1>12
    <3>2. wqueue' = Append(wqueue, [thread |-> t, need |-> k])
      BY <1>3, <1>12, <2>0
    <3>3. RwTypeOK /\ RwQueueKept
      BY <1>1 DEF LockPart
    <3> QED BY <1>4, <2>0, <3>1, <3>2, <3>3, QueueAppend
  <2>2. RwTypeOK'
    BY <1>0, <1>1, <1>3, <1>12, <2>1 DEF RwTypeOK, Waiting, benVars
  <2>3. (Some(WriteIn)' <=> Some(WriteIn)) /\ One(WriteIn)' /\ Some(WriteWaits)'
    BY <1>0, <1>1, <1>3, <1>12, SomeStep DEF WriteIn, WriteWaits, LockPart, WriterAlone
  <2>4. ReadersCounted'
    <3>1. Taken(WriteIn)' = Taken(WriteIn) /\ Taken(WriteWaits)' = Taken(WriteWaits)
      BY <1>7, <2>3 DEF Taken
    <3>2. wcount' = MaxReaders - Num(Reading)' - Num(ReadWaits)'
                    - Taken(WriteIn) - Taken(WriteWaits)
      BY <1>0, <1>1, <1>9, CountFacts
    <3> QED BY <3>1, <3>2 DEF ReadersCounted
  <2>5. WriterAlone' /\ ReadersBacked'
    BY <1>1, <1>3, <1>8, <1>12, <2>3 DEF LockPart, WriterAlone, ReadersBacked
  <2>6. WriterLacks' = k
    <3>1. CASE Some(WriteIn)
      <4>1. wunits = 0 /\ n = 1
        BY <1>1, <1>2, <3>1 DEF LockPart, WriterAlone, WriterLacks
      <4> QED BY <2>0, <2>3, <3>1, <4>1 DEF WriterLacks
    <3>2. CASE ~Some(WriteIn)
      <4>1. n = Num(Reading) + (wunits + Cardinality(Owed))
        BY <1>2, <3>2 DEF WriterLacks, Supply
      <4>2. WriterLacks' = Num(Reading) + (0 + Cardinality(Owed))
        BY <1>3, <1>9, <1>10, <1>12, <2>3, <3>2 DEF WriterLacks, Supply
      <4> QED BY <1>2, <1>10, <2>0, <4>1, <4>2, NumFacts
    <3> QED BY <3>1, <3>2
  <2>7. WriterBacked'
    <3>1. \A u \in Threads : wpc'[u] # "wacq"
      BY <1>4, <1>6, <1>12 DEF WriteWaits
    <3>2. \A i \in 1 .. Len(wqueue) : wqueue[i].thread \in Threads /\ wqueue[i].thread # t
      BY <1>0, <1>1, QueueType DEF LockPart, RwQueueKept
    <3>3. \A i \in 1 .. Len(wqueue) : wpc'[wqueue[i].thread] # "wwait"
      BY <1>4, <1>6, <3>2 DEF WriteWaits
    <3>4. \A i \in 1 .. Len(wqueue') : i \in 1 .. Len(wqueue) \/ i = Len(wqueue) + 1
      BY <1>1, <2>1, QueueType
    <3>5. wqueue'[Len(wqueue) + 1].need = k
      BY <2>1
    <3> QED BY <2>1, <2>6, <3>1, <3>3, <3>4, <3>5 DEF WriterBacked
  <2> QED BY <1>5, <1>10, <2>1, <2>2, <2>4, <2>5, <2>7 DEF RwInductive, LockPart, BenPart
<1> QED BY <1>3, <1>11, <1>12

(* RELEASE_WRITE_LOCK: the writer gives one unit to the writer behind it,  *)
(* or one to every reader that came meanwhile.                             *)
LEMMA WriteUnlockStep ==
    ASSUME RwInductive, NEW t \in Threads, RELEASE_WRITE_LOCK(t)
    PROVE  RwInductive'
<1>0. /\ wpc[t] = "writing" /\ wcount' = wcount + MaxReaders
      /\ arg' = [arg EXCEPT ![t] = WriterGives(wcount)]
      /\ UNCHANGED <<semVars, benVars>>
  BY DEF RELEASE_WRITE_LOCK
<1>1. RwTypeOK /\ BenPart /\ ReadersCounted /\ LockPart
  BY DEF RwInductive, BenPart
<1>2. PICK p \in {"rel", "out"} : /\ wpc' = [wpc EXCEPT ![t] = p]
                                  /\ p = "rel" <=> wcount < 0
  BY <1>1, CountFacts DEF RELEASE_WRITE_LOCK, Goto
<1>3. Some(WriteIn) /\ Taken(WriteIn) = MaxReaders
  BY <1>0 DEF Some, WriteIn, Taken
<1>4. ~Some(Reading) /\ ~Some({"rel"}) /\ wunits = 0 /\ WriterLacks = 1
  BY <1>1, <1>3 DEF LockPart, WriterAlone, WriterLacks
<1>5. Num(Reading) = 0 /\ Cardinality(Owed) = 0
  BY <1>1, <1>4, NumFacts, OwedFacts DEF LockPart
<1>6. /\ wcount = -Num(ReadWaits) - Taken(WriteWaits)
      /\ wcount \in Int /\ Num(ReadWaits) \in Nat /\ Num(ReadWaits) < MaxReaders
      /\ MaxReaders \in Nat /\ Taken(WriteWaits) \in {0, MaxReaders}
  BY <1>1, <1>3, <1>5, CountFacts
<1>7. PICK n \in Nat : n = WriterGives(wcount)
  BY <1>6 DEF WriterGives
<1>8. /\ wpc'[t] = p /\ arg'[t] = n
      /\ \A u \in Threads : u # t => wpc'[u] = wpc[u] /\ arg'[u] = arg[u]
  BY <1>0, <1>1, <1>2, <1>7 DEF RwTypeOK
<1>9. RwTypeOK'
  <2>1. arg' \in [Threads -> Nat]
    BY <1>0, <1>1, <1>7 DEF RwTypeOK
  <2>2. wcount' \in Int
    BY <1>0, <1>6
  <2> QED BY <1>0, <1>1, <1>2, <2>1, <2>2 DEF RwTypeOK, Waiting, semVars, benVars
<1>10. BenPart'
  BY <1>0, <1>1, <1>2, <1>8, BenSame DEF BenCounted, BenHeld
<1>11. ~Some(WriteIn)' /\ One(WriteIn)' /\ (Some(WriteWaits)' <=> Some(WriteWaits))
  <2>1. /\ p \notin WriteIn /\ p \notin WriteWaits
        /\ wpc[t] \in WriteIn /\ wpc[t] \notin WriteWaits
    BY <1>0, <1>2 DEF WriteIn, WriteWaits
  <2> QED BY <1>1, <1>2, <2>1, SomeStep DEF LockPart, WriterAlone
<1>12. Num(Reading)' = 0 /\ Num(ReadWaits)' = Num(ReadWaits)
  <2>1. At(Reading)' = At(Reading) /\ At(ReadWaits)' = At(ReadWaits)
    BY <1>0, <1>2, <1>8 DEF At, Reading, ReadWaits
  <2> QED BY <1>5, <2>1 DEF Num
<1>13. ReadersCounted'
  <2>1. Taken(WriteIn)' = 0 /\ Taken(WriteWaits)' = Taken(WriteWaits)
    BY <1>11 DEF Taken
  <2>2. wcount' = MaxReaders - 0 - Num(ReadWaits) - 0 - Taken(WriteWaits)
    BY <1>0, <1>6
  <2> QED BY <1>12, <2>1, <2>2 DEF ReadersCounted
<1>14. wunits' = 0 /\ wqueue' = wqueue
  BY <1>0, <1>4 DEF semVars
<1>15. p = "rel" => n > 0
  BY <1>2, <1>6, <1>7 DEF WriterGives
<1>16. OwedKept' /\ Cardinality(Owed)' = (IF p = "rel" THEN n ELSE 0)
  <2>1. Gives(t) = 0 /\ Gives(t)' = (IF p = "rel" THEN n ELSE 0)
    BY <1>0, <1>8 DEF Gives
  <2>2. Gives(t)' \in Nat /\ (wpc'[t] = "rel" => arg'[t] > 0)
    BY <1>8, <1>15, <2>1
  <2>3. /\ OwedKept'
        /\ Cardinality(Owed)' = Cardinality(Owed) - Gives(t) + Gives(t)'
    BY <1>1, <1>8, <2>2, OwedStep DEF LockPart
  <2> QED BY <1>5, <2>1, <2>3
<1>17. Supply' = (IF p = "rel" THEN n ELSE 0)
  BY <1>14, <1>16 DEF Supply
<1>18. RwQueueKept' /\ WriterAlone'
  <2>1. RwQueueKept'
    BY <1>0, <1>1, <1>8, <1>14, QueueSame DEF LockPart
  <2> QED BY <1>11, <2>1 DEF WriterAlone
<1>19. CASE Some(WriteWaits)
  <2>1. n = 1 /\ p = "rel"
    BY <1>2, <1>6, <1>7, <1>19 DEF WriterGives, Taken
  <2>2. WriterLacks' = WriterLacks
    BY <1>4, <1>11, <1>12, <1>17, <2>1 DEF WriterLacks
  <2>3. WriterBacked'
    BY <1>1, <1>2, <1>8, <1>14, <2>2, LacksSame DEF LockPart
  <2>4. ReadersBacked'
    BY <1>11, <1>19 DEF ReadersBacked
  <2> QED BY <1>9, <1>10, <1>13, <1>16, <1>18, <2>3, <2>4 DEF RwInductive, LockPart, BenPart
<1>20. CASE ~Some(WriteWaits)
  <2>1. n = Num(ReadWaits) /\ (p = "rel" <=> n > 0)
    BY <1>2, <1>6, <1>7, <1>20 DEF WriterGives, Taken
  <2>2. ReadersBacked'
    BY <1>7, <1>12, <1>17, <2>1 DEF ReadersBacked
  <2>3. WriterBacked'
    BY <1>9, <1>11, <1>20, LacksNone
  <2> QED BY <1>9, <1>10, <1>13, <1>16, <1>18, <2>2, <2>3 DEF RwInductive, LockPart, BenPart
<1> QED BY <1>19, <1>20

-----------------------------------------------------------------------------
(* The release of several units.                                           *)

Waiter == [thread : Threads, need : Nat \ {0}]

(* What is left of n units after each of those who wait in q.              *)
Hands(q, n, left) ==
    /\ left \in [0 .. Len(q) -> 0 .. n] /\ left[0] = n
    /\ \A i \in 1 .. Len(q) :
          left[i] = IF q[i].need <= left[i - 1] THEN left[i - 1] - q[i].need ELSE 0

(* Readers take one unit each.                                             *)
LEMMA LeftByReaders ==
    ASSUME NEW q \in Seq(Waiter), NEW n \in Nat, NEW left, Hands(q, n, left),
           NEW m \in 0 .. Len(q), \A i \in 1 .. m : q[i].need = 1
    PROVE  \A i \in 0 .. m : left[i] = IF i <= n THEN n - i ELSE 0
<1> DEFINE Bad == {i \in 0 .. m : left[i] # IF i <= n THEN n - i ELSE 0}
<1> SUFFICES ASSUME Bad # {} PROVE FALSE
  OBVIOUS
<1>0. Len(q) \in Nat
  BY LenProperties
<1>1. PICK b \in Bad : \A k \in Bad : b <= k
  <2>1. Bad \in SUBSET Nat
    BY <1>0
  <2> QED BY <2>1, MinNat
<1>2. b \in 0 .. m /\ left[b] # IF b <= n THEN n - b ELSE 0
  BY <1>1
<1>3. b # 0
  BY <1>2 DEF Hands
<1>4. b - 1 \in 0 .. m /\ b - 1 \notin Bad
  BY <1>0, <1>1, <1>2, <1>3
<1>5. left[b - 1] = IF b - 1 <= n THEN n - (b - 1) ELSE 0
  BY <1>4
<1> HIDE DEF Bad
<1>6. b \in 1 .. Len(q) /\ q[b].need = 1
  BY <1>0, <1>2, <1>3
<1>7. left[b] = IF 1 <= left[b - 1] THEN left[b - 1] - 1 ELSE 0
  BY <1>6 DEF Hands
<1> QED BY <1>0, <1>2, <1>3, <1>5, <1>7

(* Behind one for whom nothing was left there is nothing.                  *)
LEMMA LeftNothing ==
    ASSUME NEW q \in Seq(Waiter), NEW n \in Nat, NEW left, Hands(q, n, left),
           NEW j \in 0 .. Len(q), left[j] = 0
    PROVE  \A i \in j .. Len(q) : left[i] = 0
<1> DEFINE Bad == {i \in j .. Len(q) : left[i] # 0}
<1> SUFFICES ASSUME Bad # {} PROVE FALSE
  OBVIOUS
<1>0. Len(q) \in Nat
  BY LenProperties
<1>1. PICK b \in Bad : \A k \in Bad : b <= k
  <2>1. Bad \in SUBSET Nat
    BY <1>0
  <2> QED BY <2>1, MinNat
<1>2. b \in j .. Len(q) /\ left[b] # 0
  BY <1>1
<1>3. b # j
  BY <1>2
<1>4. b - 1 \in j .. Len(q) /\ b - 1 \notin Bad
  BY <1>0, <1>1, <1>2, <1>3
<1>5. left[b - 1] = 0
  BY <1>4
<1> HIDE DEF Bad
<1>6. b \in 1 .. Len(q) /\ q[b] \in Waiter
  BY <1>0, <1>2, <1>3, ElementOfSeq
<1>7. q[b].need \in Nat /\ q[b].need > 0
  BY <1>6 DEF Waiter
<1>8. left[b] = IF q[b].need <= left[b - 1] THEN left[b - 1] - q[b].need ELSE 0
  BY <1>6 DEF Hands
<1> QED BY <1>2, <1>5, <1>7, <1>8

(* The first k of those who wait are served, and the one in place w gets   *)
(* the rest.                                                               *)
FirstServed(q, n, left, w, k) ==
    /\ k \in 0 .. Len(q) /\ k <= n /\ k < w
    /\ \A i \in 1 .. Len(q) : q[i].need <= left[i - 1] <=> i <= k
    /\ left[Len(q)] = IF w = Len(q) + 1 THEN n - k ELSE 0
    /\ \A i \in k .. Len(q) - 1 : left[i] = IF i = w - 1 THEN n - k ELSE 0

(* The readers before a writer that does not get all that it lacks, or all *)
(* the readers, take one unit each as long as there is one, and the writer *)
(* takes the rest.                                                         *)
LEMMA ReadersServed ==
    ASSUME NEW q \in Seq(Waiter), NEW n \in Nat, NEW left, Hands(q, n, left),
           NEW w \in 1 .. Len(q) + 1, \A i \in 1 .. w - 1 : q[i].need = 1,
           w <= Len(q) => q[w].need > left[w - 1],
           NEW k \in Nat, n < w => k = n, n >= w => k = w - 1
    PROVE  FirstServed(q, n, left, w, k)
<1>0. Len(q) \in Nat /\ w - 1 \in 0 .. Len(q) /\ w \in Nat
  BY LenProperties
<1>1. \A i \in 0 .. w - 1 : left[i] = IF i <= n THEN n - i ELSE 0
  <2>1. PICK m \in 0 .. Len(q) : m = w - 1
    BY <1>0
  <2>2. \A i \in 1 .. m : q[i].need = 1
    BY <2>1
  <2>3. \A i \in 0 .. m : left[i] = IF i <= n THEN n - i ELSE 0
    BY <2>2, LeftByReaders
  <2> QED BY <2>1, <2>3
<1>2. \A i \in w .. Len(q) : left[i] = 0
  <2> SUFFICES ASSUME w <= Len(q) PROVE \A i \in w .. Len(q) : left[i] = 0
    BY <1>0
  <2>1. w \in 1 .. Len(q) /\ w \in 0 .. Len(q)
    BY <1>0
  <2>2. q[w] \in Waiter /\ left[w - 1] \in 0 .. n
    BY <1>0, <2>1, ElementOfSeq DEF Hands
  <2>3. q[w].need \in Nat
    BY <2>2 DEF Waiter
  <2>4. left[w] = 0
    BY <2>1, <2>2, <2>3 DEF Hands
  <2> QED BY <2>1, <2>4, LeftNothing
<1>3. k \in 0 .. Len(q) /\ k <= n /\ k < w /\ k \in Nat
  BY <1>0
<1>4. ASSUME NEW i \in 1 .. Len(q) PROVE q[i].need <= left[i - 1] <=> i <= k
  <2>1. q[i] \in Waiter
    BY ElementOfSeq
  <2>2. q[i].need \in Nat /\ q[i].need > 0
    BY <2>1 DEF Waiter
  <2>3. CASE i < w
    <3>1. q[i].need = 1 /\ left[i - 1] = IF i - 1 <= n THEN n - (i - 1) ELSE 0
      BY <1>0, <1>1, <2>3
    <3> QED BY <1>0, <2>3, <3>1
  <2>4. CASE i = w
    <3>1. left[w - 1] \in 0 .. n
      BY <1>0 DEF Hands
    <3> QED BY <1>0, <1>3, <2>2, <2>4, <3>1
  <2>5. CASE i > w
    <3>1. left[i - 1] = 0
      BY <1>0, <1>2, <2>5
    <3> QED BY <1>0, <1>3, <2>2, <2>5, <3>1
  <2> QED BY <1>0, <2>3, <2>4, <2>5
<1>5. left[Len(q)] = IF w = Len(q) + 1 THEN n - k ELSE 0
  <2>1. CASE w = Len(q) + 1
    <3>1. left[Len(q)] = IF Len(q) <= n THEN n - Len(q) ELSE 0
      BY <1>0, <1>1, <2>1
    <3>2. CASE n < w
      <4>1. k = n /\ n <= Len(q)
        BY <1>0, <2>1, <3>2
      <4>2. left[Len(q)] = 0 /\ n - k = 0
        BY <1>0, <3>1, <4>1
      <4> QED BY <2>1, <4>2
    <3>3. CASE n >= w
      <4>1. k = Len(q) /\ Len(q) <= n
        BY <1>0, <2>1, <3>3
      <4> QED BY <2>1, <3>1, <4>1
    <3> QED BY <1>0, <3>2, <3>3
  <2>2. CASE w <= Len(q)
    BY <1>0, <1>2, <2>2
  <2> QED BY <1>0, <2>1, <2>2
<1>6. ASSUME NEW i \in k .. Len(q) - 1 PROVE left[i] = IF i = w - 1 THEN n - k ELSE 0
  <2>1. CASE i < w
    <3>1. left[i] = IF i <= n THEN n - i ELSE 0
      BY <1>0, <1>1, <1>3, <2>1
    <3> QED BY <1>0, <1>3, <2>1, <3>1
  <2>2. CASE i >= w
    <3>1. left[i] = 0 /\ i # w - 1
      BY <1>0, <1>2, <2>2
    <3> QED BY <3>1
  <2> QED BY <1>0, <1>3, <2>1, <2>2
<1> QED BY <1>3, <1>4, <1>5, <1>6 DEF FirstServed

(* What a release does when the first k are served.                        *)
After(t, left, k) ==
    /\ wunits' = wunits + left[Len(wqueue)]
    /\ wqueue' \in Seq(Waiter) /\ Len(wqueue') = Len(wqueue) - k
    /\ \A i \in 1 .. Len(wqueue) - k :
          /\ wqueue'[i].thread = wqueue[k + i].thread
          /\ wqueue'[i].need = wqueue[k + i].need - left[k + i - 1]
    /\ wpc' \in [Threads -> RwPlaces] /\ wpc'[t] = "out"
    /\ \A i \in 1 .. k : wpc'[wqueue[i].thread] =
                            IF wpc[wqueue[i].thread] = "rwait" THEN "reading" ELSE "wben"
    /\ \A u \in Threads \ {t} : (\A i \in 1 .. k : wqueue[i].thread # u) => wpc'[u] = wpc[u]

LEMMA ReleaseEffect ==
    ASSUME RwTypeOK, RwQueueKept, NEW t \in Threads, wpc[t] = "rel", NEW n \in Nat, Release(t, n)
    PROVE  \E left : /\ Hands(wqueue, n, left)
                     /\ \A k \in 0 .. Len(wqueue) :
                           (\A i \in 1 .. Len(wqueue) : wqueue[i].need <= left[i - 1] <=> i <= k)
                              => After(t, left, k)
<1>0. wqueue \in Seq(Waiter) /\ Len(wqueue) \in Nat /\ DOMAIN wqueue = 1 .. Len(wqueue)
  BY LenProperties DEF RwTypeOK, Waiter
<1> DEFINE Served(f) == {i \in DOMAIN wqueue : wqueue[i].need <= f[i - 1]}
           Woken(f) == {wqueue[i].thread : i \in Served(f)}
<1>1. PICK left \in [0 .. Len(wqueue) -> 0 .. n] :
         /\ left[0] = n
         /\ \A i \in DOMAIN wqueue :
               left[i] = IF wqueue[i].need <= left[i - 1] THEN left[i - 1] - wqueue[i].need ELSE 0
         /\ wunits' = wunits + left[Len(wqueue)]
         /\ wqueue' = [i \in 1 .. Len(wqueue) - Cardinality(Served(left)) |->
                         [wqueue[Cardinality(Served(left)) + i]
                            EXCEPT !.need = @ - left[Cardinality(Served(left)) + i - 1]]]
         /\ wpc' = [u \in Threads |->
                     IF u = t THEN "out"
                     ELSE IF u \notin Woken(left) THEN wpc[u]
                     ELSE IF wpc[u] = "rwait" THEN "reading" ELSE "wben"]
  BY DEF Release
<1>2. Hands(wqueue, n, left)
  BY <1>0, <1>1 DEF Hands
<1> SUFFICES ASSUME NEW k \in 0 .. Len(wqueue),
                    \A i \in 1 .. Len(wqueue) : wqueue[i].need <= left[i - 1] <=> i <= k
             PROVE  After(t, left, k)
  BY <1>2
<1>3. Served(left) = 1 .. k
  BY <1>0
<1> HIDE DEF Served
<1>4. Cardinality(Served(left)) = k /\ k \in Nat
  <2>1. k \in Nat
    BY <1>0
  <2> QED BY <1>3, <2>1, CardUpTo
<1>5. Woken(left) = {wqueue[i].thread : i \in 1 .. k}
  BY <1>3
<1>6. wqueue' = [i \in 1 .. Len(wqueue) - k |->
                   [wqueue[k + i] EXCEPT !.need = @ - left[k + i - 1]]]
  BY <1>1, <1>4
<1>7. ASSUME NEW i \in 1 .. Len(wqueue) - k
      PROVE  /\ wqueue'[i] \in Waiter
             /\ wqueue'[i].thread = wqueue[k + i].thread
             /\ wqueue'[i].need = wqueue[k + i].need - left[k + i - 1]
  <2>1. k + i \in 1 .. Len(wqueue) /\ k + i - 1 \in 0 .. Len(wqueue) /\ ~(k + i <= k)
    BY <1>0, <1>4
  <2>2. wqueue[k + i] \in Waiter
    BY <1>0, <2>1, ElementOfSeq
  <2>3. PICK e \in Waiter : e = wqueue[k + i]
    BY <2>2
  <2>4. PICK m \in Nat : m = left[k + i - 1]
    BY <1>1, <2>1
  <2>5. ~(e.need <= m) /\ e.need \in Nat /\ e.thread \in Threads
    BY <2>1, <2>3, <2>4 DEF Waiter
  <2>6. e.need - m \in Nat \ {0}
    BY <2>5
  <2>7. wqueue'[i] = [e EXCEPT !.need = @ - m]
    BY <1>6, <2>3, <2>4
  <2>8. [e EXCEPT !.need = @ - m] = [thread |-> e.thread, need |-> e.need - m]
    BY DEF Waiter
  <2>9. /\ wqueue'[i].thread = e.thread /\ wqueue'[i].need = e.need - m
        /\ wqueue'[i] \in Waiter
    BY <2>5, <2>6, <2>7, <2>8 DEF Waiter
  <2> QED BY <2>3, <2>4, <2>9
<1>8. wqueue' \in Seq(Waiter) /\ Len(wqueue') = Len(wqueue) - k
  <2>1. Len(wqueue) - k \in Nat
    BY <1>0
  <2>2. PICK L \in Nat : L = Len(wqueue) - k
    BY <2>1
  <2>3. PICK q : q = wqueue'
    OBVIOUS
  <2>4. q \in [1 .. L -> Waiter]
    BY <1>6, <1>7, <2>2, <2>3
  <2>5. q \in Seq(Waiter) /\ Len(q) = L
    BY <2>4
  <2> QED BY <2>2, <2>3, <2>5
<1>9. ASSUME NEW i \in 1 .. k
      PROVE  wpc'[wqueue[i].thread] =
                IF wpc[wqueue[i].thread] = "rwait" THEN "reading" ELSE "wben"
  <2>0. i \in 1 .. Len(wqueue)
    BY <1>0
  <2>1. wqueue[i].thread \in Threads /\ wqueue[i].thread # t
    <3>1. wqueue[i].thread \in Threads
      BY <2>0, QueueType
    <3>2. wpc[wqueue[i].thread] # "rel"
      BY <2>0 DEF RwQueueKept
    <3> QED BY <3>1, <3>2
  <2>2. wqueue[i].thread \in Woken(left)
    BY <1>5
  <2> HIDE DEF Woken
  <2> QED BY <1>1, <2>1, <2>2
<1>10. ASSUME NEW u \in Threads \ {t}, \A i \in 1 .. k : wqueue[i].thread # u
       PROVE  wpc'[u] = wpc[u]
  <2>1. u \notin Woken(left)
    BY <1>5, <1>10
  <2> HIDE DEF Woken
  <2> QED BY <1>1, <2>1
<1>11. wpc' \in [Threads -> RwPlaces] /\ wpc'[t] = "out"
  <2> HIDE DEF Woken
  <2>1. wpc \in [Threads -> RwPlaces]
    BY DEF RwTypeOK, RwPlaces
  <2>2. "out" \in RwPlaces /\ "reading" \in RwPlaces /\ "wben" \in RwPlaces
    BY DEF RwPlaces
  <2> QED BY <1>1, <2>1, <2>2
<1> QED BY <1>1, <1>7, <1>8, <1>9, <1>10, <1>11 DEF After

(* The readers that get their unit are in, each of them once.              *)
LEMMA ReadersWoken ==
    ASSUME RwTypeOK, RwQueueKept, NEW t \in Threads, wpc[t] = "rel",
           NEW left, NEW k \in 0 .. Len(wqueue), After(t, left, k),
           \A i \in 1 .. k : wpc[wqueue[i].thread] = "rwait"
    PROVE  /\ Num(Reading)' = Num(Reading) + k /\ Num(ReadWaits)' = Num(ReadWaits) - k
           /\ Num(ReadWaits)' \in Nat
           /\ \A u \in Threads : \/ wpc'[u] = wpc[u] /\ u # t
                                 \/ u = t /\ wpc'[u] = "out"
                                 \/ wpc[u] = "rwait" /\ wpc'[u] = "reading"
<1> DEFINE W == {wqueue[i].thread : i \in 1 .. k}
           f == [i \in 1 .. k |-> wqueue[i].thread]
<1>0. Len(wqueue) \in Nat /\ k \in Nat /\ \A i \in 1 .. k : i \in 1 .. Len(wqueue)
  BY QueueType
<1>1. W \subseteq Threads /\ \A u \in W : wpc[u] = "rwait" /\ wpc'[u] = "reading" /\ u # t
  BY <1>0, QueueType DEF After
<1>2. \A u \in Threads : u \notin W /\ u # t => wpc'[u] = wpc[u]
  BY DEF After
<1>3. wpc'[t] = "out"
  BY DEF After
<1>4. IsFiniteSet(W) /\ Cardinality(W) = k
  <2>1. f \in [1 .. k -> W] /\ \A i \in 1 .. k : f[i] = wqueue[i].thread
    OBVIOUS
  <2>2. \A u \in W : \E i \in 1 .. k : f[i] = u
    OBVIOUS
  <2> HIDE DEF f, W
  <2>3. \A i, j \in 1 .. k : f[i] = f[j] => i = j
    BY <1>0, <2>1 DEF RwQueueKept
  <2>4. f \in Injection(1 .. k, W) /\ f \in Surjection(1 .. k, W)
    BY <2>1, <2>2, <2>3 DEF Injection, IsInjective, Surjection
  <2>5. ExistsBijection(1 .. k, W)
    BY <2>4 DEF ExistsBijection, Bijection
  <2>6. IsFiniteSet(1 .. k) /\ Cardinality(1 .. k) = k
    BY <1>0, CardUpTo
  <2> QED BY <2>5, <2>6, FS_Bijection
<1> HIDE DEF W, f
<1>5. PICK R, Q : R = At(Reading)' /\ Q = At(ReadWaits)'
  OBVIOUS
<1>6. R = At(Reading) \cup W /\ At(Reading) \cap W = {}
  BY <1>1, <1>2, <1>3, <1>5 DEF At, Reading
<1>7. At(ReadWaits) = Q \cup W /\ Q \cap W = {}
  BY <1>1, <1>2, <1>3, <1>5 DEF At, ReadWaits
<1>8. IsFiniteSet(At(Reading)) /\ IsFiniteSet(At(ReadWaits)) /\ IsFiniteSet(Q)
  <2>1. IsFiniteSet(At(Reading)) /\ IsFiniteSet(At(ReadWaits))
    BY NumFacts
  <2> QED BY <1>7, <2>1, FS_Subset
<1>9. /\ Cardinality(At(Reading)) \in Nat /\ Cardinality(At(ReadWaits)) \in Nat
      /\ Cardinality(Q) \in Nat /\ Cardinality({}) = 0
  BY <1>8, FS_CardinalityType, FS_EmptySet
<1>10. Cardinality(R) = Cardinality(At(Reading)) + k
  <2>1. Cardinality(R) = Cardinality(At(Reading)) + Cardinality(W) - Cardinality({})
    BY <1>4, <1>6, <1>8, FS_Union
  <2> QED BY <1>0, <1>4, <1>9, <2>1
<1>11. Cardinality(Q) = Cardinality(At(ReadWaits)) - k
  <2>1. Cardinality(At(ReadWaits)) = Cardinality(Q) + Cardinality(W) - Cardinality({})
    BY <1>4, <1>7, <1>8, FS_Union
  <2> QED BY <1>0, <1>4, <1>9, <2>1
<1>12. \A u \in Threads : \/ wpc'[u] = wpc[u] /\ u # t
                          \/ u = t /\ wpc'[u] = "out"
                          \/ wpc[u] = "rwait" /\ wpc'[u] = "reading"
  BY <1>1, <1>2, <1>3
<1> QED BY <1>5, <1>9, <1>10, <1>11, <1>12 DEF Num

(* Who stays in the queue waits as before.                                 *)
LEMMA QueueAfter ==
    ASSUME RwTypeOK, RwQueueKept, NEW t \in Threads, wpc[t] = "rel",
           NEW left, NEW k \in 0 .. Len(wqueue), After(t, left, k)
    PROVE  \A i \in 1 .. Len(wqueue') :
              /\ k + i \in 1 .. Len(wqueue) /\ k + i - 1 \in k .. Len(wqueue) - 1
              /\ wqueue'[i].thread = wqueue[k + i].thread
              /\ wqueue'[i].need = wqueue[k + i].need - left[k + i - 1]
              /\ wpc'[wqueue'[i].thread] = wpc[wqueue[k + i].thread]
<1> SUFFICES ASSUME NEW i \in 1 .. Len(wqueue')
             PROVE  /\ k + i \in 1 .. Len(wqueue) /\ k + i - 1 \in k .. Len(wqueue) - 1
                    /\ wqueue'[i].thread = wqueue[k + i].thread
                    /\ wqueue'[i].need = wqueue[k + i].need - left[k + i - 1]
                    /\ wpc'[wqueue'[i].thread] = wpc[wqueue[k + i].thread]
  OBVIOUS
<1>0. Len(wqueue) \in Nat /\ k \in Nat /\ Len(wqueue') = Len(wqueue) - k
  BY QueueType DEF After
<1>1. i \in 1 .. Len(wqueue) - k /\ k + i \in 1 .. Len(wqueue) /\ k + i - 1 \in k .. Len(wqueue) - 1
  BY <1>0
<1>2. /\ wqueue'[i].thread = wqueue[k + i].thread
      /\ wqueue'[i].need = wqueue[k + i].need - left[k + i - 1]
  BY <1>1 DEF After
<1>3. wqueue[k + i].thread \in Threads /\ wqueue[k + i].thread # t
  BY <1>1, QueueType DEF RwQueueKept
<1>4. \A j \in 1 .. k : wqueue[j].thread # wqueue[k + i].thread
  <2>1. \A j \in 1 .. k : j \in 1 .. Len(wqueue) /\ j # k + i
    BY <1>0, <1>1
  <2> QED BY <1>1, <2>1 DEF RwQueueKept
<1>5. wpc'[wqueue[k + i].thread] = wpc[wqueue[k + i].thread]
  BY <1>3, <1>4 DEF After
<1> QED BY <1>1, <1>2, <1>5

(* What stays when the release wakes only readers.                         *)
LEMMA ReadersPlaces ==
    ASSUME RwTypeOK, NEW t \in Threads, wpc[t] = "rel",
           \A u \in Threads : \/ wpc'[u] = wpc[u] /\ u # t
                              \/ u = t /\ wpc'[u] = "out"
                              \/ wpc[u] = "rwait" /\ wpc'[u] = "reading"
    PROVE  /\ \A u \in Threads : /\ wpc'[u] \in BenCounted <=> wpc[u] \in BenCounted
                                 /\ wpc'[u] \in BenHeld <=> wpc[u] \in BenHeld
                                 /\ wpc[u] = "bwait" => wpc'[u] = "bwait"
                                 /\ wpc'[u] \in WriteIn <=> wpc[u] \in WriteIn
                                 /\ wpc'[u] \in WriteWaits <=> wpc[u] \in WriteWaits
                                 /\ wpc'[u] = "wacq" <=> wpc[u] = "wacq"
                                 /\ u # t => (wpc'[u] = "rel" <=> wpc[u] = "rel")
           /\ Some(WriteIn)' <=> Some(WriteIn)
           /\ Some(WriteWaits)' <=> Some(WriteWaits)
           /\ One(WriteIn) => One(WriteIn)'
<1>1. \A u \in Threads : /\ wpc'[u] \in BenCounted <=> wpc[u] \in BenCounted
                         /\ wpc'[u] \in BenHeld <=> wpc[u] \in BenHeld
                         /\ wpc[u] = "bwait" => wpc'[u] = "bwait"
                         /\ wpc'[u] \in WriteIn <=> wpc[u] \in WriteIn
                         /\ wpc'[u] \in WriteWaits <=> wpc[u] \in WriteWaits
                         /\ wpc'[u] = "wacq" <=> wpc[u] = "wacq"
                         /\ u # t => (wpc'[u] = "rel" <=> wpc[u] = "rel")
  BY DEF BenCounted, BenHeld, WriteIn, WriteWaits
<1>2. /\ Some(WriteIn)' <=> Some(WriteIn)
      /\ Some(WriteWaits)' <=> Some(WriteWaits)
      /\ One(WriteIn) => One(WriteIn)'
  BY <1>1 DEF Some, One
<1> QED BY <1>1, <1>2

(* The release wakes readers, at most as many as the units, and a writer   *)
(* in place w gets the rest.                                               *)
LEMMA ReleaseToReaders ==
    ASSUME RwInductive, NEW t \in Threads, wpc[t] = "rel",
           UNCHANGED <<wcount, benVars, arg>>, ~Some(WriteIn),
           NEW left, Hands(wqueue, arg[t], left),
           \A k \in 0 .. Len(wqueue) :
              (\A i \in 1 .. Len(wqueue) : wqueue[i].need <= left[i - 1] <=> i <= k)
                 => After(t, left, k),
           NEW w \in 1 .. Len(wqueue) + 1,
           \A i \in 1 .. Len(wqueue) : wpc[wqueue[i].thread] = "wwait" <=> i = w,
           w <= Len(wqueue) => wqueue[w].need > left[w - 1],
           w = Len(wqueue) + 1 \/ ~ \E u \in Threads : wpc[u] = "wacq"
    PROVE  RwInductive'
<1>0. RwTypeOK /\ BenPart /\ ReadersCounted /\ LockPart /\ RwQueueKept
  BY DEF RwInductive, BenPart, LockPart
<1>1. PICK n \in Nat : n = arg[t] /\ n > 0
  BY <1>0 DEF LockPart, OwedKept, RwTypeOK
<1>2. wqueue \in Seq(Waiter) /\ Len(wqueue) \in Nat
  BY <1>0, LenProperties DEF RwTypeOK, Waiter
<1>3. PICK k \in Nat : (n < w => k = n) /\ (n >= w => k = w - 1)
  <2>1. w \in Nat /\ w - 1 \in Nat
    BY <1>2
  <2>2. CASE n < w
    BY <2>1, <2>2
  <2>3. CASE n >= w
    BY <2>1, <2>3
  <2> QED BY <2>1, <2>2, <2>3
<1>4. \A i \in 1 .. w - 1 : /\ i \in 1 .. Len(wqueue) /\ wpc[wqueue[i].thread] = "rwait"
                            /\ wqueue[i].need = 1
  <2>1. \A i \in 1 .. w - 1 : i \in 1 .. Len(wqueue) /\ i # w
    BY <1>2
  <2> QED BY <1>0, <2>1 DEF RwQueueKept
<1>5. /\ k \in 0 .. Len(wqueue) /\ k <= n /\ k < w
      /\ \A i \in 1 .. Len(wqueue) : wqueue[i].need <= left[i - 1] <=> i <= k
      /\ left[Len(wqueue)] = IF w = Len(wqueue) + 1 THEN n - k ELSE 0
      /\ \A i \in k .. Len(wqueue) - 1 : left[i] = IF i = w - 1 THEN n - k ELSE 0
  <2>1. Hands(wqueue, n, left)
    BY <1>1
  <2>2. \A i \in 1 .. w - 1 : wqueue[i].need = 1
    BY <1>4
  <2>3. k \in Nat /\ (n < w => k = n) /\ (n >= w => k = w - 1)
    BY <1>3
  <2>4. w <= Len(wqueue) => wqueue[w].need > left[w - 1]
    OBVIOUS
  <2>5. FirstServed(wqueue, n, left, w, k)
    BY <1>2, <2>1, <2>2, <2>3, <2>4, ReadersServed
  <2> QED BY <2>5 DEF FirstServed
<1>6. After(t, left, k) /\ k \in Nat
  BY <1>2, <1>5
<1>7. \A i \in 1 .. k : wpc[wqueue[i].thread] = "rwait"
  BY <1>2, <1>4, <1>5
<1>8. /\ Num(Reading)' = Num(Reading) + k /\ Num(ReadWaits)' = Num(ReadWaits) - k
      /\ Num(ReadWaits)' \in Nat
      /\ \A u \in Threads : \/ wpc'[u] = wpc[u] /\ u # t
                            \/ u = t /\ wpc'[u] = "out"
                            \/ wpc[u] = "rwait" /\ wpc'[u] = "reading"
  BY <1>0, <1>5, <1>6, <1>7, ReadersWoken
<1>9. /\ \A u \in Threads : /\ wpc'[u] \in BenCounted <=> wpc[u] \in BenCounted
                            /\ wpc'[u] \in BenHeld <=> wpc[u] \in BenHeld
                            /\ wpc[u] = "bwait" => wpc'[u] = "bwait"
                            /\ wpc'[u] \in WriteIn <=> wpc[u] \in WriteIn
                            /\ wpc'[u] \in WriteWaits <=> wpc[u] \in WriteWaits
                            /\ wpc'[u] = "wacq" <=> wpc[u] = "wacq"
                            /\ u # t => (wpc'[u] = "rel" <=> wpc[u] = "rel")
      /\ Some(WriteIn)' <=> Some(WriteIn)
      /\ Some(WriteWaits)' <=> Some(WriteWaits)
      /\ One(WriteIn) => One(WriteIn)'
  BY <1>0, <1>8, ReadersPlaces
<1>10. BenPart'
  BY <1>0, <1>9, BenSame
<1>11. PICK l \in Nat : l = left[Len(wqueue)]
  BY <1>2, <1>5, <1>6
<1>12. wunits' = wunits + l /\ wunits \in Nat
  BY <1>0, <1>6, <1>11 DEF After, RwTypeOK
<1>13. RwTypeOK'
  <2>1. wpc' \in [Threads -> RwPlaces] /\ wqueue' \in Seq(Waiter)
    BY <1>6 DEF After
  <2>2. wunits' \in Nat
    BY <1>12
  <2> QED BY <1>0, <2>1, <2>2 DEF RwTypeOK, RwPlaces, Waiter, benVars
<1>14. /\ OwedKept' /\ Cardinality(Owed) \in Nat /\ n <= Cardinality(Owed)
       /\ Cardinality(Owed)' = Cardinality(Owed) - n
  <2>1. Gives(t) = n /\ Gives(t)' = 0 /\ wpc'[t] # "rel"
    BY <1>1, <1>6 DEF Gives, After
  <2>2. Cardinality(Owed) \in Nat
    BY <1>0, OwedFacts DEF LockPart
  <2>3. /\ OwedKept' /\ Gives(t) <= Cardinality(Owed)
        /\ Cardinality(Owed)' = Cardinality(Owed) - Gives(t) + Gives(t)'
    BY <1>0, <1>9, <2>1, OwedStep DEF LockPart
  <2> QED BY <2>1, <2>2, <2>3
<1>15. /\ Supply \in Nat /\ Supply' = Supply + l - n
       /\ Num(Reading) \in Nat /\ Num(ReadWaits) \in Nat
  BY <1>12, <1>14, NumFacts DEF Supply
<1>16. ReadersCounted'
  <2>1. Taken(WriteIn)' = Taken(WriteIn) /\ Taken(WriteWaits)' = Taken(WriteWaits)
    BY <1>9 DEF Taken
  <2>2. wcount' = MaxReaders - Num(Reading)' - Num(ReadWaits)' - Taken(WriteIn) - Taken(WriteWaits)
    BY <1>0, <1>6, <1>8, CountFacts
  <2> QED BY <2>1, <2>2 DEF ReadersCounted
<1>17. \A i \in 1 .. Len(wqueue') :
          /\ k + i \in 1 .. Len(wqueue) /\ k + i - 1 \in k .. Len(wqueue) - 1
          /\ wqueue'[i].thread = wqueue[k + i].thread
          /\ wqueue'[i].need = wqueue[k + i].need - left[k + i - 1]
          /\ wpc'[wqueue'[i].thread] = wpc[wqueue[k + i].thread]
  BY <1>0, <1>5, <1>6, QueueAfter
<1>18. ASSUME NEW i \in 1 .. Len(wqueue')
       PROVE  /\ k + i = w => /\ wpc'[wqueue'[i].thread] = "wwait"
                              /\ wqueue'[i].need = wqueue[w].need - (n - k)
              /\ k + i # w => /\ wpc'[wqueue'[i].thread] = "rwait"
                              /\ wqueue'[i].need = 1
  <2>1. /\ k + i \in 1 .. Len(wqueue) /\ k + i - 1 \in k .. Len(wqueue) - 1
        /\ wqueue'[i].need = wqueue[k + i].need - left[k + i - 1]
        /\ wpc'[wqueue'[i].thread] = wpc[wqueue[k + i].thread]
    BY <1>17
  <2>2. k + i - 1 = w - 1 <=> k + i = w
    <3>1. k \in Int /\ i \in Int /\ w \in Int
      BY <1>2, <1>6
    <3> QED BY <3>1
  <2>3. left[k + i - 1] = IF k + i = w THEN n - k ELSE 0
    BY <1>5, <2>1, <2>2
  <2>4. CASE k + i = w
    BY <2>1, <2>3, <2>4
  <2>5. CASE k + i # w
    <3>1. wpc[wqueue[k + i].thread] = "rwait" /\ wqueue[k + i].need = 1
      BY <1>0, <2>1, <2>5 DEF RwQueueKept
    <3> QED BY <2>1, <2>3, <2>5, <3>1
  <2> QED BY <2>4, <2>5
<1>19. RwQueueKept'
  <2>1. \A i, j \in 1 .. Len(wqueue') : wqueue'[i].thread = wqueue'[j].thread => i = j
    <3> SUFFICES ASSUME NEW i \in 1 .. Len(wqueue'), NEW j \in 1 .. Len(wqueue'),
                        wqueue'[i].thread = wqueue'[j].thread
                 PROVE  i = j
      OBVIOUS
    <3>0. /\ k + i \in 1 .. Len(wqueue) /\ k + j \in 1 .. Len(wqueue)
          /\ wqueue[k + i].thread = wqueue[k + j].thread
      BY <1>17
    <3>1. k + i = k + j
      BY <1>0, <3>0 DEF RwQueueKept
    <3>2. i \in Int /\ j \in Int
      OBVIOUS
    <3> QED BY <1>6, <3>1, <3>2
  <2> QED BY <1>18, <2>1 DEF RwQueueKept
<1>20. WriterAlone'
  BY <1>0, <1>9 DEF LockPart, WriterAlone
<1>21. CASE w = Len(wqueue) + 1
  <2>1. l = n - k
    BY <1>5, <1>11, <1>21
  <2>2. WriterLacks' = WriterLacks
    <3>0. Supply' = Supply - k
      BY <1>6, <1>15, <2>1
    <3>1. Num(Reading)' + Supply' = Num(Reading) + Supply
      BY <1>6, <1>8, <1>15, <3>0
    <3> QED BY <1>9, <3>1 DEF WriterLacks
  <2>3. ReadersBacked'
    <3> SUFFICES ASSUME ~Some(WriteWaits) PROVE Num(ReadWaits)' = Supply'
      BY <1>9 DEF ReadersBacked
    <3>1. Num(ReadWaits) = Supply
      BY <1>0 DEF LockPart, ReadersBacked
    <3>2. Num(ReadWaits)' = Num(ReadWaits) - k /\ Supply' = Supply - k
      BY <1>6, <1>8, <1>15, <2>1
    <3> QED BY <3>1, <3>2
  <2>4. WriterBacked'
    <3>1. \A i \in 1 .. Len(wqueue') : wpc'[wqueue'[i].thread] = "rwait"
      <4>1. \A i \in 1 .. Len(wqueue') : k + i # w
        BY <1>2, <1>17, <1>21
      <4> QED BY <1>18, <4>1
    <3>2. \A u \in Threads : wpc'[u] = "wacq" => arg'[u] = WriterLacks'
      BY <1>0, <1>9, <2>2 DEF LockPart, WriterBacked
    <3> QED BY <3>1, <3>2 DEF WriterBacked
  <2> QED BY <1>10, <1>13, <1>14, <1>16, <1>19, <1>20, <2>3, <2>4 DEF RwInductive, LockPart, BenPart
<1>22. CASE w <= Len(wqueue)
  <2>1. l = 0 /\ w \in 1 .. Len(wqueue) /\ wpc[wqueue[w].thread] = "wwait"
    BY <1>2, <1>5, <1>11, <1>22
  <2>2. Some(WriteWaits)
    BY <1>0, <2>1, QueueType DEF Some, WriteWaits
  <2>3. wqueue[w].need = Num(Reading) + Supply
    BY <1>0, <2>1 DEF LockPart, WriterBacked, WriterLacks
  <2>4. WriterLacks' = wqueue[w].need - (n - k)
    <3>1. Supply' = Supply - n
      BY <1>15, <2>1
    <3>2. PICK a \in Int, b \in Int : a = Num(Reading) /\ b = Supply
      BY <1>15
    <3>3. Num(Reading)' = a + k /\ Supply' = b - n
      BY <1>8, <3>1, <3>2
    <3>4. Num(Reading)' + Supply' = a + b - (n - k)
      BY <1>6, <3>3
    <3>5. WriterLacks' = Num(Reading)' + Supply'
      BY <1>9 DEF WriterLacks
    <3> QED BY <2>3, <3>2, <3>4, <3>5
  <2>5. ReadersBacked'
    BY <1>9, <2>2 DEF ReadersBacked
  <2>6. WriterBacked'
    <3>1. \A u \in Threads : wpc'[u] # "wacq"
      BY <1>2, <1>9, <1>22
    <3>2. \A i \in 1 .. Len(wqueue') :
             wpc'[wqueue'[i].thread] = "wwait" => wqueue'[i].need = WriterLacks'
      BY <1>18, <2>4
    <3> QED BY <3>1, <3>2 DEF WriterBacked
  <2> QED BY <1>10, <1>13, <1>14, <1>16, <1>19, <1>20, <2>5, <2>6 DEF RwInductive, LockPart, BenPart
<1> QED BY <1>2, <1>21, <1>22

(* The release gives a writer all that it lacks: nobody else is in, owes a *)
(* unit or was served.                                                     *)
LEMMA ReleaseToWriter ==
    ASSUME RwInductive, NEW t \in Threads, wpc[t] = "rel",
           UNCHANGED <<wcount, benVars, arg>>, ~Some(WriteIn),
           NEW left, Hands(wqueue, arg[t], left),
           \A k \in 0 .. Len(wqueue) :
              (\A i \in 1 .. Len(wqueue) : wqueue[i].need <= left[i - 1] <=> i <= k)
                 => After(t, left, k),
           NEW w \in 1 .. Len(wqueue),
           \A i \in 1 .. Len(wqueue) : wpc[wqueue[i].thread] = "wwait" <=> i = w,
           wqueue[w].need <= left[w - 1]
    PROVE  RwInductive'
<1>0. RwTypeOK /\ BenPart /\ ReadersCounted /\ LockPart /\ RwQueueKept
  BY DEF RwInductive, BenPart, LockPart
<1>1. PICK n \in Nat : n = arg[t] /\ n > 0
  BY <1>0 DEF LockPart, OwedKept, RwTypeOK
<1>2. wqueue \in Seq(Waiter) /\ Len(wqueue) \in Nat
  BY <1>0, LenProperties DEF RwTypeOK, Waiter
<1>3. Hands(wqueue, n, left)
  BY <1>1
<1>4. PICK O \in Nat : O = Cardinality(Owed) /\ n <= O
  <2>1. Cardinality(Owed) \in Nat
    BY <1>0, OwedFacts DEF LockPart
  <2>2. {t} \X (1 .. n) \subseteq Owed
    BY <1>1 DEF Owed
  <2>3. Cardinality({t} \X (1 .. n)) <= Cardinality(Owed)
    BY <1>0, <2>2, FS_Subset DEF LockPart, OwedKept
  <2>4. PICK E : E = {} /\ IsFiniteSet(E) /\ Cardinality(E) = 0
    BY FS_EmptySet
  <2>5. E \cup ({t} \X (1 .. n)) = {t} \X (1 .. n) /\ \A q \in E : q[1] # t
    BY <2>4
  <2>6. Cardinality(E \cup ({t} \X (1 .. n))) = Cardinality(E) + n
    BY <2>4, <2>5, UnitsAdded
  <2>7. Cardinality({t} \X (1 .. n)) = n
    BY <2>4, <2>5, <2>6
  <2> QED BY <2>1, <2>3, <2>7
<1>5. PICK r \in Nat : r = Num(Reading)
  BY NumFacts
<1>6. wunits \in Nat /\ wqueue[w].need = r + (wunits + O)
  BY <1>0, <1>4, <1>5 DEF LockPart, WriterBacked, WriterLacks, Supply, RwTypeOK
<1>7. left[w - 1] = IF w - 1 <= n THEN n - (w - 1) ELSE 0
  <2>1. w - 1 \in 0 .. Len(wqueue) /\ w - 1 \in 0 .. w - 1
    BY <1>2
  <2>2. \A i \in 1 .. w - 1 : i \in 1 .. Len(wqueue) /\ i # w
    BY <1>2
  <2>3. \A i \in 1 .. w - 1 : wqueue[i].need = 1
    BY <1>0, <2>2 DEF RwQueueKept
  <2>4. \A i \in 0 .. w - 1 : left[i] = IF i <= n THEN n - i ELSE 0
    BY <1>2, <1>3, <2>1, <2>3, LeftByReaders
  <2> QED BY <2>1, <2>4
<1>8. w = 1 /\ r = 0 /\ wunits = 0 /\ O = n /\ wqueue[1].need = n /\ left[0] = n
  <2>1. w \in Nat /\ w >= 1
    BY <1>2
  <2>2. w - 1 <= n
    <3>1. wqueue[w].need > 0
      <4>1. O > 0
        BY <1>1, <1>4
      <4>2. r + (wunits + O) > 0
        BY <1>6, <4>1
      <4> QED BY <1>6, <4>2
    <3>2. left[w - 1] # 0
      BY <1>5, <1>6, <3>1
    <3> QED BY <1>7, <3>2
  <2>3. r + (wunits + O) <= n - (w - 1)
    BY <1>6, <1>7, <2>2
  <2>4. w = 1 /\ r = 0 /\ wunits = 0 /\ O = n
    BY <1>4, <1>6, <2>1, <2>3
  <2> QED BY <1>6, <1>7, <2>1, <2>4
<1>9. \A i \in 1 .. Len(wqueue) : left[i] = 0
  <2>1. 1 \in 1 .. Len(wqueue) /\ 1 \in 0 .. Len(wqueue)
    BY <1>2
  <2>2. left[1] = 0
    BY <1>3, <1>8, <2>1 DEF Hands
  <2> QED BY <1>2, <1>3, <2>1, <2>2, LeftNothing
<1>10. 1 \in 0 .. Len(wqueue) /\ 1 \in 1 .. Len(wqueue) /\ Len(wqueue) \in 1 .. Len(wqueue)
  BY <1>2
<1>11. \A i \in 1 .. Len(wqueue) : wqueue[i].need <= left[i - 1] <=> i <= 1
  <2> SUFFICES ASSUME NEW i \in 1 .. Len(wqueue)
               PROVE  wqueue[i].need <= left[i - 1] <=> i <= 1
    OBVIOUS
  <2>1. CASE i = 1
    BY <1>1, <1>8, <2>1
  <2>2. CASE i > 1
    <3>1. i - 1 \in 1 .. Len(wqueue)
      BY <1>2, <2>2
    <3>2. left[i - 1] = 0
      BY <1>9, <3>1
    <3>3. wqueue[i].need \in Nat \ {0}
      BY <1>0, QueueType
    <3> QED BY <2>2, <3>2, <3>3
  <2> QED BY <1>2, <2>1, <2>2
<1>12. After(t, left, 1)
  BY <1>10, <1>11
<1>13. PICK u \in Threads : u = wqueue[1].thread /\ wpc[u] = "wwait" /\ u # t
  BY <1>0, <1>8, <1>10, QueueType
<1>14. /\ wpc'[t] = "out" /\ wpc'[u] = "wben"
       /\ \A x \in Threads : x # t /\ x # u => wpc'[x] = wpc[x]
  <2>1. \A i \in 1 .. 1 : i = 1
    OBVIOUS
  <2> QED BY <1>12, <1>13, <2>1 DEF After
<1>15. \A x \in Threads : wpc[x] \in WriteWaits => x = u
  BY <1>0, <1>13, OneWriterWaits DEF BenHeld
<1>16. RwTypeOK' /\ wunits' = 0
  <2>1. /\ wpc' \in [Threads -> RwPlaces] /\ wqueue' \in Seq(Waiter)
        /\ wunits' = wunits + left[Len(wqueue)]
    BY <1>12 DEF After
  <2>2. wunits' = 0
    BY <1>8, <1>9, <1>10, <2>1
  <2>3. wcount' = wcount /\ bcount' = bcount /\ bunits' = bunits /\ bqueue' = bqueue /\ arg' = arg
    BY DEF benVars
  <2>4. /\ wcount \in Int /\ bcount \in Int /\ bunits \in Nat /\ bqueue \in Seq(Threads)
        /\ arg \in [Threads -> Nat]
    BY <1>0 DEF RwTypeOK
  <2> QED BY <2>1, <2>2, <2>3, <2>4 DEF RwTypeOK, RwPlaces, Waiter
<1>17. BenPart'
  BY <1>0, <1>13, <1>14, BenSame DEF BenCounted, BenHeld
<1>18. OwedKept' /\ Cardinality(Owed)' = 0
  <2>1. Gives(t) = n /\ Gives(t)' = 0 /\ wpc'[t] # "rel"
    BY <1>1, <1>14 DEF Gives
  <2>2. /\ OwedKept'
        /\ Cardinality(Owed)' = Cardinality(Owed) - Gives(t) + Gives(t)'
    <3>1. \A x \in Threads \ {t} : (wpc'[x] = "rel" <=> wpc[x] = "rel") /\ arg'[x] = arg[x]
      BY <1>13, <1>14
    <3>2. Gives(t)' \in Nat
      BY <2>1
    <3> QED BY <1>0, <2>1, <3>1, <3>2, OwedStep DEF LockPart
  <2>3. Cardinality(Owed) = n
    BY <1>4, <1>8
  <2>4. Cardinality(Owed)' = n - n + 0
    BY <2>1, <2>2, <2>3
  <2> QED BY <2>2, <2>4
<1>19. ~Some(Reading) /\ ~Some(Reading)' /\ ~Some({"rel"})'
  <2>1. ~Some(Reading)
    BY <1>5, <1>8, NumFacts
  <2>2. ~Some(Reading)'
    BY <1>14, <2>1 DEF Some, Reading
  <2>3. Owed' = {}
    <3>1. PICK T : T = Owed'
      OBVIOUS
    <3>2. IsFiniteSet(T) /\ Cardinality(T) = 0
      BY <1>18, <3>1 DEF OwedKept
    <3> QED BY <3>1, <3>2, FS_EmptySet
  <2>4. ASSUME NEW x \in Threads, wpc'[x] = "rel" PROVE FALSE
    <3>1. arg'[x] \in Nat /\ arg'[x] > 0
      BY <1>16, <1>18, <2>4 DEF OwedKept, RwTypeOK
    <3>2. <<x, 1>> \in Owed'
      BY <2>4, <3>1 DEF Owed
    <3> QED BY <2>3, <3>2
  <2> QED BY <2>1, <2>2, <2>4 DEF Some
<1>20. Some(WriteIn)' /\ One(WriteIn)' /\ Some(WriteWaits) /\ ~Some(WriteWaits)'
  BY <1>13, <1>14, <1>15 DEF Some, One, WriteIn, WriteWaits
<1>21. ReadersCounted'
  <2>1. At(Reading)' = At(Reading) /\ At(ReadWaits)' = At(ReadWaits)
    BY <1>13, <1>14 DEF At, Reading, ReadWaits
  <2>2. Num(Reading)' = Num(Reading) /\ Num(ReadWaits)' = Num(ReadWaits)
    BY <2>1 DEF Num
  <2>3. Taken(WriteIn)' = Taken(WriteWaits) /\ Taken(WriteWaits)' = Taken(WriteIn)
    BY <1>20 DEF Taken
  <2>4. wcount' = MaxReaders - Num(Reading)' - Num(ReadWaits)' - Taken(WriteWaits) - Taken(WriteIn)
    BY <1>0, <2>2, CountFacts
  <2> QED BY <2>3, <2>4 DEF ReadersCounted
<1>22. \A i \in 1 .. Len(wqueue') :
          /\ 1 + i \in 1 .. Len(wqueue) /\ 1 + i # 1
          /\ wqueue'[i].thread = wqueue[1 + i].thread
          /\ wqueue'[i].need = wqueue[1 + i].need
          /\ wpc'[wqueue'[i].thread] = wpc[wqueue[1 + i].thread]
  <2>1. \A i \in 1 .. Len(wqueue') :
           /\ 1 + i \in 1 .. Len(wqueue) /\ 1 + i - 1 \in 1 .. Len(wqueue) - 1
           /\ wqueue'[i].thread = wqueue[1 + i].thread
           /\ wqueue'[i].need = wqueue[1 + i].need - left[1 + i - 1]
           /\ wpc'[wqueue'[i].thread] = wpc[wqueue[1 + i].thread]
    BY <1>0, <1>10, <1>12, QueueAfter
  <2> SUFFICES ASSUME NEW i \in 1 .. Len(wqueue')
               PROVE  1 + i # 1 /\ wqueue'[i].need = wqueue[1 + i].need
    BY <2>1
  <2>2. /\ 1 + i - 1 \in 1 .. Len(wqueue) /\ 1 + i # 1
        /\ wqueue'[i].need = wqueue[1 + i].need - left[1 + i - 1]
    BY <1>2, <2>1
  <2>3. left[1 + i - 1] = 0
    BY <1>9, <2>2
  <2>4. wqueue[1 + i].need \in Nat
    BY <1>0, <2>1, QueueType
  <2> QED BY <2>2, <2>3, <2>4
<1>23. RwQueueKept'
  <2>1. ASSUME NEW i \in 1 .. Len(wqueue'), NEW j \in 1 .. Len(wqueue'),
               wqueue'[i].thread = wqueue'[j].thread
        PROVE  i = j
    <3>1. /\ 1 + i \in 1 .. Len(wqueue) /\ 1 + j \in 1 .. Len(wqueue)
          /\ wqueue[1 + i].thread = wqueue[1 + j].thread
      BY <1>22, <2>1
    <3>2. 1 + i = 1 + j
      BY <1>0, <3>1 DEF RwQueueKept
    <3> QED BY <3>2
  <2>2. ASSUME NEW i \in 1 .. Len(wqueue')
        PROVE  wpc'[wqueue'[i].thread] = "rwait" /\ wqueue'[i].need = 1
    <3>1. 1 + i \in 1 .. Len(wqueue) /\ 1 + i # w
      BY <1>8, <1>22
    <3>2. wpc[wqueue[1 + i].thread] = "rwait" /\ wqueue[1 + i].need = 1
      BY <1>0, <3>1 DEF RwQueueKept
    <3> QED BY <1>22, <3>2
  <2> QED BY <2>1, <2>2 DEF RwQueueKept
<1>24. WriterAlone' /\ ReadersBacked'
  BY <1>16, <1>19, <1>20 DEF WriterAlone, ReadersBacked
<1>25. WriterBacked'
  BY <1>16, <1>20, LacksNone
<1> QED BY <1>16, <1>17, <1>18, <1>21, <1>23, <1>24, <1>25 DEF RwInductive, LockPart, BenPart

(* release_sem_etc of a reader or a writer.                                *)
LEMMA UnlockReleaseStep ==
    ASSUME RwInductive, NEW t \in Threads, UnlockRelease(t)
    PROVE  RwInductive'
<1>0. wpc[t] = "rel" /\ UNCHANGED <<wcount, benVars, arg>> /\ Release(t, arg[t])
  BY DEF UnlockRelease
<1>1. RwTypeOK /\ BenPart /\ RwQueueKept /\ arg[t] \in Nat
  BY DEF RwInductive, BenPart, LockPart, RwTypeOK
<1>2. PICK left :
         /\ Hands(wqueue, arg[t], left)
         /\ \A k \in 0 .. Len(wqueue) :
               (\A i \in 1 .. Len(wqueue) : wqueue[i].need <= left[i - 1] <=> i <= k)
                  => After(t, left, k)
  BY <1>0, <1>1, ReleaseEffect
<1>3. ~Some(WriteIn)
  BY <1>0 DEF RwInductive, LockPart, WriterAlone, Some
<1>4. Len(wqueue) \in Nat
  BY <1>1, QueueType
<1>5. CASE \E i \in 1 .. Len(wqueue) : wpc[wqueue[i].thread] = "wwait"
  <2>1. PICK w \in 1 .. Len(wqueue) : wpc[wqueue[w].thread] = "wwait"
    BY <1>5
  <2>2. wqueue[w].thread \in Threads
    BY <1>1, QueueType
  <2>3. \A u \in Threads : wpc[u] \in WriteWaits => u = wqueue[w].thread
    BY <1>1, <2>1, <2>2, OneWriterWaits DEF BenHeld
  <2>4. \A i \in 1 .. Len(wqueue) : wpc[wqueue[i].thread] = "wwait" <=> i = w
    <3>1. ASSUME NEW i \in 1 .. Len(wqueue), wpc[wqueue[i].thread] = "wwait"
          PROVE  i = w
      <4>1. wqueue[i].thread = wqueue[w].thread
        BY <1>1, <2>3, <3>1, QueueType DEF WriteWaits
      <4> QED BY <1>1, <4>1 DEF RwQueueKept
    <3> QED BY <2>1, <3>1
  <2>5. ~ \E u \in Threads : wpc[u] = "wacq"
    BY <2>1, <2>3 DEF WriteWaits
  <2>6. CASE wqueue[w].need <= left[w - 1]
    BY <1>0, <1>2, <1>3, <2>4, <2>6, ReleaseToWriter
  <2>7. CASE ~(wqueue[w].need <= left[w - 1])
    <3>1. w \in 1 .. Len(wqueue) + 1
      BY <1>4
    <3>2. wqueue[w].need > left[w - 1]
      <4>1. wqueue[w].need \in Nat
        BY <1>1, QueueType
      <4>0. w - 1 \in 0 .. Len(wqueue)
        BY <1>4
      <4>2. left[w - 1] \in 0 .. arg[t]
        BY <1>2, <4>0 DEF Hands
      <4> QED BY <1>1, <2>7, <4>1, <4>2
    <3> QED BY <1>0, <1>2, <1>3, <2>4, <2>5, <3>1, <3>2, ReleaseToReaders
  <2> QED BY <2>6, <2>7
<1>6. CASE \A i \in 1 .. Len(wqueue) : wpc[wqueue[i].thread] # "wwait"
  <2>1. PICK w \in 1 .. Len(wqueue) + 1 : w = Len(wqueue) + 1
    BY <1>4
  <2>2. \A i \in 1 .. Len(wqueue) : wpc[wqueue[i].thread] = "wwait" <=> i = w
    BY <1>4, <1>6, <2>1
  <2>3. ~(w <= Len(wqueue))
    BY <1>4, <2>1
  <2> QED BY <1>0, <1>2, <1>3, <2>1, <2>2, <2>3, ReleaseToReaders
<1> QED BY <1>5, <1>6

-----------------------------------------------------------------------------
(* Count, semaphore and benaphore agree through every step.                *)
THEOREM RwInvariant == RwSpec => []RwInductive
<1>1. INIT_RW_LOCK => RwInductive
  <2> SUFFICES ASSUME INIT_RW_LOCK
               PROVE  RwInductive
    OBVIOUS
  <2>1. \A t \in Threads : wpc[t] = "out"
    BY DEF INIT_RW_LOCK
  <2>2. /\ ~Some(Reading) /\ ~Some(ReadWaits) /\ ~Some(WriteIn) /\ ~Some(WriteWaits)
        /\ ~Some(BenCounted) /\ ~Some(BenHeld) /\ ~Some({"rel"})
    BY <2>1 DEF Some, Reading, ReadWaits, WriteIn, WriteWaits, BenCounted, BenHeld
  <2>3. Num(Reading) = 0 /\ Num(ReadWaits) = 0 /\ Num(BenCounted) = 0
    BY <2>2, NumFacts
  <2>4. RwTypeOK
    BY RwLockAssumption DEF INIT_RW_LOCK, RwTypeOK, Waiting
  <2>5. ReadersCounted
    BY <2>2, <2>3, RwLockAssumption DEF INIT_RW_LOCK, ReadersCounted, Taken
  <2>6. BenaphoreKept
    BY <2>2, <2>3 DEF INIT_RW_LOCK, BenaphoreKept, One, Some
  <2>7. BenaphoreQueue
    BY DEF INIT_RW_LOCK, BenaphoreQueue, Distinct, Contains
  <2>8. wqueue = <<>> /\ Len(wqueue) = 0
    BY DEF INIT_RW_LOCK
  <2>9. RwQueueKept
    BY <2>8 DEF RwQueueKept
  <2>10. Owed = {} /\ OwedKept /\ Supply = 0
    <3>1. Owed = {}
      BY <2>1 DEF Owed
    <3> QED BY <2>1, <3>1, FS_EmptySet DEF OwedKept, Supply, INIT_RW_LOCK
  <2>11. WriterAlone /\ ReadersBacked
    BY <2>2, <2>3, <2>10 DEF WriterAlone, ReadersBacked, One, Some
  <2>12. WriterBacked
    BY <2>1, <2>8 DEF WriterBacked
  <2> QED BY <2>4, <2>5, <2>6, <2>7, <2>9, <2>10, <2>11, <2>12 DEF RwInductive, LockPart
<1>2. RwInductive /\ [RwNext]_wvars => RwInductive'
  <2> SUFFICES ASSUME RwInductive, [RwNext]_wvars
               PROVE  RwInductive'
    OBVIOUS
  <2>1. CASE RwNext
    <3>1. PICK t \in Threads : ACQUIRE_READ_LOCK(t) \/ ACQUIRE_WRITE_LOCK(t) \/ RwFinish(t)
      BY <2>1 DEF RwNext
    <3> QED BY <3>1, ReadLockStep, WriteLockStep, ReadAcquireStep, ReadUnlockStep,
               UnlockReleaseStep, BenaphoreAcquireStep, WriteSubtractStep, WriteAcquireStep,
               BenaphoreAddStep, BenaphoreReleaseStep, WriteUnlockStep DEF RwFinish
  <2>2. CASE UNCHANGED wvars
    <3>1. RwTypeOK'
      BY <2>2 DEF wvars, RwInductive, RwTypeOK
    <3>2. ReadersCounted' /\ LockPart'
      BY <2>2, LockSame DEF wvars, semVars, RwInductive
    <3>3. BenPart'
      BY <2>2, BenSame DEF wvars, benVars, RwInductive, BenPart
    <3> QED BY <3>1, <3>2, <3>3 DEF RwInductive, BenPart
  <2> QED BY <2>1, <2>2
<1> QED BY <1>1, <1>2, PTL DEF RwSpec

(* A writer is alone in the lock, and a lock that everybody has left is    *)
(* free again, with no unit and no reader forgotten between the atomic     *)
(* count, the semaphore and the benaphore.                                 *)
THEOREM RwLockKeptAlways == RwSpec => []RwLockKept
<1>1. RwInductive => RwLockKept
  <2> SUFFICES ASSUME RwInductive
               PROVE  RwLockKept
    OBVIOUS
  <2>1. RwTypeOK
    BY DEF RwInductive
  <2>2. RwExclusion
    BY DEF RwInductive, LockPart, WriterAlone, One, Some, WriteIn, Reading, RwExclusion,
           HasRead, HasWrite
  <2>3. FreeWhenOut
    <3> SUFFICES ASSUME \A t \in Threads : wpc[t] = "out"
                 PROVE  wcount = MaxReaders /\ wunits = 0 /\ bcount = 1 /\ bunits = 0
      BY DEF FreeWhenOut
    <3>1. /\ ~Some(Reading) /\ ~Some(ReadWaits) /\ ~Some(WriteIn) /\ ~Some(WriteWaits)
          /\ ~Some(BenCounted)
      BY DEF Some, Reading, ReadWaits, WriteIn, WriteWaits, BenCounted
    <3>2. Num(Reading) = 0 /\ Num(ReadWaits) = 0 /\ Num(BenCounted) = 0
      BY <3>1, NumFacts
    <3>3. wcount = MaxReaders
      BY <3>1, <3>2, RwLockAssumption DEF RwInductive, ReadersCounted, Taken
    <3>4. bcount = 1 /\ bunits = 0
      BY <3>1, <3>2 DEF RwInductive, BenaphoreKept
    <3>5. Supply = 0
      BY <3>1, <3>2 DEF RwInductive, LockPart, ReadersBacked
    <3>6. Cardinality(Owed) \in Nat /\ wunits \in Nat
      BY OwedFacts DEF RwInductive, LockPart, RwTypeOK
    <3>7. wunits = 0
      BY <3>5, <3>6 DEF Supply
    <3> QED BY <3>3, <3>4, <3>7
  <2> QED BY <2>1, <2>2, <2>3 DEF RwLockKept
<1> QED BY <1>1, RwInvariant, PTL
=============================================================================
