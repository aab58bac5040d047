------------------------------ MODULE MCLocks ------------------------------
(***************************************************************************)
(* The three locks and the looper with its own lock for TLC, in one run:   *)
(* a behaviour is one of the part that it chose at its start, and the      *)
(* others stay as they were made.  Only a looper that has quit may come to *)
(* rest.                                                                   *)
(***************************************************************************)
EXTENDS Mutex, RecursiveLock, RwLock, Looper

VARIABLE part   \* the part that is used

locksVars == <<part, mvars, rvars, wvars, looperVars>>

LocksInit ==
    /\ part \in {"mutex", "recursive", "rw", "looper"}
    /\ mutex_init /\ recursive_lock_create /\ INIT_RW_LOCK /\ InitData

LocksNext ==
    \/ part = "mutex" /\ MutexNext /\ UNCHANGED <<part, rvars, wvars, looperVars>>
    \/ part = "recursive" /\ RecursiveNext /\ UNCHANGED <<part, mvars, wvars, looperVars>>
    \/ part = "rw" /\ RwNext /\ UNCHANGED <<part, mvars, rvars, looperVars>>
    \/ part = "looper" /\ LooperNext /\ UNCHANGED <<part, mvars, rvars, wvars>>
    \/ part = "looper" /\ UNCHANGED locksVars

(* The fairness of each part while it is used: none stops another part.    *)
LockFair ==
    \A t \in Threads :
       /\ WF_mvars(part = "mutex" /\ (MutexAcquireSem(t) \/ mutex_unlock(t) \/ MutexReleaseSem(t)))
       /\ WF_rvars(part = "recursive" /\ RecursiveFinish(t))
       /\ SF_rvars(part = "recursive" /\ recursive_lock_unlock(t) /\ depth[t] = 1)
       /\ WF_wvars(part = "rw" /\ RwFinish(t))
LooperFair ==
    /\ WF_looperVars(part = "looper" /\ TaskStep)
    /\ \A t \in Users : WF_looperVars(part = "looper" /\ CallStep(t))
    /\ \A t \in Clients :
          /\ WF_looperVars(part = "looper" /\ at[t] = "run" /\ Unlock(t, "run"))
          /\ SF_looperVars(part = "looper" /\ at[t] = "run" /\ fOwnerCount = 1 /\ Unlock(t, "run"))

LocksSpec ==
    /\ LocksInit /\ [][LocksNext]_locksVars
    /\ LockFair /\ LooperFair

(* mutex_lock, recursive_lock_lock, ACQUIRE_READ_LOCK and                  *)
(* ACQUIRE_WRITE_LOCK return.                                              *)
LocksGranted == LockGranted /\ RecursiveLockGranted /\ RwGranted
=============================================================================
