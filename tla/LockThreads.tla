---------------------------- MODULE LockThreads ----------------------------
(***************************************************************************)
(* The threads that use the locks of Mutex, RecursiveLock and RwLock.      *)
(***************************************************************************)
CONSTANT Threads
=============================================================================
