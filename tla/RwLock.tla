------------------------------- MODULE RwLock -------------------------------
(***************************************************************************)
(* The read/write lock of private/kernel/lock.h and the benaphore inside   *)
(* it: an atomic count that starts at MAX_READERS, from which every reader *)
(* takes one and every writer MAX_READERS, and a semaphore for those who   *)
(* find it too low.  The benaphore writeLock lets one writer at a time try *)
(* to lock, and is released again before the writer writes.  The count and *)
(* the semaphores are touched in separate steps.  The semaphores are FIFO  *)
(* and may be asked for several units at once, as in Sem.  Nobody is       *)
(* killed here: the macros ignore that a kill ends the wait.               *)
(***************************************************************************)
EXTENDS LockThreads, Integers, Sequences, SequencesExt

CONSTANT MaxReaders

(* There are always fewer threads than MAX_READERS.                        *)
ASSUME RwLockAssumption ==
    MaxReaders \in Nat /\ IsFiniteSet(Threads) /\ Cardinality(Threads) < MaxReaders

VARIABLES
    wcount,      \* lock.count
    wunits,      \* the pool of lock.sem
    wqueue,      \* its waiters, with the units each still lacks
    bcount,     \* lock.writeLock.count
    bunits,     \* the pool of lock.writeLock.sem
    bqueue,     \* its waiters
    wpc,         \* where each thread is
    arg         \* the units it is about to acquire or release

semVars == <<wunits, wqueue>>
benVars == <<bcount, bunits, bqueue>>
wvars == <<wcount, wunits, wqueue, bcount, bunits, bqueue, wpc, arg>>

Goto(t, p) == wpc' = [wpc EXCEPT ![t] = p]

INIT_RW_LOCK ==
    /\ wcount = MaxReaders /\ wunits = 0 /\ wqueue = <<>>
    /\ bcount = 1 /\ bunits = 0 /\ bqueue = <<>>
    /\ wpc = [t \in Threads |-> "out"]
    /\ arg = [t \in Threads |-> 0]

-----------------------------------------------------------------------------
(* lock.sem.                                                               *)

(* acquire_sem_etc(lock.sem, n): at once, or at the end of the queue with  *)
(* what the pool has.                                                      *)
Acquire(t, n, got, waits) ==
    \/ /\ wunits >= n
       /\ wunits' = wunits - n /\ UNCHANGED wqueue
       /\ Goto(t, got)
    \/ /\ wunits < n
       /\ wunits' = 0 /\ wqueue' = Append(wqueue, [thread |-> t, need |-> n - wunits])
       /\ Goto(t, waits)

(* release_sem_etc(lock.sem, n) by a thread that is then out of the lock.  *)
(* left[i]: what is left of the n units after i waiters.  Those who get    *)
(* all that they lack come first; they leave the queue.                    *)
Release(t, n) ==
    \E left \in [0 .. Len(wqueue) -> 0 .. n] :
        LET Served(i) == wqueue[i].need <= left[i - 1]
            served == {i \in DOMAIN wqueue : Served(i)}
            woken == {wqueue[i].thread : i \in served}
            gone == Cardinality(served)
        IN /\ left[0] = n
           /\ \A i \in DOMAIN wqueue :
                 left[i] = IF Served(i) THEN left[i - 1] - wqueue[i].need ELSE 0
           /\ wunits' = wunits + left[Len(wqueue)]
           /\ wqueue' = [i \in 1 .. Len(wqueue) - gone |->
                           [wqueue[gone + i] EXCEPT !.need = @ - left[gone + i - 1]]]
           /\ wpc' = [u \in Threads |->
                       IF u = t THEN "out"
                       ELSE IF u \notin woken THEN wpc[u]
                       ELSE IF wpc[u] = "rwait" THEN "reading" ELSE "wben"]

-----------------------------------------------------------------------------
(* Readers.                                                                *)

ACQUIRE_READ_LOCK(t) ==
    /\ wpc[t] = "out"
    /\ wcount' = wcount - 1
    /\ Goto(t, IF wcount <= 0 THEN "racq" ELSE "reading")
    /\ UNCHANGED <<semVars, benVars, arg>>

ReadAcquire(t) ==
    /\ wpc[t] = "racq"
    /\ Acquire(t, 1, "reading", "rwait")
    /\ UNCHANGED <<wcount, benVars, arg>>

(* A reader that leaves finds a writer waiting.                            *)
ReadWanted(old) == old < 0

RELEASE_READ_LOCK(t) ==
    /\ wpc[t] = "reading"
    /\ wcount' = wcount + 1
    /\ Goto(t, IF ReadWanted(wcount) THEN "rel" ELSE "out")
    /\ arg' = [arg EXCEPT ![t] = 1]
    /\ UNCHANGED <<semVars, benVars>>

(* The release_sem_etc of a reader or of a writer.                         *)
UnlockRelease(t) ==
    /\ wpc[t] = "rel"
    /\ Release(t, arg[t])
    /\ UNCHANGED <<wcount, benVars, arg>>

-----------------------------------------------------------------------------
(* Writers: the benaphore first.                                           *)

ACQUIRE_WRITE_LOCK(t) ==
    /\ wpc[t] = "out"
    /\ bcount' = bcount - 1
    /\ Goto(t, IF bcount <= 0 THEN "bacq" ELSE "wsub")
    /\ UNCHANGED <<wcount, semVars, bunits, bqueue, arg>>

BenaphoreAcquire(t) ==
    /\ wpc[t] = "bacq"
    /\ \/ /\ bunits > 0 /\ bunits' = bunits - 1
          /\ Goto(t, "wsub") /\ UNCHANGED bqueue
       \/ /\ bunits = 0 /\ bqueue' = Append(bqueue, t)
          /\ Goto(t, "bwait") /\ UNCHANGED bunits
    /\ UNCHANGED <<wcount, semVars, bcount, arg>>

WriterNeedsOne(old) == 1

(* The units a writer asks for: one per reader, or the one of the writer   *)
(* before it.                                                              *)
WriterNeeds(old) == IF old <= 0 THEN 1 ELSE MaxReaders - old

WriteSubtract(t) ==
    /\ wpc[t] = "wsub"
    /\ wcount' = wcount - MaxReaders
    /\ arg' = [arg EXCEPT ![t] = WriterNeeds(wcount)]
    /\ Goto(t, IF wcount < MaxReaders THEN "wacq" ELSE "wben")
    /\ UNCHANGED <<semVars, benVars>>

WriteAcquire(t) ==
    /\ wpc[t] = "wacq"
    /\ Acquire(t, arg[t], "wben", "wwait")
    /\ UNCHANGED <<wcount, benVars, arg>>

(* RELEASE_BENAPHORE, the lock held.                                       *)
BenaphoreAdd(t) ==
    /\ wpc[t] = "wben"
    /\ bcount' = bcount + 1
    /\ Goto(t, IF bcount < 0 THEN "brel" ELSE "writing")
    /\ UNCHANGED <<wcount, semVars, bunits, bqueue, arg>>

BenaphoreRelease(t) ==
    /\ wpc[t] = "brel"
    /\ \/ /\ bqueue # <<>> /\ bqueue' = Tail(bqueue)
          /\ wpc' = [wpc EXCEPT ![t] = "writing", ![Head(bqueue)] = "wsub"]
          /\ UNCHANGED bunits
       \/ /\ bqueue = <<>> /\ bunits' = bunits + 1
          /\ Goto(t, "writing") /\ UNCHANGED bqueue
    /\ UNCHANGED <<wcount, semVars, bcount, arg>>

(* The units a writer releases: one to the writer behind it and whoever is *)
(* before that one, or one per waiting reader.                             *)
WriterGives(old) == IF old <= -MaxReaders THEN 1 ELSE -old

RELEASE_WRITE_LOCK(t) ==
    /\ wpc[t] = "writing"
    /\ wcount' = wcount + MaxReaders
    /\ arg' = [arg EXCEPT ![t] = WriterGives(wcount)]
    /\ Goto(t, IF wcount < 0 THEN "rel" ELSE "out")
    /\ UNCHANGED <<semVars, benVars>>

RwFinish(t) ==
    \/ ReadAcquire(t) \/ RELEASE_READ_LOCK(t) \/ UnlockRelease(t)
    \/ BenaphoreAcquire(t) \/ WriteSubtract(t) \/ WriteAcquire(t)
    \/ BenaphoreAdd(t) \/ BenaphoreRelease(t) \/ RELEASE_WRITE_LOCK(t)

RwNext == \E t \in Threads :
            ACQUIRE_READ_LOCK(t) \/ ACQUIRE_WRITE_LOCK(t) \/ RwFinish(t)

RwSpec == INIT_RW_LOCK /\ [][RwNext]_wvars

(* Every thread runs on and leaves its critical section.                   *)
RwFairness == \A t \in Threads : WF_wvars(RwFinish(t))

-----------------------------------------------------------------------------
Waiting == {"racq", "rwait", "bacq", "bwait", "wacq", "wwait"}

RwTypeOK ==
    /\ wcount \in Int /\ wunits \in Nat /\ bcount \in Int /\ bunits \in Nat
    /\ wqueue \in Seq([thread : Threads, need : Nat \ {0}])
    /\ bqueue \in Seq(Threads)
    /\ wpc \in [Threads -> Waiting \cup
                 {"out", "reading", "rel", "wsub", "wben", "brel", "writing"}]
    /\ arg \in [Threads -> Nat]

HasRead(t)  == wpc[t] = "reading"
HasWrite(t) == wpc[t] \in {"wben", "brel", "writing"}

(* A writer is alone: no reader and no other writer is in the lock.        *)
RwExclusion ==
    \A t, u \in Threads : HasWrite(t) /\ (HasRead(u) \/ HasWrite(u)) => t = u

(* The count tells exactly who has taken it down, and the lock is free     *)
(* again when everybody is out of it.                                      *)
FreeWhenOut ==
    (\A t \in Threads : wpc[t] = "out") =>
        wcount = MaxReaders /\ wunits = 0 /\ bcount = 1 /\ bunits = 0

(* Between the atomic count, the semaphore and the benaphore the macros    *)
(* keep writers alone and forget neither a reader nor a unit.              *)
RwLockKept == RwTypeOK /\ RwExclusion /\ FreeWhenOut

(* Every reader and every writer gets in.                                  *)
RwGranted ==
    /\ \A t \in Threads : (wpc[t] \in {"racq", "rwait"}) ~> HasRead(t)
    /\ \A t \in Threads :
          (wpc[t] \in {"bacq", "bwait", "wsub", "wacq", "wwait"}) ~> HasWrite(t)
=============================================================================
