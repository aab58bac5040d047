-------------------------------- MODULE Port --------------------------------
(***************************************************************************)
(* The message ports of kernel/core/port.c: a table of slots, and for each *)
(* port a ring of messages and two semaphores, one that counts messages to *)
(* read and one that counts places to write.  Every call looks at the slot *)
(* under its spinlock, drops the lock, waits on a semaphore and takes the  *)
(* lock again without looking at the id again; a deletion marks the slot   *)
(* free under the lock and frees the ring and the semaphores after it.     *)
(*                                                                         *)
(* The ring and the semaphores are named after the port they were created  *)
(* for: gen[s] is the port whose pointers and semaphore ids slot s holds,  *)
(* also when that port is gone.  A semaphore behaves as in SemSpec.  Calls *)
(* with a bad id or bad arguments change nothing and are no steps.         *)
(***************************************************************************)
EXTENDS Integers, SequencesExt

CONSTANTS
    Threads, NoThread,
    MaxPorts,       \* MAX_PORTS
    MaxId,          \* bound on the ids create_port hands out
    Capacities,     \* the queue lengths ports are created with
    MaxMsgs,        \* bound on the messages ever written
    MaxUnits,       \* bound on the units a size query leaves a read_sem
    EmptyMsgs,      \* those of them that are written with buffer_size 0
    Null,           \* a NULL data_cbuf
    Garbage,        \* what memory holds before it is initialized
    Smp             \* several CPUs: a spinlock's section is not atomic

ASSUME PortAssumption ==
    /\ IsFiniteSet(Threads) /\ NoThread \notin Threads
    /\ MaxPorts \in Nat \ {0} /\ MaxId \in Nat
    /\ MaxMsgs \in Nat /\ MaxUnits \in Nat
    /\ Capacities \subseteq Nat \ {0}
    /\ EmptyMsgs \subseteq 1 .. MaxMsgs
    /\ {Null, Garbage} \cap (1 .. MaxMsgs) = {} /\ Null # Garbage
    /\ Smp \in BOOLEAN

VARIABLES
    \* struct port_entry ports[MAX_PORTS] and next_port
    pid, gen, closed, capacity, head, tail, plock, next_port,
    \* the heap: rings by port, the rings and the messages' cbufs freed
    ring, freed, freedBufs,
    \* the semaphores: whether they exist, their pools, their waiters
    live, units, waitq,
    \* each thread: where it is, the id it was given, the port whose ring or
    \* semaphore it remembers, the message or the cbuf it holds
    pc, tid, tgen, tmsg,
    \* history: messages numbered so far, those attached for each port and
    \* those read from each port
    nmsg, sent, got,
    \* the first fault of the kernel, after which nothing is modelled
    fault

slotVars == <<pid, gen, closed, capacity, head, tail, plock, next_port>>
heapVars == <<ring, freed, freedBufs>>
semVars  == <<live, units, waitq>>
histVars == <<nmsg, sent, got>>
vars == <<pid, gen, closed, capacity, head, tail, plock, next_port, ring, freed,
          freedBufs, live, units, waitq, pc, tid, tgen, tmsg, nmsg, sent, got,
          fault>>

Slots == 0 .. MaxPorts - 1
Ids   == 0 .. MaxId
Sems  == {"read", "write"} \X Ids
Messages == 1 .. MaxMsgs
Faults == {"none", "use after free", "bad free", "double free"}

(* Bound: the reads recorded for a port, which only reads without a        *)
(* message would exceed.                                                   *)
MaxReads == MaxMsgs

SlotOf(id) == id % MaxPorts
Buf(m) == IF m \in EmptyMsgs THEN Null ELSE m
Goto(t, p) == pc' = [pc EXCEPT ![t] = p]

port_init ==
    /\ pid = [s \in Slots |-> -1] /\ gen = [s \in Slots |-> 0]
    /\ closed = [s \in Slots |-> FALSE]
    /\ capacity = [s \in Slots |-> 0]
    /\ head = [s \in Slots |-> 0] /\ tail = [s \in Slots |-> 0]
    /\ plock = [s \in Slots |-> NoThread] /\ next_port = 0
    /\ ring = [p \in Ids |-> <<>>] /\ freed = {} /\ freedBufs = {}
    /\ live = [x \in Sems |-> FALSE] /\ units = [x \in Sems |-> 0]
    /\ waitq = [x \in Sems |-> <<>>]
    /\ pc = [t \in Threads |-> "run"] /\ tid = [t \in Threads |-> 0]
    /\ tgen = [t \in Threads |-> 0] /\ tmsg = [t \in Threads |-> Null]
    /\ nmsg = 0
    /\ sent = [p \in Ids |-> <<>>] /\ got = [p \in Ids |-> <<>>]
    /\ fault = "none"

-----------------------------------------------------------------------------
(* The semaphores.                                                         *)

(* acquire_sem_etc: an error for a semaphore that is gone, a unit, or a    *)
(* place in the queue.                                                     *)
Acquire(t, x, granted, waits, fails) ==
    \/ /\ ~live[x]
       /\ Goto(t, fails) /\ UNCHANGED semVars
    \/ /\ live[x] /\ units[x] > 0
       /\ units' = [units EXCEPT ![x] = @ - 1]
       /\ Goto(t, granted) /\ UNCHANGED <<live, waitq>>
    \/ /\ live[x] /\ units[x] = 0
       /\ waitq' = [waitq EXCEPT ![x] = Append(@, t)]
       /\ Goto(t, waits) /\ UNCHANGED <<live, units>>

(* Where a thread goes on when its wait is granted.                        *)
Granted(p) ==
    CASE p = "rwait" -> "rtake" [] p = "wwait" -> "wfill" [] p = "bwait" -> "bpeek"

FailedUnchecked(p) == Granted(p)

(* Where it goes on when its wait fails.  The error codes port.c looks for *)
(* (ERR_SEM_DELETED, ERR_SEM_TIMED_OUT) are not the ones a wait ends with  *)
(* (B_BAD_SEM_ID, B_TIMED_OUT, EINTR): read and write return any error,    *)
(* port_buffer_size_etc goes on as if it had the unit.                     *)
Failed(p) == IF p = "bwait" THEN "bpeek" ELSE "run"

(* release_sem by thread t, which then returns to its caller.              *)
Release(t, x) ==
    \/ /\ ~live[x]
       /\ Goto(t, "run") /\ UNCHANGED semVars
    \/ /\ live[x] /\ waitq[x] = <<>>
       /\ units' = [units EXCEPT ![x] = @ + 1]
       /\ Goto(t, "run") /\ UNCHANGED <<live, waitq>>
    \/ /\ live[x] /\ waitq[x] # <<>>
       /\ waitq' = [waitq EXCEPT ![x] = Tail(@)]
       /\ pc' = [pc EXCEPT ![t] = "run",
                           ![Head(waitq[x])] = Granted(pc[Head(waitq[x])])]
       /\ UNCHANGED <<live, units>>

(* A timeout or a kill ends a wait.                                        *)
GiveUp(t) ==
    \E x \in Sems : \E k \in 1 .. Len(waitq[x]) :
        /\ waitq[x][k] = t
        /\ waitq' = [waitq EXCEPT ![x] = RemoveAt(@, k)]
        /\ Goto(t, Failed(pc[t]))
        /\ UNCHANGED <<slotVars, heapVars, live, units, tid, tgen, tmsg,
                       histVars, fault>>

-----------------------------------------------------------------------------
(* create_port, close_port, delete_port.                                   *)

(* The smallest id >= next_port that belongs to slot i.                    *)
NextIdFor(i) ==
    LET r == next_port % MaxPorts
    IN  IF i >= r THEN next_port + (i - r) ELSE next_port + (MaxPorts - (r - i))

PlacesOneMore(cap) == cap + 1

(* The units write_sem is created with.                                    *)
Places(cap) == cap

(* The ring comes from kmalloc and is not initialized; closed is left as   *)
(* the slot's last port had it; the slot's spinlock is reset.              *)
create_port(t, i, cap) ==
    LET p == NextIdFor(i)
    IN /\ pc[t] = "run"
       /\ pid[i] = -1 /\ \A j \in Slots : j < i => pid[j] # -1
       /\ p <= MaxId
       /\ \E old \in [0 .. cap - 1 -> {Null, Garbage}] :
             ring' = [ring EXCEPT ![p] =
                        [k \in 0 .. cap - 1 |-> [code |-> Garbage, buf |-> old[k]]]]
       /\ live' = [live EXCEPT ![<<"read", p>>] = TRUE, ![<<"write", p>>] = TRUE]
       /\ units' = [units EXCEPT ![<<"write", p>>] = Places(cap)]
       /\ pid' = [pid EXCEPT ![i] = p] /\ next_port' = p + 1
       /\ gen' = [gen EXCEPT ![i] = p]
       /\ capacity' = [capacity EXCEPT ![i] = cap]
       /\ head' = [head EXCEPT ![i] = 0] /\ tail' = [tail EXCEPT ![i] = 0]
       /\ plock' = [plock EXCEPT ![i] = NoThread]
       /\ UNCHANGED <<closed, freed, freedBufs, waitq, pc, tid, tgen, tmsg,
                      histVars, fault>>

(* No free slot: name and ring are freed, and freed again under "cleanup". *)
CreateFull(t) ==
    /\ pc[t] = "run"
    /\ \A s \in Slots : pid[s] # -1
    /\ fault' = "double free"
    /\ UNCHANGED <<slotVars, heapVars, semVars, pc, tid, tgen, tmsg, histVars>>

(* What every call but create_port starts with: slot s holds the port, and *)
(* its lock is free.                                                       *)
Found(t, s) == pc[t] = "run" /\ pid[s] # -1 /\ plock[s] = NoThread

close_port(t, s) ==
    /\ Found(t, s)
    /\ closed' = [closed EXCEPT ![s] = TRUE]
    /\ UNCHANGED <<pid, gen, capacity, head, tail, plock, next_port, heapVars,
                   semVars, pc, tid, tgen, tmsg, histVars, fault>>

InvalidLate(s) == pid[s]

(* "mark port as invalid".                                                 *)
Invalid(s) == -1

(* delete_port marks the slot free, the lock held...                       *)
DeleteMark(t, s) ==
    /\ Found(t, s)
    /\ pid' = [pid EXCEPT ![s] = Invalid(s)]
    /\ plock' = [plock EXCEPT ![s] = t]
    /\ tid' = [tid EXCEPT ![t] = pid[s]]
    /\ Goto(t, "dtake")
    /\ UNCHANGED <<gen, closed, capacity, head, tail, next_port, heapVars,
                   semVars, tgen, tmsg, histVars, fault>>

(* ...then remember what the slot points to, and unlock.                   *)
DeleteTake(t) ==
    LET s == SlotOf(tid[t])
    IN /\ pc[t] = "dtake"
       /\ tgen' = [tgen EXCEPT ![t] = gen[s]]
       /\ plock' = [plock EXCEPT ![s] = NoThread]
       /\ Goto(t, "dfree")
       /\ UNCHANGED <<pid, gen, closed, capacity, head, tail, next_port,
                      heapVars, semVars, tid, tmsg, histVars, fault>>

Bufs(p) == {ring[p][k].buf : k \in DOMAIN ring[p]} \ {Null}

(* cbuf_free_chain on every entry that is not NULL, and kfree of the ring. *)
DeleteFree(t) ==
    LET p == tgen[t]
    IN /\ pc[t] = "dfree"
       /\ freed' = freed \cup {p}
       /\ freedBufs' = freedBufs \cup (Bufs(p) \cap Messages)
       /\ fault' = IF p \in freed \/ Bufs(p) \cap (freedBufs \cup {Garbage}) # {}
                   THEN "bad free" ELSE fault
       /\ Goto(t, "dread")
       /\ UNCHANGED <<slotVars, ring, semVars, tid, tgen, tmsg, histVars>>

WokenReaders(x) == IF x[1] = "read" THEN {waitq[x][k] : k \in 1 .. Len(waitq[x])} ELSE {}

(* delete_sem releases everybody who waits.                                *)
Woken(x) == {waitq[x][k] : k \in 1 .. Len(waitq[x])}

(* The two delete_sem calls, read_sem first.                               *)
DeleteSem(t) ==
    LET x == IF pc[t] = "dread" THEN <<"read", tgen[t]>> ELSE <<"write", tgen[t]>>
    IN /\ pc[t] \in {"dread", "dwrite"}
       /\ live' = [live EXCEPT ![x] = FALSE]
       /\ waitq' = [waitq EXCEPT ![x] = <<>>]
       /\ pc' = [u \in Threads |->
                    IF u = t THEN (IF pc[t] = "dread" THEN "dwrite" ELSE "run")
                    ELSE IF u \in Woken(x) THEN Failed(pc[u]) ELSE pc[u]]
       /\ UNCHANGED <<slotVars, heapVars, units, tid, tgen, tmsg, histVars, fault>>

-----------------------------------------------------------------------------
(* read_port_etc.                                                          *)

(* The id is checked and read_sem remembered.                              *)
ReadEnter(t, s) ==
    /\ Found(t, s)
    /\ tid' = [tid EXCEPT ![t] = pid[s]]
    /\ tgen' = [tgen EXCEPT ![t] = gen[s]]
    /\ Goto(t, "racq")
    /\ UNCHANGED <<slotVars, heapVars, semVars, tmsg, histVars, fault>>

ReadAcquire(t) ==
    /\ pc[t] = "racq"
    /\ Acquire(t, <<"read", tgen[t]>>, "rtake", "rwait", "run")
    /\ UNCHANGED <<slotVars, heapVars, tid, tgen, tmsg, histVars, fault>>

AfterSame(k, cap) == k
(* The place behind place k of a ring.                                     *)
After(k, cap) == (k + 1) % cap

(* The message at the tail of whatever the slot now points to.             *)
ReadTake(t) ==
    LET s == SlotOf(tid[t])
        p == gen[s]
        e == ring[p][tail[s]]
    IN /\ pc[t] = "rtake" /\ plock[s] = NoThread
       /\ p \notin freed /\ Len(got[tid[t]]) < MaxReads
       /\ tail' = [tail EXCEPT ![s] = After(@, capacity[s])]
       /\ ring' = [ring EXCEPT ![p][tail[s]].buf = Null]
       /\ tmsg' = [tmsg EXCEPT ![t] = e.buf]
       /\ tgen' = [tgen EXCEPT ![t] = p]
       /\ got' = [got EXCEPT ![tid[t]] = Append(@, e.code)]
       /\ Goto(t, "rrel")
       /\ UNCHANGED <<pid, gen, closed, capacity, head, plock, next_port, freed,
                      freedBufs, semVars, tid, nmsg, sent, fault>>

(* Copied to the caller or not, the cbuf is freed and the place given back.*)
ReadRelease(t) ==
    /\ pc[t] = "rrel"
    /\ freedBufs' = freedBufs \cup ({tmsg[t]} \cap Messages)
    /\ fault' = IF tmsg[t] \in freedBufs \cup {Garbage} THEN "bad free" ELSE fault
    /\ Release(t, <<"write", tgen[t]>>)
    /\ UNCHANGED <<slotVars, ring, freed, tid, tgen, tmsg, histVars>>

-----------------------------------------------------------------------------
(* write_port_etc.                                                         *)

WriteEnter(t, s) ==
    /\ Found(t, s) /\ ~closed[s]
    /\ nmsg < MaxMsgs
    /\ nmsg' = nmsg + 1
    /\ tmsg' = [tmsg EXCEPT ![t] = nmsg + 1]
    /\ tid' = [tid EXCEPT ![t] = pid[s]]
    /\ tgen' = [tgen EXCEPT ![t] = gen[s]]
    /\ Goto(t, "wacq")
    /\ UNCHANGED <<slotVars, heapVars, semVars, sent, got, fault>>

WriteAcquire(t) ==
    /\ pc[t] = "wacq"
    /\ Acquire(t, <<"write", tgen[t]>>, "wfill", "wwait", "run")
    /\ UNCHANGED <<slotVars, heapVars, tid, tgen, tmsg, histVars, fault>>

(* No cbufs, or the caller's memory cannot be read: the call returns and   *)
(* the place it took is not given back.                                    *)
WriteFail(t) ==
    /\ pc[t] = "wfill" /\ tmsg[t] \notin EmptyMsgs
    /\ Goto(t, "run")
    /\ UNCHANGED <<slotVars, heapVars, semVars, tid, tgen, tmsg, histVars, fault>>

(* "attach copied message to queue", at the head of whatever the slot now  *)
(* points to.                                                              *)
WriteAttach(t) ==
    LET s == SlotOf(tid[t])
        p == gen[s]
    IN /\ pc[t] = "wfill" /\ plock[s] = NoThread
       /\ p \notin freed
       /\ ring' = [ring EXCEPT ![p][head[s]] =
                       [code |-> tmsg[t], buf |-> Buf(tmsg[t])]]
       /\ head' = [head EXCEPT ![s] = After(@, capacity[s])]
       /\ tgen' = [tgen EXCEPT ![t] = p]
       /\ sent' = [sent EXCEPT ![tid[t]] = Append(@, tmsg[t])]
       /\ Goto(t, "wrel")
       /\ UNCHANGED <<pid, gen, closed, capacity, tail, plock, next_port, freed,
                      freedBufs, semVars, tid, tmsg, nmsg, got, fault>>

WriteRelease(t) ==
    /\ pc[t] = "wrel"
    /\ Release(t, <<"read", tgen[t]>>)
    /\ UNCHANGED <<slotVars, heapVars, tid, tgen, tmsg, histVars, fault>>

-----------------------------------------------------------------------------
(* port_buffer_size_etc: it takes a unit of read_sem and puts it back.     *)

BufferEnter(t, s) ==
    /\ Found(t, s)
    /\ tid' = [tid EXCEPT ![t] = pid[s]]
    /\ Goto(t, "bacq")
    /\ UNCHANGED <<slotVars, heapVars, semVars, tgen, tmsg, histVars, fault>>

(* The semaphore is the one the slot names after the lock was dropped.     *)
BufferAcquire(t) ==
    /\ pc[t] = "bacq"
    /\ Acquire(t, <<"read", gen[SlotOf(tid[t])]>>, "bpeek", "bwait", "bpeek")
    /\ UNCHANGED <<slotVars, heapVars, tid, tgen, tmsg, histVars, fault>>

(* The length of an entry is returned, the one at head and not at tail.    *)
BufferPeek(t) ==
    LET s == SlotOf(tid[t])
    IN /\ pc[t] = "bpeek" /\ plock[s] = NoThread
       /\ gen[s] \notin freed /\ units[<<"read", gen[s]>>] < MaxUnits
       /\ Release(t, <<"read", gen[s]>>)
       /\ UNCHANGED <<slotVars, heapVars, tid, tgen, tmsg, histVars, fault>>

(* The ring is gone when a thread comes back from its semaphore.           *)
DeadRing(t) ==
    LET s == SlotOf(tid[t])
    IN /\ pc[t] \in {"rtake", "wfill", "bpeek"} /\ plock[s] = NoThread
       /\ gen[s] \in freed
       /\ fault' = "use after free"
       /\ UNCHANGED <<slotVars, heapVars, semVars, pc, tid, tgen, tmsg, histVars>>

-----------------------------------------------------------------------------
(* The calls.                                                              *)
Call(t) ==
    \/ \E i \in Slots, cap \in Capacities : create_port(t, i, cap)
    \/ CreateFull(t)
    \/ \E s \in Slots : \/ close_port(t, s) \/ DeleteMark(t, s)
                        \/ ReadEnter(t, s) \/ WriteEnter(t, s)
                        \/ BufferEnter(t, s)

(* A thread that is inside a call goes on.                                 *)
Finish(t) ==
    \/ DeleteTake(t) \/ DeleteFree(t) \/ DeleteSem(t)
    \/ ReadAcquire(t) \/ ReadTake(t) \/ ReadRelease(t)
    \/ WriteAcquire(t) \/ WriteFail(t) \/ WriteAttach(t) \/ WriteRelease(t)
    \/ BufferAcquire(t) \/ BufferPeek(t) \/ DeadRing(t)

(* On one CPU nobody runs while a thread has interrupts disabled.          *)
MayRun(t) == fault = "none" /\ (Smp \/ \A u \in Threads \ {t} : pc[u] # "dtake")

Next == \E t \in Threads : MayRun(t) /\ (Call(t) \/ Finish(t) \/ GiveUp(t))

Spec == port_init /\ [][Next]_vars

(* Threads run on when they can.                                           *)
LiveSpec == Spec /\ \A t \in Threads : WF_vars(MayRun(t) /\ Finish(t))

(* Callers that keep their ports: nobody deletes one, the table has room,  *)
(* and port_buffer_size_etc waits without timeout and is not killed.       *)
NobodyDeletes == \A t \in Threads : pc'[t] = "dtake" => pc[t] = "dtake"
TableHasRoom == fault' # "double free"
SizeWaits ==
    \A t \in Threads : pc[t] = "bwait" /\ pc'[t] = "bpeek" =>
       \E u \in Threads \ {t} : pc'[u] # pc[u]
NextKeep == Next /\ NobodyDeletes /\ TableHasRoom /\ SizeWaits
SpecKeep == port_init /\ [][NextKeep]_vars

-----------------------------------------------------------------------------
PortTypeOK ==
    /\ pid \in [Slots -> Ids \cup {-1}] /\ gen \in [Slots -> Ids]
    /\ closed \in [Slots -> BOOLEAN] /\ capacity \in [Slots -> Nat]
    /\ head \in [Slots -> Nat] /\ tail \in [Slots -> Nat]
    /\ plock \in [Slots -> Threads \cup {NoThread}] /\ next_port \in Nat
    /\ freed \subseteq Ids /\ freedBufs \subseteq Messages
    /\ live \in [Sems -> BOOLEAN] /\ units \in [Sems -> Nat]
    /\ waitq \in [Sems -> Seq(Threads)]
    /\ pc \in [Threads -> {"run", "racq", "rwait", "rtake", "rrel", "wacq",
                           "wwait", "wfill", "wrel", "bacq", "bwait", "bpeek",
                           "dtake", "dfree", "dread", "dwrite"}]
    /\ tid \in [Threads -> Ids] /\ tgen \in [Threads -> Ids]
    /\ nmsg \in 0 .. MaxMsgs
    /\ fault \in Faults

(* What one port promises: its readers together get the messages written   *)
(* to it, each once and in the order they were attached, and nothing else, *)
(* however many readers and writers are between a semaphore and the ring.  *)
ReadInOrder ==
    \A p \in Ids : /\ Len(got[p]) <= Len(sent[p])
                   /\ got[p] = SubSeq(sent[p], 1, Len(got[p]))

At(points, p) == {t \in Threads : pc[t] \in points /\ tgen[t] = p}

(* The permissions to write never exceed the free entries of the ring, so  *)
(* that no writer overwrites a message nobody has read.                    *)
PlacesBacked ==
    \A s \in Slots : pid[s] # -1 =>
        units[<<"write", pid[s]>>] + Cardinality(At({"wfill", "rrel"}, pid[s]))
            + Len(sent[pid[s]]) - Len(got[pid[s]]) <= capacity[s]

(* The permissions to read are exactly the messages in the ring: a unit in *)
(* the pool, one that a reader or port_buffer_size_etc holds, or one that  *)
(* a writer is about to release.                                           *)
MessagesBacked ==
    \A s \in Slots : pid[s] # -1 =>
        units[<<"read", pid[s]>>] + Cardinality(At({"rtake", "wrel"}, pid[s]))
            + Cardinality({t \in Threads : pc[t] = "bpeek" /\ tid[t] = pid[s]})
            = Len(sent[pid[s]]) - Len(got[pid[s]])

(* Both semaphores of a port agree with its ring, through reads and writes *)
(* that are under way or have failed, and size queries under way.  (One    *)
(* whose wait fails releases a unit it never had: SizeWaits leaves it out.)*)
UnitsBacked == PlacesBacked /\ MessagesBacked

(* The ring of a port that exists is allocated.                            *)
LivePortHasRing == \A s \in Slots : pid[s] # -1 => gen[s] \notin freed

(* create_port and delete_port, racing in one slot with reads and writes,  *)
(* leave the table well formed and every port in it with its own ring.     *)
PortTableKept == PortTypeOK /\ LivePortHasRing

(* Nobody stays in a queue of a port that was deleted: delete_port         *)
(* releases "the threads that were blocking on this port", those that      *)
(* wait to read, to write or for port_buffer_size_etc.                     *)
Waits(t, p) == \E k \in {"read", "write"} : Contains(waitq[<<k, p>>], t)
DeletionWakes ==
    \A t \in Threads :
        (\E p \in Ids \ {pid[s] : s \in Slots} : Waits(t, p))
            ~> (pc[t] \notin {"rwait", "wwait", "bwait"} \/ fault # "none")

(* Nothing reads, writes or frees memory that is not there.                *)
NoPortFault == fault = "none"

(* read_port_etc and write_port_etc ("possible race condition if port gets *)
(* deleted [...] therefore sem_id is cached"): a deletion in between does  *)
(* not leave them with a ring that was freed.                              *)
NoUseAfterFree == fault # "use after free"
=============================================================================
