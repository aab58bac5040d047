-------------------------------- MODULE Sem --------------------------------
(***************************************************************************)
(* The kernel semaphores of kernel/core/sem.c together with the parts of   *)
(* thread.c and timer.c that block, wake and switch threads for them:      *)
(* acquire_sem_etc, release_sem_etc, create_sem_etc, delete_sem_etc, the   *)
(* sem_timeout timer handler, deliver_signal/sem_interrupt_thread, and     *)
(* thread_resched.                                                         *)
(*                                                                         *)
(* A step is what one CPU does between two points where another CPU can    *)
(* observe it: each critical section of a semaphore's spinlock or of the   *)
(* thread spinlock is one step, and the loops over a wait queue take one   *)
(* step per iteration while the spinlock stays held.  cpc[c] # "run" means *)
(* that CPU c is inside the kernel with interrupts disabled, so that       *)
(* neither a timer nor a preemption can come in on c.  A call that returns *)
(* early without changing state (bad id, bad count, immediate timeout) is  *)
(* no step.                                                                *)
(***************************************************************************)
EXTENDS Integers, Sequences, FiniteSets

CONSTANTS
    Threads,        \* the user threads (each CPU also has an idle thread)
    Cpus,           \* 1 CPU: the uniprocessor build; 2: the SMP build
    NoThread,       \* NULL thread pointer; as the current thread: idle
    NoCpu,          \* "nobody": a free spinlock, a timer that is not armed
    MaxSems,        \* MAX_SEMS, the size of the semaphore table
    MaxId,          \* bound on the ids create_sem_etc hands out
    MaxCount,       \* bound on a semaphore's count
    InitCounts,     \* the counts semaphores are created with
    AcquireCounts,  \* the counts callers acquire
    ReleaseCounts,  \* the counts callers release
    FlagSets        \* the flags callers pass to acquire_sem_etc

AcquireFlags == {"B_CAN_INTERRUPT", "B_TIMEOUT", "B_ABSOLUTE_TIMEOUT"}

ASSUME SemAssumption ==
    /\ NoThread \notin Threads
    /\ NoCpu \notin Cpus
    /\ MaxSems \in Nat \ {0}
    /\ InitCounts \subseteq Int
    /\ AcquireCounts \subseteq Nat \ {0}
    /\ ReleaseCounts \subseteq Nat \ {0}
    /\ FlagSets \subseteq SUBSET AcquireFlags

VARIABLES
    \* struct sem_entry sems[MAX_SEMS] and next_sem
    sid, scount, sq, slock, next_sem,
    \* each CPU: its thread, where it is in the kernel, that path's locals
    cur, cpc, lslot, ln, lq, lt,
    \* the thread spinlock and the run queues (as a set: any priorities)
    tlock, runq,
    \* struct thread
    state, nstate, tpc, flags, blk, acq, need, err, sigkill,
    \* the CPU on whose list the thread's timer event is
    timer,
    \* the first fault of the kernel, after which nothing is modelled
    fault

semVars    == <<sid, scount, sq, slock, next_sem>>
cpuVars    == <<cur, cpc, lslot, ln, lq, lt>>
schedVars  == <<tlock, runq>>
threadVars == <<state, nstate, tpc, flags, blk, acq, need, err, sigkill>>
vars == <<sid, scount, sq, slock, next_sem, cur, cpc, lslot, ln, lq, lt, tlock,
          runq, state, nstate, tpc, flags, blk, acq, need, err, sigkill,
          timer, fault>>

Slots  == 0 .. MaxSems - 1
Errors == {"B_NO_ERROR", "B_BAD_SEM_ID", "B_TIMED_OUT", "EINTR"}
States == {"RUNNING", "READY", "WAITING"}

(* Where a CPU is.  "acq", "relq", "delq", "tmoq" wait for the thread      *)
(* spinlock; "acqkill", "kill" hold it and wait for a semaphore's; "rel",  *)
(* "del", "tmor", "acqr", "killr" are loops that hold a semaphore's.       *)
Points == {"run", "acq", "acqkill", "acqr", "acqq", "woken", "null", "rel",
           "relq", "del", "delq", "tmo", "tmor", "tmoq", "kill", "killr",
           "killq"}

SlotOf(id) == id % MaxSems
Elems(s)   == {s[i] : i \in 1 .. Len(s)}
MinOf(a, b) == IF a <= b THEN a ELSE b

(* thread_dequeue_id: the queue without thread t.                          *)
Without(q, t) ==
    LET k == CHOOSE i \in 1 .. Len(q) : q[i] = t
    IN  [j \in 1 .. Len(q) - 1 |-> IF j < k THEN q[j] ELSE q[j + 1]]

-----------------------------------------------------------------------------
Init ==
    /\ sid = [s \in Slots |-> -1]
    /\ scount = [s \in Slots |-> 0]
    /\ sq = [s \in Slots |-> <<>>]
    /\ slock = [s \in Slots |-> NoCpu]
    /\ next_sem = 0
    /\ cur = [c \in Cpus |-> NoThread]
    /\ cpc = [c \in Cpus |-> "run"]
    /\ lslot = [c \in Cpus |-> 0]
    /\ ln = [c \in Cpus |-> 0]
    /\ lq = [c \in Cpus |-> {}]
    /\ lt = [c \in Cpus |-> NoThread]
    /\ tlock = NoCpu
    /\ runq = Threads
    /\ state = [t \in Threads |-> "READY"]
    /\ nstate = [t \in Threads |-> "READY"]
    /\ tpc = [t \in Threads |-> "run"]
    /\ flags = [t \in Threads |-> {}]
    /\ blk = [t \in Threads |-> -1]
    /\ acq = [t \in Threads |-> 0]
    /\ need = [t \in Threads |-> 0]
    /\ err = [t \in Threads |-> "B_NO_ERROR"]
    /\ sigkill = [t \in Threads |-> FALSE]
    /\ timer = [t \in Threads |-> NoCpu]
    /\ fault = "none"

-----------------------------------------------------------------------------
(* The scheduler.                                                          *)

PoolWithWaiting(c, ready) == runq \cup ready \cup {t \in Threads : t = cur[c]}
PoolWithoutCurrent(c, ready) == runq \cup ready
(* The run queues when thread_resched looks at them on CPU c, after the    *)
(* threads in `ready' were put into them: the current thread goes back to  *)
(* a run queue unless its next_state is WAITING.                           *)
Pool(c, ready) ==
    runq \cup ready \cup {t \in Threads : t = cur[c] /\ nstate[t] = "READY"}

(* thread_resched on CPU c, the thread spinlock held.  Any thread of a run *)
(* queue may be next, because the priorities and the random skip decide,   *)
(* and the idle thread is next only when there is no other.  Picking a     *)
(* thread that still runs on another CPU resumes it from a context that    *)
(* was never saved.                                                        *)
Resched(c, ready) ==
    \E next \in Pool(c, ready) \cup {NoThread} :
        /\ next = NoThread => Pool(c, ready) = {}
        /\ runq' = Pool(c, ready) \ {next}
        /\ state' = [t \in Threads |->
                        IF t = next THEN "RUNNING"
                        ELSE IF t = cur[c] THEN nstate[t] ELSE state[t]]
        /\ nstate' = [t \in Threads |->
                        IF t = next THEN "READY" ELSE nstate[t]]
        /\ cur' = [cur EXCEPT ![c] = next]
        /\ cpc' = [cpc EXCEPT ![c] = IF next = NoThread THEN "run"
                                     ELSE tpc[next]]
        /\ fault' = IF next # NoThread /\ \E d \in Cpus \ {c} : cur[d] = next
                    THEN "twice" ELSE fault

(* The quantum timer or a reschedule ICI: reschedule_event, then           *)
(* thread_resched on the way out of the interrupt.                         *)
Preempt(c) ==
    /\ cpc[c] = "run"
    /\ tlock = NoCpu
    /\ Resched(c, {})
    /\ UNCHANGED <<semVars, lslot, ln, lq, lt, tlock, tpc, flags, blk, acq,
                   need, err, sigkill, timer>>

-----------------------------------------------------------------------------
(* create_sem_etc and delete_sem_etc.                                      *)

(* The id arithmetic of create_sem_etc: the smallest id >= next_sem that   *)
(* belongs to slot i.                                                      *)
NextIdFor(i) ==
    LET r == next_sem % MaxSems
    IN  IF i >= r THEN next_sem + (i - r) ELSE next_sem + (MaxSems - (r - i))

create_sem_etc(c, i, count) ==
    /\ cpc[c] = "run" /\ cur[c] # NoThread
    /\ sid[i] = -1 /\ \A j \in Slots : j < i => sid[j] # -1
    /\ NextIdFor(i) <= MaxId
    /\ sid' = [sid EXCEPT ![i] = NextIdFor(i)]
    /\ next_sem' = NextIdFor(i) + 1
    /\ sq' = [sq EXCEPT ![i] = <<>>]
    /\ scount' = [scount EXCEPT ![i] = count]
    /\ UNCHANGED <<slock, cpuVars, schedVars, threadVars, timer, fault>>

(* delete_sem_etc up to its loop.                                          *)
DeleteEnter(c, s) ==
    /\ cpc[c] = "run" /\ cur[c] # NoThread
    /\ sid[s] # -1 /\ slock[s] = NoCpu
    /\ slock' = [slock EXCEPT ![s] = c]
    /\ cpc' = [cpc EXCEPT ![c] = "del"]
    /\ lslot' = [lslot EXCEPT ![c] = s]
    /\ UNCHANGED <<sid, scount, sq, next_sem, cur, ln, lq, lt, schedVars,
                   threadVars, timer, fault>>

(* One iteration of "free any threads waiting for this semaphore".         *)
DeleteWaiter(c) ==
    LET s == lslot[c]
        t == Head(sq[s])
    IN /\ cpc[c] = "del"
       /\ sq[s] # <<>>
       /\ sq' = [sq EXCEPT ![s] = Tail(@)]
       /\ lq' = [lq EXCEPT ![c] = @ \cup {t}]
       /\ state' = [state EXCEPT ![t] = "READY"]
       /\ err' = [err EXCEPT ![t] = "B_BAD_SEM_ID"]
       /\ need' = [need EXCEPT ![t] = 0]
       /\ UNCHANGED <<sid, scount, slock, next_sem, cur, cpc, lslot, ln, lt,
                      schedVars, nstate, tpc, flags, blk, acq, sigkill,
                      timer, fault>>

DrainedAlways(s) == TRUE

(* The loop of delete_sem_etc runs until the wait queue is empty.          *)
Drained(s) == sq[s] = <<>>

(* The slot becomes free and its lock is dropped.                          *)
DeleteEntry(c) ==
    LET s == lslot[c]
    IN /\ cpc[c] = "del"
       /\ Drained(s)
       /\ sid' = [sid EXCEPT ![s] = -1]
       /\ slock' = [slock EXCEPT ![s] = NoCpu]
       /\ cpc' = [cpc EXCEPT ![c] = IF lq[c] = {} THEN "run" ELSE "delq"]
       /\ UNCHANGED <<scount, sq, next_sem, cur, lslot, ln, lq, lt, schedVars,
                      threadVars, timer, fault>>

(* The tail of delete_sem_etc: wake the released threads and reschedule.   *)
DeleteWake(c) ==
    /\ cpc[c] = "delq" /\ tlock = NoCpu
    /\ lq' = [lq EXCEPT ![c] = {}]
    /\ Resched(c, lq[c])
    /\ UNCHANGED <<semVars, lslot, ln, lt, tlock, tpc, flags, blk, acq, need,
                   err, sigkill, timer>>

-----------------------------------------------------------------------------
(* acquire_sem_etc.                                                        *)

(* acquire_sem_etc arms a timer for a relative or an absolute timeout.     *)
Timed(f) == f \cap {"B_TIMEOUT", "B_ABSOLUTE_TIMEOUT"} # {}

(* Enough units: the thread takes them and returns.                        *)
AcquireTake(c, s, n) ==
    /\ cpc[c] = "run" /\ cur[c] # NoThread
    /\ sid[s] # -1 /\ slock[s] = NoCpu
    /\ scount[s] - n >= 0
    /\ scount' = [scount EXCEPT ![s] = @ - n]
    /\ UNCHANGED <<sid, sq, slock, next_sem, cpuVars, schedVars, threadVars,
                   timer, fault>>

NeedAll(s, n) == n - scount[s]

(* The units the thread still lacks once the count was reduced by n:       *)
(* min(-count, n), "the count we need to restore upon release".            *)
Need(s, n) == MinOf(n - scount[s], n)

(* Not enough: the thread enters the wait queue, arms its timer and drops  *)
(* the semaphore's lock.  A pending kill of an interruptible wait returns  *)
(* EINTR instead and leaves everything as it was.                          *)
AcquireBlock(c, s, n, f) ==
    LET t == cur[c]
    IN /\ cpc[c] = "run" /\ cur[c] # NoThread
       /\ sid[s] # -1 /\ slock[s] = NoCpu
       /\ scount[s] - n < 0
       /\ ~("B_CAN_INTERRUPT" \in f /\ sigkill[t])
       /\ scount[s] - n >= -MaxCount
       /\ scount' = [scount EXCEPT ![s] = @ - n]
       /\ nstate' = [nstate EXCEPT ![t] = "WAITING"]
       /\ flags' = [flags EXCEPT ![t] = f]
       /\ blk' = [blk EXCEPT ![t] = sid[s]]
       /\ acq' = [acq EXCEPT ![t] = n]
       /\ need' = [need EXCEPT ![t] = Need(s, n)]
       /\ err' = [err EXCEPT ![t] = "B_NO_ERROR"]
       /\ sq' = [sq EXCEPT ![s] = Append(@, t)]
       /\ timer' = [timer EXCEPT ![t] = IF Timed(f) THEN c ELSE @]
       /\ tpc' = [tpc EXCEPT ![t] = "woken"]
       /\ cpc' = [cpc EXCEPT ![c] = "acq"]
       /\ UNCHANGED <<sid, slock, next_sem, cur, lslot, ln, lq, lt, schedVars,
                      state, sigkill, fault>>

KillSeen(t) == "B_CAN_INTERRUPT" \in flags[t] /\ sigkill[t]

(* The thread spinlock is taken after the semaphore's was dropped, and the *)
(* thread switches away...                                                 *)
AcquireResched(c) ==
    /\ cpc[c] = "acq" /\ tlock = NoCpu
    /\ ~KillSeen(cur[c])
    /\ Resched(c, {})
    /\ UNCHANGED <<semVars, lslot, ln, lq, lt, tlock, tpc, flags, blk, acq,
                   need, err, sigkill, timer>>

(* ...unless a kill arrived in between.                                    *)
AcquireSeesKill(c) ==
    LET t == cur[c]
    IN /\ cpc[c] = "acq" /\ tlock = NoCpu
       /\ KillSeen(t)
       /\ tlock' = c
       /\ cpc' = [cpc EXCEPT ![c] = "acqkill"]
       /\ lt' = [lt EXCEPT ![c] = t]
       /\ lslot' = [lslot EXCEPT ![c] = SlotOf(blk[t])]
       /\ UNCHANGED <<semVars, cur, ln, lq, runq, threadVars, timer, fault>>

TimerKept(t) == timer[t]

(* timer_cancel_event on the way out, only for B_TIMEOUT.                  *)
TimerLeft(t) == IF "B_TIMEOUT" \in flags[t] THEN NoCpu ELSE timer[t]

(* Back on a CPU after the wait, interrupts still disabled: the timer is   *)
(* cancelled if B_TIMEOUT was given, and the frame that holds the event    *)
(* and its arguments is popped.  An event that is still on a list, or a    *)
(* handler that is about to read the arguments, then refers to dead stack. *)
AcquireReturn(c) ==
    LET t == cur[c]
    IN /\ cpc[c] = "woken"
       /\ timer' = [timer EXCEPT ![t] = TimerLeft(t)]
       /\ tpc' = [tpc EXCEPT ![t] = "run"]
       /\ cpc' = [cpc EXCEPT ![c] = "run"]
       /\ fault' = IF \/ TimerLeft(t) # NoCpu
                      \/ \E d \in Cpus : cpc[d] = "tmo" /\ lt[d] = t
                   THEN "dangling" ELSE fault
       /\ UNCHANGED <<semVars, cur, lslot, ln, lq, lt, schedVars, state,
                      nstate, flags, blk, acq, need, err, sigkill>>

(* The wakeup loop of the kill path reuses t, so that t is NULL when the   *)
(* thread comes back and reads t->sem_errcode.                             *)
AcquireNull(c) ==
    /\ cpc[c] = "null"
    /\ fault' = "null"
    /\ UNCHANGED <<semVars, cpuVars, schedVars, threadVars, timer>>

-----------------------------------------------------------------------------
(* release_sem_etc, called by a thread or by an interrupt handler that     *)
(* runs on top of whatever the CPU was doing.                              *)

ReleaseEnter(c, s, n) ==
    /\ cpc[c] = "run"
    /\ sid[s] # -1 /\ slock[s] = NoCpu
    /\ scount[s] + n <= MaxCount
    /\ slock' = [slock EXCEPT ![s] = c]
    /\ cpc' = [cpc EXCEPT ![c] = "rel"]
    /\ lslot' = [lslot EXCEPT ![c] = s]
    /\ ln' = [ln EXCEPT ![c] = n]
    /\ UNCHANGED <<sid, scount, sq, next_sem, cur, lq, lt, schedVars,
                   threadVars, timer, fault>>

(* An iteration that finds no deficit: everything left goes to the count.  *)
ReleaseAdd(c) ==
    LET s == lslot[c]
    IN /\ cpc[c] = "rel"
       /\ ln[c] > 0 /\ scount[s] >= 0
       /\ scount' = [scount EXCEPT ![s] = @ + ln[c]]
       /\ ln' = [ln EXCEPT ![c] = 0]
       /\ UNCHANGED <<sid, sq, slock, next_sem, cur, cpc, lslot, lq, lt,
                      schedVars, threadVars, timer, fault>>

(* An iteration that gives the first waiter all it lacks, and wakes it.    *)
ReleaseWaiter(c) ==
    LET s == lslot[c]
        t == Head(sq[s])
    IN /\ cpc[c] = "rel"
       /\ ln[c] > 0 /\ scount[s] < 0 /\ sq[s] # <<>>
       /\ need[t] <= ln[c]
       /\ sq' = [sq EXCEPT ![s] = Tail(@)]
       /\ lq' = [lq EXCEPT ![c] = @ \cup {t}]
       /\ state' = [state EXCEPT ![t] = "READY"]
       /\ need' = [need EXCEPT ![t] = 0]
       /\ scount' = [scount EXCEPT ![s] = @ + need[t]]
       /\ ln' = [ln EXCEPT ![c] = @ - need[t]]
       /\ UNCHANGED <<sid, slock, next_sem, cur, cpc, lslot, lt, schedVars,
                      nstate, tpc, flags, blk, acq, err, sigkill, timer, fault>>

(* An iteration in which the first waiter takes everything and needs more. *)
ReleasePart(c) ==
    LET s == lslot[c]
        t == Head(sq[s])
    IN /\ cpc[c] = "rel"
       /\ ln[c] > 0 /\ scount[s] < 0 /\ sq[s] # <<>>
       /\ need[t] > ln[c]
       /\ need' = [need EXCEPT ![t] = @ - ln[c]]
       /\ scount' = [scount EXCEPT ![s] = @ + ln[c]]
       /\ ln' = [ln EXCEPT ![c] = 0]
       /\ UNCHANGED <<sid, sq, slock, next_sem, cur, cpc, lslot, lq, lt,
                      schedVars, state, nstate, tpc, flags, blk, acq, err,
                      sigkill, timer, fault>>

(* A deficit without a waiter: the first waiter is a NULL pointer.         *)
ReleaseNobody(c) ==
    /\ cpc[c] = "rel"
    /\ ln[c] > 0 /\ scount[lslot[c]] < 0 /\ sq[lslot[c]] = <<>>
    /\ fault' = "null"
    /\ UNCHANGED <<semVars, cpuVars, schedVars, threadVars, timer>>

ReleaseUnlock(c) ==
    LET s == lslot[c]
    IN /\ cpc[c] = "rel" /\ ln[c] <= 0
       /\ slock' = [slock EXCEPT ![s] = NoCpu]
       /\ cpc' = [cpc EXCEPT ![c] = IF lq[c] = {} THEN "run" ELSE "relq"]
       /\ UNCHANGED <<sid, scount, sq, next_sem, cur, lslot, ln, lq, lt,
                      schedVars, threadVars, timer, fault>>

(* The released threads go to the run queues and the caller reschedules,   *)
(* or with B_DO_NOT_RESCHEDULE does not.                                   *)
ReleaseWake(c) ==
    /\ cpc[c] = "relq" /\ tlock = NoCpu
    /\ lq' = [lq EXCEPT ![c] = {}]
    /\ Resched(c, lq[c])
    /\ UNCHANGED <<semVars, lslot, ln, lt, tlock, tpc, flags, blk, acq, need,
                   err, sigkill, timer>>

ReleaseWakeOnly(c) ==
    /\ cpc[c] = "relq" /\ tlock = NoCpu
    /\ runq' = runq \cup lq[c]
    /\ lq' = [lq EXCEPT ![c] = {}]
    /\ cpc' = [cpc EXCEPT ![c] = "run"]
    /\ UNCHANGED <<semVars, cur, lslot, ln, lt, tlock, threadVars, timer,
                   fault>>

-----------------------------------------------------------------------------
(* remove_thread_from_sem, called by the timeout handler, by a kill, and   *)
(* by acquire_sem_etc itself when a kill slipped in.                       *)

GivenBackNothing(t) == 0

(* What a thread that leaves the queue adds to the count again.            *)
GivenBack(t) == acq[t]

(* The first part: thread t leaves the queue of slot s with errcode e.     *)
RemoveThread(c, t, s, e) ==
    /\ sq' = [sq EXCEPT ![s] = Without(@, t)]
    /\ scount' = [scount EXCEPT ![s] = @ + GivenBack(t)]
    /\ state' = [state EXCEPT ![t] = "READY"]
    /\ err' = [err EXCEPT ![t] = e]
    /\ lq' = [lq EXCEPT ![c] = {t}]
    /\ slock' = [slock EXCEPT ![s] = c]

WakeLoop(c) ==
    /\ cpc[c] \in {"tmor", "killr", "acqr"}
    /\ scount[lslot[c]] > 0 /\ sq[lslot[c]] # <<>>

(* An iteration of "now see if more threads need to be woken up".  The     *)
(* units it looks at are those of the thread that was removed or woken     *)
(* last, not of the first of the queue, which it wakes.                    *)
RemoveWakeFirst(c) ==
    LET s == lslot[c]
        t == lt[c]
        first == Head(sq[s])
    IN /\ WakeLoop(c)
       /\ need[t] <= scount[s]
       /\ need' = [need EXCEPT ![t] = 0]
       /\ sq' = [sq EXCEPT ![s] = Tail(@)]
       /\ lq' = [lq EXCEPT ![c] = @ \cup {first}]
       /\ state' = [state EXCEPT ![first] = "READY"]
       /\ lt' = [lt EXCEPT ![c] = first]
       /\ scount' = [scount EXCEPT ![s] = @ - need[t]]
       /\ UNCHANGED <<sid, slock, next_sem, cur, cpc, lslot, ln, schedVars,
                      nstate, tpc, flags, blk, acq, err, sigkill, timer,
                      fault>>

(* An iteration in which that thread needs more than there is.             *)
RemovePart(c) ==
    LET s == lslot[c]
        t == lt[c]
    IN /\ WakeLoop(c)
       /\ need[t] > scount[s]
       /\ need' = [need EXCEPT ![t] = @ - scount[s]]
       /\ scount' = [scount EXCEPT ![s] = 0]
       /\ UNCHANGED <<sid, sq, slock, next_sem, cpuVars, schedVars, state,
                      nstate, tpc, flags, blk, acq, err, sigkill, timer,
                      fault>>

(* The loop ends and the caller drops the semaphore's lock.                *)
RemoveUnlock(c) ==
    LET s == lslot[c]
    IN /\ cpc[c] \in {"tmor", "killr", "acqr"}
       /\ ~WakeLoop(c)
       /\ slock' = [slock EXCEPT ![s] = NoCpu]
       /\ cpc' = [cpc EXCEPT ![c] = CASE @ = "tmor" -> "tmoq"
                                      [] @ = "killr" -> "killq"
                                      [] OTHER -> "acqq"]
       /\ UNCHANGED <<sid, scount, sq, next_sem, cur, lslot, ln, lq, lt,
                      schedVars, threadVars, timer, fault>>

-----------------------------------------------------------------------------
(* The timeout: timer_interrupt pops the event and calls sem_timeout.      *)

TimerInterrupt(c, t) ==
    /\ cpc[c] = "run"
    /\ timer[t] = c
    /\ timer' = [timer EXCEPT ![t] = NoCpu]
    /\ cpc' = [cpc EXCEPT ![c] = "tmo"]
    /\ lt' = [lt EXCEPT ![c] = t]
    /\ lslot' = [lslot EXCEPT ![c] = SlotOf(blk[t])]
    /\ UNCHANGED <<semVars, cur, ln, lq, schedVars, threadVars, fault>>

(* sem_timeout under the semaphore's lock: the thread still waits.         *)
TimeoutRemove(c) ==
    LET s == lslot[c]
        t == lt[c]
    IN /\ cpc[c] = "tmo" /\ slock[s] = NoCpu
       /\ sid[s] = blk[t] /\ t \in Elems(sq[s])
       /\ RemoveThread(c, t, s, "B_TIMED_OUT")
       /\ cpc' = [cpc EXCEPT ![c] = "tmor"]
       /\ UNCHANGED <<sid, next_sem, cur, lslot, ln, lt, schedVars, nstate,
                      tpc, flags, blk, acq, need, sigkill, timer, fault>>

(* It was released in the meantime: remove_thread_from_sem does nothing.   *)
TimeoutLate(c) ==
    LET s == lslot[c]
        t == lt[c]
    IN /\ cpc[c] = "tmo" /\ slock[s] = NoCpu
       /\ sid[s] = blk[t] /\ t \notin Elems(sq[s])
       /\ cpc' = [cpc EXCEPT ![c] = "tmoq"]
       /\ UNCHANGED <<semVars, cur, lslot, ln, lq, lt, schedVars, threadVars,
                      timer, fault>>

(* The semaphore was deleted in the meantime: panic.                       *)
TimeoutPanic(c) ==
    /\ cpc[c] = "tmo" /\ slock[lslot[c]] = NoCpu
    /\ sid[lslot[c]] # blk[lt[c]]
    /\ fault' = "panic"
    /\ UNCHANGED <<semVars, cpuVars, schedVars, threadVars, timer>>

(* INT_RESCHEDULE: the woken threads go to the run queues under the thread *)
(* spinlock, and the interrupt ends in thread_resched.  (It takes the lock *)
(* a second time for that; here both are one step.)                        *)
TimeoutWake(c) ==
    /\ cpc[c] = "tmoq" /\ tlock = NoCpu
    /\ lq' = [lq EXCEPT ![c] = {}]
    /\ Resched(c, lq[c])
    /\ UNCHANGED <<semVars, lslot, ln, lt, tlock, tpc, flags, blk, acq, need,
                   err, sigkill, timer>>

-----------------------------------------------------------------------------
(* Killing a thread: _thread_kill_thread, deliver_signal and               *)
(* sem_interrupt_thread.                                                   *)

InterruptibleWhenReady(t) ==
    state[t] = "READY" /\ "B_CAN_INTERRUPT" \in flags[t]

(* deliver_signal and sem_interrupt_thread wake only an interruptible      *)
(* thread whose state is WAITING.                                          *)
Interruptible(t) ==
    state[t] = "WAITING" /\ "B_CAN_INTERRUPT" \in flags[t]

(* A thread that runs, is ready or cannot be interrupted finds the signal  *)
(* later.                                                                  *)
KillPending(c, t) ==
    /\ cpc[c] = "run" /\ cur[c] # NoThread
    /\ tlock = NoCpu
    /\ ~Interruptible(t)
    /\ sigkill' = [sigkill EXCEPT ![t] = TRUE]
    /\ UNCHANGED <<semVars, cpuVars, schedVars, state, nstate, tpc, flags, blk,
                   acq, need, err, timer, fault>>

(* Otherwise the thread spinlock stays held while the semaphore's is       *)
(* waited for.                                                             *)
KillWaiting(c, t) ==
    /\ cpc[c] = "run" /\ cur[c] # NoThread
    /\ tlock = NoCpu
    /\ Interruptible(t)
    /\ sigkill' = [sigkill EXCEPT ![t] = TRUE]
    /\ tlock' = c
    /\ cpc' = [cpc EXCEPT ![c] = "kill"]
    /\ lt' = [lt EXCEPT ![c] = t]
    /\ lslot' = [lslot EXCEPT ![c] = SlotOf(blk[t])]
    /\ UNCHANGED <<semVars, cur, ln, lq, runq, state, nstate, tpc, flags, blk,
                   acq, need, err, timer, fault>>

(* sem_interrupt_thread under the semaphore's lock.                        *)
KillRemove(c) ==
    LET s == lslot[c]
        t == lt[c]
    IN /\ cpc[c] = "kill" /\ slock[s] = NoCpu
       /\ sid[s] = blk[t] /\ t \in Elems(sq[s])
       /\ RemoveThread(c, t, s, "EINTR")
       /\ cpc' = [cpc EXCEPT ![c] = "killr"]
       /\ UNCHANGED <<sid, next_sem, cur, lslot, ln, lt, schedVars, nstate,
                      tpc, flags, blk, acq, need, sigkill, timer, fault>>

(* Its two panics: the semaphore is gone, or the thread is not in its      *)
(* queue.                                                                  *)
KillPanic(c) ==
    LET s == lslot[c]
        t == lt[c]
    IN /\ cpc[c] = "kill" /\ slock[s] = NoCpu
       /\ sid[s] # blk[t] \/ t \notin Elems(sq[s])
       /\ fault' = "panic"
       /\ UNCHANGED <<semVars, cpuVars, schedVars, threadVars, timer>>

KillWake(c) ==
    /\ cpc[c] = "killq"
    /\ runq' = runq \cup lq[c]
    /\ lq' = [lq EXCEPT ![c] = {}]
    /\ tlock' = NoCpu
    /\ cpc' = [cpc EXCEPT ![c] = "run"]
    /\ UNCHANGED <<semVars, cur, lslot, ln, lt, threadVars, timer, fault>>

(* The same from inside acquire_sem_etc, for the thread itself, which may  *)
(* have been woken already.                                                *)
AcquireKilled(c) ==
    LET s == lslot[c]
        t == lt[c]
    IN /\ cpc[c] = "acqkill" /\ slock[s] = NoCpu
       /\ sid[s] = blk[t] /\ t \in Elems(sq[s])
       /\ RemoveThread(c, t, s, "EINTR")
       /\ cpc' = [cpc EXCEPT ![c] = "acqr"]
       /\ tpc' = [tpc EXCEPT ![t] = "null"]
       /\ UNCHANGED <<sid, next_sem, cur, lslot, ln, lt, schedVars, nstate,
                      flags, blk, acq, need, sigkill, timer, fault>>

AcquireKilledLate(c) ==
    LET s == lslot[c]
        t == lt[c]
    IN /\ cpc[c] = "acqkill" /\ slock[s] = NoCpu
       /\ sid[s] # blk[t] \/ t \notin Elems(sq[s])
       /\ cpc' = [cpc EXCEPT ![c] = "acqq"]
       /\ tpc' = [tpc EXCEPT ![t] = "null"]
       /\ UNCHANGED <<semVars, cur, lslot, ln, lq, lt, schedVars, state, nstate,
                      flags, blk, acq, need, err, sigkill, timer, fault>>

AcquireKilledWake(c) ==
    /\ cpc[c] = "acqq"
    /\ lq' = [lq EXCEPT ![c] = {}]
    /\ tlock' = NoCpu
    /\ Resched(c, lq[c])
    /\ UNCHANGED <<semVars, lslot, ln, lt, tpc, flags, blk, acq, need, err,
                   sigkill, timer>>

-----------------------------------------------------------------------------
(* What a CPU does once it is inside the kernel with interrupts disabled.  *)
KernelStep(c) ==
    \/ DeleteWaiter(c) \/ DeleteEntry(c) \/ DeleteWake(c)
    \/ AcquireResched(c) \/ AcquireSeesKill(c) \/ AcquireReturn(c)
    \/ AcquireKilled(c) \/ AcquireKilledLate(c) \/ AcquireKilledWake(c)
    \/ AcquireNull(c)
    \/ ReleaseAdd(c) \/ ReleaseWaiter(c) \/ ReleasePart(c) \/ ReleaseNobody(c)
    \/ ReleaseUnlock(c) \/ ReleaseWake(c) \/ ReleaseWakeOnly(c)
    \/ RemoveWakeFirst(c) \/ RemovePart(c) \/ RemoveUnlock(c)
    \/ TimeoutRemove(c) \/ TimeoutLate(c) \/ TimeoutPanic(c) \/ TimeoutWake(c)
    \/ KillRemove(c) \/ KillPanic(c) \/ KillWake(c)

(* The calls threads and interrupt handlers make.                          *)
Call(c) ==
    \/ \E i \in Slots, n \in InitCounts : create_sem_etc(c, i, n)
    \/ \E s \in Slots : DeleteEnter(c, s)
    \/ \E s \in Slots, n \in AcquireCounts :
          \/ AcquireTake(c, s, n)
          \/ \E f \in FlagSets : AcquireBlock(c, s, n, f)
    \/ \E s \in Slots, n \in ReleaseCounts : ReleaseEnter(c, s, n)
    \/ \E t \in Threads : KillPending(c, t) \/ KillWaiting(c, t)

Interrupt(c) == Preempt(c) \/ \E t \in Threads : TimerInterrupt(c, t)

Next ==
    /\ fault = "none"
    /\ \E c \in Cpus : Call(c) \/ KernelStep(c) \/ Interrupt(c)

Spec == Init /\ [][Next]_vars

(* The thread gets a CPU it did not have.                                  *)
Picked(t) == \E c \in Cpus : cur[c] # t /\ cur'[c] = t

(* Code with interrupts disabled runs on; an interrupt that is raised      *)
(* stays pending until interrupts are enabled and is then taken; threads   *)
(* of one priority share a FIFO run queue, so each is picked in its turn.  *)
Fairness ==
    /\ \A c \in Cpus : WF_vars(fault = "none" /\ KernelStep(c))
    /\ \A c \in Cpus : SF_vars(fault = "none" /\ Preempt(c))
    /\ \A c \in Cpus, t \in Threads :
            SF_vars(fault = "none" /\ TimerInterrupt(c, t))
    /\ \A t \in Threads : SF_vars(Next /\ Picked(t))

LiveSpec == Spec /\ Fairness

-----------------------------------------------------------------------------
TypeOK ==
    /\ sid \in [Slots -> Int] /\ next_sem \in Nat
    /\ scount \in [Slots -> Int]
    /\ sq \in [Slots -> Seq(Threads)]
    /\ slock \in [Slots -> Cpus \cup {NoCpu}]
    /\ cur \in [Cpus -> Threads \cup {NoThread}]
    /\ cpc \in [Cpus -> Points]
    /\ lslot \in [Cpus -> Slots] /\ ln \in [Cpus -> Int]
    /\ lq \in [Cpus -> SUBSET Threads]
    /\ lt \in [Cpus -> Threads \cup {NoThread}]
    /\ tlock \in Cpus \cup {NoCpu} /\ runq \subseteq Threads
    /\ state \in [Threads -> States]
    /\ nstate \in [Threads -> {"READY", "WAITING"}]
    /\ tpc \in [Threads -> {"run", "woken", "null"}]
    /\ flags \in [Threads -> SUBSET AcquireFlags]
    /\ blk \in [Threads -> Int]
    /\ acq \in [Threads -> Nat] /\ need \in [Threads -> Int]
    /\ err \in [Threads -> Errors]
    /\ sigkill \in [Threads -> BOOLEAN]
    /\ timer \in [Threads -> Cpus \cup {NoCpu}]
    /\ fault \in {"none", "panic", "null", "twice", "dangling"}

(* No thread is ever lost: it runs on a CPU or it is on some list from     *)
(* which a later step takes it (a run queue, the wait queue of a semaphore *)
(* or the local release queue of a CPU).  This is what every dequeue and   *)
(* enqueue of sem.c and thread_resched has to preserve together.           *)
NoThreadLost ==
    \A t \in Threads :
        \/ t \in runq
        \/ \E c \in Cpus : cur[c] = t \/ t \in lq[c]
        \/ \E s \in Slots : t \in Elems(sq[s])

NoRepeats(q) == \A i, j \in 1 .. Len(q) : q[i] = q[j] => i = j

(* All these lists are linked through the one field q_next, so a thread    *)
(* may be on at most one of them, and on that one only once.               *)
OneList ==
    /\ \A s \in Slots : NoRepeats(sq[s])
    /\ \A s \in Slots : Elems(sq[s]) \cap runq = {}
    /\ \A s, r \in Slots : s # r => Elems(sq[s]) \cap Elems(sq[r]) = {}
    /\ \A c \in Cpus : lq[c] \cap runq = {}
    /\ \A c \in Cpus, s \in Slots : lq[c] \cap Elems(sq[s]) = {}
    /\ \A c, d \in Cpus : c # d => lq[c] \cap lq[d] = {}

(* A thread that waits in a slot waits for the semaphore that is there     *)
(* now: a deletion empties the queue before the slot can be reused under   *)
(* another id.                                                             *)
WaitsForLiveSem ==
    \A s \in Slots : \A t \in Elems(sq[s]) : sid[s] # -1 /\ blk[t] = sid[s]

Deleting(s) == \E c \in Cpus : cpc[c] = "del" /\ lslot[c] = s

(* A negative count is the number of waiters, and nobody waits while units *)
(* are there (all acquires of one unit; delete_sem_etc empties the queue   *)
(* without touching the count).                                            *)
CountMatchesQueue ==
    \A s \in Slots : ~Deleting(s) /\ sid[s] # -1 =>
        Len(sq[s]) = IF scount[s] < 0 THEN -scount[s] ELSE 0

Queued(t) == \E s \in Slots : t \in Elems(sq[s])

(* A thread that left the wait queue returns from acquire_sem_etc: nobody  *)
(* is woken on paper only.                                                 *)
WokenReturns ==
    \A t \in Threads : (tpc[t] = "woken" /\ ~Queued(t)) ~> (tpc[t] = "run")

(* A wait with a timeout ends, whoever releases or not.                    *)
TimedWaitEnds ==
    \A t \in Threads :
        (tpc[t] = "woken" /\ "B_TIMEOUT" \in flags[t]) ~> (tpc[t] = "run")

(* A killed thread does not stay in an interruptible wait.                 *)
KilledWaitEnds ==
    \A t \in Threads :
        (tpc[t] = "woken" /\ "B_CAN_INTERRUPT" \in flags[t] /\ sigkill[t])
            ~> (tpc[t] = "run")

(* A wait ends in acquire_sem_etc's return when a release, a deletion, a   *)
(* timeout or a kill has ended it, under the fairness of the scheduler.    *)
WaitsEnd == WokenReturns /\ TimedWaitEnds /\ KilledWaitEnds

(* What thread_set_priority relies on ("it's ourself, so we know we aren't *)
(* in a run queue"): the current thread of a CPU is in no run queue.       *)
RunningNotQueued == \A c \in Cpus : cur[c] \notin runq

(* What remove_thread_from_sem promises ("may have to wake up other        *)
(* threads in the process"): nobody is left waiting for a semaphore that   *)
(* has no deficit.                                                         *)
NobodyStranded ==
    \A s \in Slots :
        sid[s] # -1 /\ slock[s] = NoCpu /\ scount[s] >= 0 => sq[s] = <<>>

(* The assertions of sem_timeout and sem_interrupt_thread.                 *)
NoPanic == fault # "panic"

(* The panics, the NULL dereferences, the dangling timer and the thread    *)
(* picked by two CPUs are not reached.                                     *)
NoFault == fault = "none"
============================================================================
