------------------------------- MODULE Thread -------------------------------
(***************************************************************************)
(* Threads and processes of kernel/core/thread.c: creation, suspension,    *)
(* resumption, signals, waiting for a thread, the end of a thread and of   *)
(* its process, and thread_resched with the run queues.                    *)
(*                                                                         *)
(* One process is used, again and again, by the thread Kernel of           *)
(* kernel_proc and by its own threads; a process and a thread are          *)
(* addresses, and a thread is named by the id in it.  A step is what a CPU *)
(* does under the thread or the process lock.  The semaphores are those of *)
(* Sem, reduced to who waits; blocking on one is one step here.  A call    *)
(* that returns early without changing anything is no step.                *)
(***************************************************************************)
EXTENDS Integers, FiniteSets

CONSTANTS
    Structs,    \* addresses of struct thread
    Kernel,     \* a thread of kernel_proc that starts and ends processes
    Cpus,
    MaxId,      \* bound on next_thread_id
    MaxProcs,   \* bound on the processes that are created
    None        \* NULL; as the thread of a CPU: its idle thread

ASSUME ThreadAssumption ==
    /\ Kernel \notin Structs /\ None \notin Structs \cup {Kernel}
    /\ IsFiniteSet(Cpus) /\ Cpus # {} /\ IsFiniteSet(Structs)
    /\ MaxId \in Nat /\ MaxProcs \in Nat

All == Structs \cup {Kernel}
Stacks == 1 .. Cardinality(Cpus)    \* num_death_stacks

VARIABLES
    th,         \* struct thread, and where the thread is
    cur,        \* the thread that runs on each CPU
    runq,       \* how often a thread is linked into the run queues
    dead_q,
    next_id,    \* next_thread_id
    proc,       \* struct proc
    procs,      \* how many processes were created
    plock,      \* who keeps the process lock over several steps
    sems,       \* the threads whose return_code_sem exists
    bitmap,     \* death_stack_bitmap
    free,       \* the units of death_stack_sem
    jam         \* a CPU spins for a lock that it holds

vars == <<th, cur, runq, dead_q, next_id, proc, procs, plock, sems, bitmap,
          free, jam>>
procVars  == <<proc, procs, plock>>
deathVars == <<bitmap, free, jam>>
schedVars == <<cur, runq, dead_q>>

(* hashed: it is in thread_hash; wait: what it waits for; obj, tgt: a      *)
(* thread and an id at hand; todo: threads that a loop has yet to reach;   *)
(* stack: its death stack.                                                 *)
NoThread == [state |-> "NONE", next |-> "NONE", id |-> 0, hashed |-> FALSE,
             proc |-> "none", sig |-> {}, in_kernel |-> TRUE, pc |-> "none",
             wait |-> "no", obj |-> None, tgt |-> 0, todo |-> {}, stack |-> 0]
NoProc == [alloc |-> FALSE, hashed |-> FALSE, state |-> "none",
           threads |-> {}, main |-> None]

Init ==
    /\ th = [t \in All |->
                IF t = Kernel
                THEN [NoThread EXCEPT !.state = "READY", !.next = "READY",
                                      !.hashed = TRUE, !.proc = "kernel",
                                      !.pc = "kern"]
                ELSE NoThread]
    /\ cur = [c \in Cpus |-> None]
    /\ runq = [t \in All |-> IF t = Kernel THEN 1 ELSE 0]
    /\ dead_q = {} /\ next_id = 1
    /\ proc = NoProc /\ procs = 0 /\ plock = None
    /\ sems = {} /\ bitmap = {} /\ free = Cardinality(Stacks) /\ jam = FALSE

On(c, p) == cur[c] # None /\ th[cur[c]].pc = p

(* The thread with an id, if there still is one.                           *)
Lookup(i) == {t \in Structs : th[t].hashed /\ th[t].id = i}

(* Where a call ends: a syscall on its way out, a kernel thread in its     *)
(* code.                                                                   *)
After(t) == IF t = Kernel THEN "kern" ELSE "ret"

Enqueue(q, S) == [t \in All |-> IF t \in S THEN q[t] + 1 ELSE q[t]]
WakeUp(r) == [r EXCEPT !.state = "READY", !.wait = "no", !.tgt = 0]

-----------------------------------------------------------------------------
(* The scheduler.                                                          *)

(* A thread that was suspended on its way out of the kernel goes on with   *)
(* that as soon as it is back, the thread lock still held.                 *)
SwitchedIn(r) ==
    LET s == [r EXCEPT !.state = "RUNNING", !.next = "READY"]
    IN  IF r.pc = "out" THEN [s EXCEPT !.in_kernel = FALSE, !.pc = "user"] ELSE s

RequeuesAlways(r) == r.next # "FREE"
Requeues(r) == r.next = "READY"

(* thread_resched on CPU c with the threads and the run queues as given.   *)
(* Any queued thread may be next (the priorities and the random skip       *)
(* decide), the idle thread only when there is no other.                   *)
Resched(c, ths, q) ==
    LET t == cur[c]
        q1 == IF t # None /\ Requeues(ths[t]) THEN Enqueue(q, {t}) ELSE q
        left == IF t = None THEN ths ELSE [ths EXCEPT ![t].state = ths[t].next]
        ready == {u \in All : q1[u] > 0}
    IN  \E n \in ready \cup {None} :
           /\ n = None => ready = {}
           /\ cur' = [cur EXCEPT ![c] = n]
           /\ runq' = IF n = None THEN q1 ELSE [q1 EXCEPT ![n] = @ - 1]
           /\ th' = IF n = None THEN left ELSE [left EXCEPT ![n] = SwitchedIn(@)]
           /\ dead_q' = dead_q \cup
                  {u \in Structs : u = t /\ ths[u].next = "FREE"}

(* The current thread of c becomes r and blocks, or goes on as r.          *)
Block(c, r) ==
    Resched(c, [th EXCEPT ![cur[c]] = [r EXCEPT !.next = "WAITING"]], runq)
Goes(c, r) == th' = [th EXCEPT ![cur[c]] = r] /\ UNCHANGED schedVars

(* From get_death_stack on, and in the loops that hold a lock, interrupts  *)
(* are disabled.                                                           *)
Masked == {"x_killing", "x_wake", "x_unlist", "x_put"}

(* A timer or inter-CPU interrupt that reschedules; the way back into user *)
(* mode is that of a syscall.                                              *)
Preempt(c) ==
    /\ cur[c] # None => th[cur[c]].pc \notin Masked
    /\ Resched(c, IF On(c, "user") THEN [th EXCEPT ![cur[c]].pc = "ret"] ELSE th,
               runq)
    /\ UNCHANGED <<next_id, sems, procVars, deathVars>>

(* Any other interrupt in user mode.                                       *)
Interrupt(c) ==
    /\ On(c, "user")
    /\ Goes(c, [th[cur[c]] EXCEPT !.pc = "ret"])
    /\ UNCHANGED <<next_id, sems, procVars, deathVars>>

(* snooze_sem times out, or the semaphore of an interruptible wait is      *)
(* released.                                                               *)
Wake(t) ==
    /\ th[t].state = "WAITING" /\ th[t].wait \in {"snooze", "sem"}
    /\ th' = [th EXCEPT ![t] = WakeUp(@)]
    /\ runq' = Enqueue(runq, {t})
    /\ UNCHANGED <<cur, dead_q, next_id, sems, procVars, deathVars>>

-----------------------------------------------------------------------------
(* Signals.                                                                *)

(* _check_for_thread_sigs for thread r on CPU c: `done' is the thread if   *)
(* there are none, and `later' where it goes on after a suspension.        *)
CheckSigs(c, r, done, later) ==
    \/ /\ "KILL" \in r.sig
       /\ Goes(c, [r EXCEPT !.sig = @ \ {"KILL"}, !.pc = "x_move"])
    \/ /\ r.sig = {"SUSPEND"}
       /\ Resched(c, [th EXCEPT ![cur[c]] =
                        [r EXCEPT !.sig = {}, !.next = "SUSPENDED", !.pc = later]],
                  runq)
    \/ r.sig = {} /\ Goes(c, done)

thread_atkernel_entry(c) ==
    /\ On(c, "user")
    /\ LET r == [th[cur[c]] EXCEPT !.in_kernel = TRUE]
       IN  CheckSigs(c, r, [r EXCEPT !.pc = "kern"], "kern")
    /\ UNCHANGED <<next_id, sems, procVars, deathVars>>

thread_atkernel_exit(c) ==
    /\ On(c, "ret")
    /\ LET r == th[cur[c]]
       IN  CheckSigs(c, r, [r EXCEPT !.in_kernel = FALSE, !.pc = "user"], "out")
    /\ UNCHANGED <<next_id, sems, procVars, deathVars>>

WokenByKillNot(r) == r.state = "WAITING" /\ r.wait = "sem"

(* deliver_signal(SIG_KILL): a suspended thread is made ready, and an      *)
(* interruptible wait ends.                                                *)
WokenByKill(r) ==
    r.state = "SUSPENDED" \/ (r.state = "WAITING" /\ r.wait = "sem")
Killed(ths, u) ==
    LET r == [ths[u] EXCEPT !.sig = @ \cup {"KILL"}]
    IN  [ths EXCEPT ![u] = IF ~WokenByKill(r) THEN r
                           ELSE IF r.state = "SUSPENDED"
                           THEN [WakeUp(r) EXCEPT !.next = "READY"] ELSE WakeUp(r)]
KilledQueue(q, u) == IF WokenByKill(th[u]) THEN Enqueue(q, {u}) ELSE q

(* _thread_kill_thread: not for the threads of kernel_proc; the caller     *)
(* then waits, unless it is the thread itself.                             *)
Kill(c, u, wait) ==
    LET t == cur[c]
        pc == IF wait /\ u # t THEN "w_look" ELSE After(t)
    IN  /\ th[u].hashed /\ th[u].proc # "kernel"
        /\ th' = Killed([th EXCEPT ![t].pc = pc, ![t].tgt =
                              IF pc = "w_look" THEN th[u].id ELSE 0], u)
        /\ runq' = KilledQueue(runq, u)
        /\ UNCHANGED <<cur, dead_q, next_id, sems, procVars, deathVars>>

thread_suspend_thread(c, u) ==
    LET r == [th EXCEPT ![cur[c]].pc = After(cur[c])]
    IN  /\ th[u].hashed /\ th[u].proc # "kernel"
        /\ th' = IF th[u].in_kernel THEN [r EXCEPT ![u].sig = @ \cup {"SUSPEND"}]
                 ELSE [r EXCEPT ![u].next = "SUSPENDED"]
        /\ UNCHANGED <<schedVars, next_id, sems, procVars, deathVars>>

thread_resume_thread(c, u) ==
    /\ th[u].hashed /\ th[u].state = "SUSPENDED"
    /\ th' = [th EXCEPT ![cur[c]].pc = After(cur[c]), ![cur[c]].tgt = 0,
                        ![u].state = "READY", ![u].next = "READY"]
    /\ runq' = Enqueue(runq, {u})
    /\ UNCHANGED <<cur, dead_q, next_id, sems, procVars, deathVars>>

(* thread_set_priority for another thread that is READY: it is taken out   *)
(* of its run queue, if it is there, and put into another.                 *)
thread_set_priority(c, u) ==
    /\ u # cur[c] /\ th[u].hashed /\ th[u].state = "READY"
    /\ th' = [th EXCEPT ![cur[c]].pc = After(cur[c])]
    /\ runq' = [runq EXCEPT ![u] = IF @ = 0 THEN 1 ELSE @]
    /\ UNCHANGED <<cur, dead_q, next_id, sems, procVars, deathVars>>

-----------------------------------------------------------------------------
(* Creation.                                                               *)

(* proc_create_proc: the process is in the table before it has a thread.   *)
proc_create_proc(c) ==
    /\ On(c, "kern") /\ cur[c] = Kernel
    /\ ~proc.alloc /\ procs < MaxProcs /\ next_id <= MaxId /\ plock = None
    /\ proc' = [NoProc EXCEPT !.alloc = TRUE, !.hashed = TRUE, !.state = "birth"]
    /\ procs' = procs + 1
    /\ Goes(c, [th[Kernel] EXCEPT !.pc = "p_create"])
    /\ UNCHANGED <<plock, next_id, sems, deathVars>>

(* create_thread_struct takes a thread from dead_q before it allocates one *)
(* and creates its return_code_sem; _create_thread makes it known by its   *)
(* id.                                                                     *)
Blank == IF dead_q # {} THEN dead_q ELSE {s \in Structs : th[s].state = "NONE"}
create_thread_struct(c) ==
    /\ On(c, "p_create") \/ On(c, "kern")
    /\ next_id <= MaxId
    /\ \E s \in Blank :
          /\ th' = [th EXCEPT
                      ![s] = [NoThread EXCEPT
                                !.id = next_id, !.hashed = TRUE, !.state = "BIRTH",
                                !.next = "SUSPENDED",
                                !.pc = IF On(c, "p_create") THEN "load" ELSE "ret"],
                      ![cur[c]].pc = "c_insert", ![cur[c]].obj = s]
          /\ dead_q' = dead_q \ {s}
    /\ next_id' = next_id + 1 /\ sems' = sems \cup {next_id}
    /\ UNCHANGED <<cur, runq, procVars, deathVars>>

(* A process in the table that is not being deleted.                       *)
Open == proc.hashed /\ proc.state # "death"

CreateInsert(c) ==
    LET t == cur[c]  s == th[t].obj
    IN  /\ On(c, "c_insert") /\ plock = None /\ Open
        /\ proc' = [proc EXCEPT !.threads = @ \cup {s},
                       !.main = IF proc.threads = {} THEN s ELSE @]
        /\ th' = [th EXCEPT ![s].proc = "user", ![t].pc = "c_done"]
        /\ UNCHANGED <<schedVars, next_id, sems, procs, plock, deathVars>>

(* The process is going: delete_thread_struct, and ERR_TASK_PROC_DELETED.  *)
CreateAbort(c) ==
    LET t == cur[c]  s == th[t].obj
        W == {u \in All : th[u].wait = "thread" /\ th[u].tgt = th[s].id}
    IN  /\ On(c, "c_insert") /\ plock = None /\ ~Open
        /\ sems' = sems \ {th[s].id}
        /\ th' = [u \in All |->
                     IF u = s THEN NoThread
                     ELSE IF u \in W THEN WakeUp(th[u])
                     ELSE IF u = t THEN [th[u] EXCEPT !.obj = None, !.pc = After(t)]
                     ELSE th[u]]
        /\ runq' = Enqueue(runq, W)
        /\ UNCHANGED <<cur, dead_q, next_id, procVars, deathVars>>

(* The stacks are there: the thread can be resumed, which proc_create_proc *)
(* does next.                                                              *)
CreateDone(c) ==
    LET t == cur[c]  s == th[t].obj  main == th[s].pc = "load"
    IN  /\ On(c, "c_done")
        /\ th' = [th EXCEPT ![s].state = "SUSPENDED", ![t].obj = None,
                            ![t].tgt = IF main THEN th[s].id ELSE 0,
                            ![t].pc = IF main THEN "p_resume" ELSE After(t)]
        /\ UNCHANGED <<schedVars, next_id, sems, procVars, deathVars>>

ProcResume(c) ==
    LET S == {u \in Lookup(th[cur[c]].tgt) : th[u].state = "SUSPENDED"}
    IN  /\ On(c, "p_resume")
        /\ th' = [u \in All |->
                     IF u \in S THEN [th[u] EXCEPT !.state = "READY", !.next = "READY"]
                     ELSE IF u = cur[c] THEN [th[u] EXCEPT !.pc = "kern", !.tgt = 0]
                     ELSE th[u]]
        /\ runq' = Enqueue(runq, S)
        /\ UNCHANGED <<cur, dead_q, next_id, sems, procVars, deathVars>>

(* proc_create_proc2, the first code of the main thread, enters user mode  *)
(* without thread_atkernel_exit, or fails and returns.                     *)
proc_create_proc2(c) ==
    /\ On(c, "load")
    /\ \/ /\ proc' = [proc EXCEPT !.state = "normal"]
          /\ Goes(c, [th[cur[c]] EXCEPT !.pc = "user"])
       \/ /\ Goes(c, [th[cur[c]] EXCEPT !.pc = "x_move"])
          /\ UNCHANGED proc
    /\ UNCHANGED <<procs, plock, next_id, sems, deathVars>>

-----------------------------------------------------------------------------
(* Waiting.                                                                *)

(* thread_wait_on_thread reads the return_code_sem under the lock, and     *)
(* waits for it, without B_CAN_INTERRUPT, when it may already be deleted.  *)
WaitLook(c) ==
    /\ On(c, "w_look")
    /\ LET r == th[cur[c]]
       IN  Goes(c, IF Lookup(r.tgt) # {} /\ r.tgt \in sems
                   THEN [r EXCEPT !.pc = "w_acq"]
                   ELSE [r EXCEPT !.pc = After(cur[c]), !.tgt = 0])
    /\ UNCHANGED <<next_id, sems, procVars, deathVars>>

WaitAcquire(c) ==
    /\ On(c, "w_acq")
    /\ LET r == [th[cur[c]] EXCEPT !.pc = After(cur[c])]
       IN  IF r.tgt \in sems THEN Block(c, [r EXCEPT !.wait = "thread"])
           ELSE Goes(c, [r EXCEPT !.tgt = 0])
    /\ UNCHANGED <<next_id, sems, procVars, deathVars>>

thread_wait_on_thread(c, u) ==
    /\ th[u].hashed
    /\ Goes(c, [th[cur[c]] EXCEPT !.pc = "w_look", !.tgt = th[u].id])
    /\ UNCHANGED <<next_id, sems, procVars, deathVars>>

(* proc_wait_on_proc and proc_kill_proc take the id of the main thread     *)
(* under the process lock and go on with the thread.  (proc_kill_proc does *)
(* not check that there is one: a kill of a process that has none yet, a   *)
(* fault, is left out.)                                                    *)
ProcCall(c, then) ==
    /\ plock = None /\ proc.hashed /\ proc.main # None
    /\ Goes(c, [th[cur[c]] EXCEPT !.pc = then, !.tgt = th[proc.main].id])
    /\ UNCHANGED <<next_id, sems, procVars, deathVars>>

KillMain(c) ==
    LET S == {u \in Lookup(th[cur[c]].tgt) : th[u].proc # "kernel"}
    IN  /\ On(c, "k_main")
        /\ \/ \E u \in S : Kill(c, u, TRUE)
           \/ /\ S = {} /\ Goes(c, [th[cur[c]] EXCEPT !.pc = After(cur[c]), !.tgt = 0])
              /\ UNCHANGED <<next_id, sems, procVars, deathVars>>

thread_snooze(c) ==
    /\ cur[c] # Kernel
    /\ Block(c, [th[cur[c]] EXCEPT !.wait = "snooze", !.pc = After(cur[c])])
    /\ UNCHANGED <<next_id, sems, procVars, deathVars>>

(* A wait with B_CAN_INTERRUPT does not start with a kill pending.         *)
InterruptibleWait(c) ==
    /\ cur[c] # Kernel
    /\ LET r == [th[cur[c]] EXCEPT !.pc = "ret"]
       IN  IF "KILL" \in r.sig THEN Goes(c, r) ELSE Block(c, [r EXCEPT !.wait = "sem"])
    /\ UNCHANGED <<next_id, sems, procVars, deathVars>>

-----------------------------------------------------------------------------
(* thread_exit.                                                            *)

(* The thread leaves its process for kernel_proc; the main thread closes   *)
(* the process and has to delete it.  From now on no signal reaches the    *)
(* thread, and neither its own nor in_kernel are read again.               *)
ExitMove(c) ==
    LET t == cur[c]  rest == proc.threads \ {t}
    IN  /\ On(c, "x_move") /\ plock = None
        /\ proc' = IF proc.main = t
                   THEN [proc EXCEPT !.threads = rest, !.hashed = FALSE,
                                     !.state = "death"]
                   ELSE [proc EXCEPT !.threads = rest]
        /\ Goes(c, [th[t] EXCEPT
                      !.proc = "kernel", !.sig = {}, !.in_kernel = TRUE,
                      !.pc = IF proc.main # t THEN "x_sem"
                             ELSE IF rest # {} THEN "x_kill" ELSE "x_free"])
        /\ UNCHANGED <<procs, plock, next_id, sems, deathVars>>

(* It kills the other threads of the process, the process lock held.       *)
ExitKill(c) ==
    /\ On(c, "x_kill") /\ plock = None
    /\ plock' = cur[c]
    /\ Goes(c, [th[cur[c]] EXCEPT !.pc = "x_killing", !.todo = proc.threads])
    /\ UNCHANGED <<proc, procs, next_id, sems, deathVars>>

ExitKillNext(c) ==
    /\ On(c, "x_killing")
    /\ \E u \in th[cur[c]].todo :
          /\ th' = Killed([th EXCEPT ![cur[c]].todo = @ \ {u}], u)
          /\ runq' = KilledQueue(runq, u)
    /\ UNCHANGED <<cur, dead_q, next_id, sems, procVars, deathVars>>

ExitKillDone(c) ==
    /\ On(c, "x_killing") /\ th[cur[c]].todo = {}
    /\ plock' = None
    /\ Goes(c, [th[cur[c]] EXCEPT !.pc = "x_wait"])
    /\ UNCHANGED <<proc, procs, next_id, sems, deathVars>>

GoneEarly(P) == Cardinality(P) <= 1
Gone(P) == P = {}

(* It looks every 10 ms whether they are gone.                             *)
ExitWait(c) ==
    /\ On(c, "x_wait")
    /\ IF Gone(proc.threads) THEN Goes(c, [th[cur[c]] EXCEPT !.pc = "x_free"])
       ELSE Block(c, [th[cur[c]] EXCEPT !.wait = "snooze"])
    /\ UNCHANGED <<next_id, sems, procVars, deathVars>>

(* The address space, the ports, the semaphores, the io context and the    *)
(* process itself are freed.                                               *)
ExitFree(c) ==
    /\ On(c, "x_free")
    /\ proc' = NoProc
    /\ Goes(c, [th[cur[c]] EXCEPT !.pc = "x_sem"])
    /\ UNCHANGED <<procs, plock, next_id, sems, deathVars>>

(* return_code_sem is deleted: those who wait for it are READY and, in a   *)
(* second critical section, in the run queues.                             *)
ExitSem(c) ==
    LET t == cur[c]
        W == {u \in All : th[u].wait = "thread" /\ th[u].tgt = th[t].id}
    IN  /\ On(c, "x_sem")
        /\ sems' = sems \ {th[t].id}
        /\ th' = [u \in All |->
                    IF u = t THEN [th[t] EXCEPT !.todo = W,
                                     !.pc = IF W = {} THEN "x_stack" ELSE "x_wake"]
                    ELSE IF u \in W THEN WakeUp(th[u]) ELSE th[u]]
        /\ UNCHANGED <<schedVars, next_id, procVars, deathVars>>

ExitWake(c) ==
    LET t == cur[c]
    IN  /\ On(c, "x_wake")
        /\ Resched(c, [th EXCEPT ![t].todo = {}, ![t].pc = "x_stack"],
                   Enqueue(runq, th[t].todo))
        /\ UNCHANGED <<next_id, sems, procVars, deathVars>>

(* get_death_stack.                                                        *)
ExitStack(c) ==
    /\ On(c, "x_stack")
    /\ LET r == [th[cur[c]] EXCEPT !.pc = "x_bit"]
       IN  IF free > 0 THEN free' = free - 1 /\ Goes(c, r)
           ELSE Block(c, [r EXCEPT !.wait = "death"]) /\ UNCHANGED free
    /\ UNCHANGED <<next_id, sems, procVars, bitmap, jam>>

FreeStackAny == {i \in Stacks : TRUE}
FreeStack == {i \in Stacks \ bitmap : \A j \in Stacks \ bitmap : i <= j}
ExitBit(c) ==
    /\ On(c, "x_bit")
    /\ \E i \in FreeStack :
          /\ bitmap' = bitmap \cup {i}
          /\ Goes(c, [th[cur[c]] EXCEPT !.stack = i, !.pc = "x_unlist"])
    /\ UNCHANGED <<free, jam, next_id, sems, procVars>>

(* thread_exit2, on the death stack.                                       *)
ExitUnlist(c) ==
    /\ On(c, "x_unlist") /\ plock = None
    /\ Goes(c, [th[cur[c]] EXCEPT !.hashed = FALSE, !.next = "FREE",
                                  !.proc = "none", !.pc = "x_put"])
    /\ UNCHANGED <<next_id, sems, procVars, deathVars>>

(* A unit of death_stack_sem goes to one who waits, or stays.              *)
FreeAfter(W) == IF W = {} THEN free + 1 ELSE free

(* put_death_stack_and_reschedule: release_sem_etc takes the thread lock,  *)
(* which is held, when somebody waits for a death stack; a single CPU does *)
(* not spin.                                                               *)
ExitPut(c) ==
    LET t == cur[c]
        W == {u \in All : th[u].wait = "death"}
    IN  /\ On(c, "x_put")
        /\ IF W # {} /\ Cardinality(Cpus) > 1
           THEN jam' = TRUE /\ UNCHANGED <<th, schedVars, bitmap, free>>
           ELSE /\ bitmap' = bitmap \ {th[t].stack}
                /\ free' = FreeAfter(W)
                /\ \E first \in SUBSET W :
                      /\ Cardinality(first) = (IF W = {} THEN 0 ELSE 1)
                      /\ Resched(c, [u \in All |-> IF u \in first THEN WakeUp(th[u])
                                                   ELSE th[u]],
                                 Enqueue(runq, first))
                /\ UNCHANGED jam
        /\ UNCHANGED <<next_id, sems, procVars>>

-----------------------------------------------------------------------------
(* The calls of a thread that is in the kernel.                            *)
exit(c) ==
    /\ cur[c] # Kernel /\ Goes(c, [th[cur[c]] EXCEPT !.pc = "x_move"])
    /\ UNCHANGED <<next_id, sems, procVars, deathVars>>

Call(c) ==
    /\ On(c, "kern")
    /\ \/ \E u \in Structs : \/ thread_suspend_thread(c, u)
                           \/ thread_resume_thread(c, u)
                           \/ thread_set_priority(c, u)
                           \/ \E wait \in BOOLEAN : Kill(c, u, wait)
                           \/ thread_wait_on_thread(c, u)
       \/ ProcCall(c, "w_look") \/ ProcCall(c, "k_main")
       \/ thread_snooze(c) \/ InterruptibleWait(c) \/ exit(c)

Step(c) ==
    \/ thread_atkernel_exit(c) \/ CreateInsert(c) \/ CreateAbort(c) \/ CreateDone(c)
    \/ ProcResume(c) \/ proc_create_proc2(c) \/ WaitLook(c) \/ WaitAcquire(c)
    \/ KillMain(c) \/ ExitMove(c) \/ ExitKill(c) \/ ExitKillNext(c) \/ ExitKillDone(c)
    \/ ExitWait(c) \/ ExitFree(c) \/ ExitSem(c) \/ ExitWake(c) \/ ExitStack(c)
    \/ ExitBit(c) \/ ExitUnlist(c) \/ ExitPut(c)

Next ==
    /\ ~jam
    /\ \/ \E c \in Cpus : \/ Preempt(c) \/ Interrupt(c) \/ thread_atkernel_entry(c)
                         \/ Step(c) \/ Call(c)
                         \/ proc_create_proc(c) \/ create_thread_struct(c)
       \/ \E t \in All : Wake(t)

Spec == Init /\ [][Next]_vars

(* Threads that were woken and are in the local queue of the one who did.  *)
Woken == UNION {th[t].todo : t \in {u \in All : th[u].pc = "x_wake"}}

(* thread_set_priority comes after, not into, the second half of a wakeup. *)
PriorityLate == \A t \in Woken : runq'[t] > runq[t] => t \notin Woken'

NextLate == Next /\ PriorityLate
SpecLate == Init /\ [][NextLate]_vars

(* A quantum ends, and a thread that is again and again in the run queues  *)
(* gets its turn whatever the random skip does; it gets somewhere in its   *)
(* quantum; and a snooze ends.                                             *)
Quantum(t) == \E c \in Cpus : Preempt(c) /\ cur'[c] = t
Runs(t) == \E c \in Cpus : cur[c] = t /\ (Step(c) \/ Call(c))
Fairness ==
    /\ \A t \in All : SF_vars(Quantum(t)) /\ SF_vars(Runs(t))
    /\ \A t \in Structs : WF_vars(th[t].wait = "snooze" /\ Wake(t))

-----------------------------------------------------------------------------
States == {"NONE", "BIRTH", "SUSPENDED", "READY", "RUNNING", "WAITING", "FREE"}

(* The types of the variables; thread_enqueue_run_q, thread_dequeue and    *)
(* thread_resched never link a thread twice.                               *)
ThreadTypeOK ==
    /\ \A t \in All : /\ th[t].state \in States /\ th[t].next \in States
                       /\ th[t].sig \subseteq {"KILL", "SUSPEND"}
                       /\ th[t].todo \subseteq All /\ th[t].stack \in {0} \cup Stacks
    /\ cur \in [Cpus -> All \cup {None}] /\ runq \in [All -> {0, 1}]
    /\ dead_q \subseteq Structs
    /\ proc.threads \subseteq Structs /\ proc.main \in Structs \cup {None}
    /\ plock \in All \cup {None}
    /\ sems \subseteq 1 .. MaxId /\ next_id \in 1 .. MaxId + 1
    /\ bitmap \subseteq Stacks /\ free \in Nat /\ jam \in BOOLEAN

(* Through every resume, kill, wakeup, wait and thread_resched, a READY    *)
(* thread is in a run queue, once, or about to be put into one; a RUNNING  *)
(* thread runs on one CPU; and nobody else is queued or runs.              *)
OnePlace ==
    \A t \in All :
        LET cpus == Cardinality({c \in Cpus : cur[c] = t})
            links == runq[t] + (IF t \in Woken THEN 1 ELSE 0)
        IN  /\ links = (IF th[t].state = "READY" THEN 1 ELSE 0)
            /\ cpus = (IF th[t].state = "RUNNING" THEN 1 ELSE 0)

(* thread_exit frees a process only when no thread is in it any more:      *)
(* every thread that points to the process is counted in it, and whoever   *)
(* takes the process apart is its main thread and finds it there.          *)
ProcKept ==
    /\ \A t \in Structs : th[t].proc = "user" <=> t \in proc.threads
    /\ proc.threads # {} => proc.alloc
    /\ \A t \in All : th[t].pc \in {"x_kill", "x_killing", "x_wait", "x_free"} =>
                         proc.alloc /\ proc.main = t

(* Once thread_exit of the main thread has gone round the thread list,     *)
(* every thread that is still in the process has its kill pending or is on *)
(* its way out: none was created in between (_create_thread) or missed.    *)
Doomed ==
    proc.state = "death" /\ (\E t \in Structs : th[t].pc \in {"x_wait", "x_free"}) =>
        \A t \in proc.threads : "KILL" \in th[t].sig \/ th[t].pc = "x_move"

(* thread_exit of a main thread ends its process after all its threads.    *)
ProcessEndsLast == ProcKept /\ Doomed

(* Between get_death_stack and put_death_stack_and_reschedule a death      *)
(* stack has one user, and the semaphore, the bitmap and the threads agree *)
(* on how many are in use.                                                 *)
Dying == {t \in Structs : th[t].pc \in {"x_unlist", "x_put"} /\ t \notin dead_q}
DeathStacks ==
    /\ \A t, u \in Dying : th[t].stack = th[u].stack => t = u
    /\ bitmap = {th[t].stack : t \in Dying}
    /\ free + Cardinality(bitmap) +
         Cardinality({t \in Structs : th[t].pc = "x_bit" /\ th[t].wait = "no"})
           = Cardinality(Stacks)

(* What create_thread_struct may take from dead_q for a new thread is in   *)
(* no other list: not in thread_hash, a process, a run queue or the hands  *)
(* of anybody who creates, kills or wakes threads.                         *)
DeadIsDead ==
    \A t \in dead_q : /\ th[t].state = "FREE" /\ ~th[t].hashed /\ runq[t] = 0
                      /\ th[t].id \notin sems /\ t \notin proc.threads
                      /\ \A u \in All : t \notin th[u].todo /\ th[u].obj # t

(* A struct thread is in one place all its life: created, queued, running, *)
(* waiting, dead in dead_q and recycled.                                   *)
ThreadInOnePlace == ThreadTypeOK /\ OnePlace /\ DeadIsDead

(* A thread for which SIG_KILL is pending comes to the end of thread_exit. *)
KilledDies ==
    \A i \in 1 .. MaxId :
        (\E t \in Lookup(i) : "KILL" \in th[t].sig) ~> Lookup(i) = {}

(* When thread_exit of the main thread has closed the process, the other   *)
(* threads die and it frees the process.                                   *)
ProcDies == proc.state = "death" ~> ~proc.alloc

(* proc_kill_proc, called from outside the process, returns.               *)
ProcKillReturns ==
    th[Kernel].pc = "k_main" ~>
        th[Kernel].state = "RUNNING" /\ th[Kernel].pc = "kern"

(* A kill, of a thread or of a process, comes to its end.                  *)
DyingEnds == KilledDies /\ ProcDies /\ ProcKillReturns
=============================================================================
