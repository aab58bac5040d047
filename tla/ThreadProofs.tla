---------------------------- MODULE ThreadProofs ----------------------------
(***************************************************************************)
(* The proofs about Thread: a thread is in one place, a process ends after *)
(* its threads, and a death stack has one user, for any numbers of         *)
(* threads, processes and CPUs.                                            *)
(***************************************************************************)
EXTENDS Thread, FiniteSetTheorems, TLAPS

-----------------------------------------------------------------------------
(* Where a thread may be.  Plain: in user mode, or in a call that has no   *)
(* part in creation or exit.  Main: the main thread takes its process      *)
(* apart.  Late: return_code_sem is deleted.                               *)
PlainPcs  == {"user", "kern", "ret", "out", "w_look", "w_acq", "k_main"}
UserPcs   == PlainPcs \cup {"load", "c_insert", "c_done", "x_move"}
KernelPcs == {"kern", "p_create", "c_insert", "c_done", "p_resume", "w_look", "w_acq",
              "k_main"}
MainPcs   == {"x_kill", "x_killing", "x_wait", "x_free"}
LatePcs   == {"x_wake", "x_stack", "x_bit", "x_unlist"}
Pcs == UserPcs \cup KernelPcs \cup MainPcs \cup LatePcs \cup {"none", "x_sem", "x_put"}

ThreadRec ==
    [state : States, next : States, id : Nat, hashed : BOOLEAN,
     proc : {"none", "kernel", "user"}, sig : SUBSET {"KILL", "SUSPEND"},
     in_kernel : BOOLEAN, pc : Pcs, wait : {"no", "snooze", "sem", "thread", "death"},
     obj : Structs \cup {None}, tgt : Nat, todo : SUBSET All, stack : {0} \cup Stacks]

(* The fields of one struct thread agree with each other.                  *)
StateShape(r) ==
    /\ r.state = "NONE" <=> r.pc = "none"
    /\ r.next = "NONE" <=> r.pc = "none"
    /\ r.next \in {"NONE", "SUSPENDED", "READY", "WAITING", "FREE"}
    /\ r.next = "FREE" <=> r.pc = "x_put"
    /\ r.state = "BIRTH" => r.pc \in {"load", "ret"}
    /\ r.state = "FREE" => r.pc = "x_put"
    /\ r.pc = "x_put" => r.state \in {"RUNNING", "FREE"}
HandShape(r) ==
    /\ r.todo # {} => r.pc \in {"x_killing", "x_wake"}
    /\ r.obj # None <=> r.pc \in {"c_insert", "c_done"}
    /\ r.wait = "death" => r.pc = "x_bit"
    /\ r.pc = "x_bit" => r.wait \in {"no", "death"}
    /\ r.pc \in {"x_unlist", "x_put"} => r.stack # 0
ProcShape(r) ==
    /\ r.pc \in UserPcs => r.proc = "user" \/ (r.proc = "none" /\ r.state = "BIRTH")
    /\ r.pc \in MainPcs \cup LatePcs \cup {"x_sem"} => r.proc = "kernel"
    /\ r.pc \in {"none", "x_put"} => r.proc = "none"
    /\ r.hashed <=> r.pc \notin {"none", "x_put"}
Shape(t, r) ==
    /\ r \in ThreadRec /\ StateShape(r) /\ HandShape(r)
    /\ IF t = Kernel
       THEN r.pc \in KernelPcs /\ r.proc = "kernel" /\ r.state \notin {"NONE", "BIRTH", "FREE"}
       ELSE r.pc \notin {"p_create", "p_resume"} /\ ProcShape(r)
Waits(r) == r.wait # "no" => r.state = "WAITING"
ShapeInv == th \in [All -> ThreadRec] /\ \A t \in All : Shape(t, th[t]) /\ Waits(th[t])

(* Who is in the local queue of a thread that woke it.                     *)
Hand(f, u, t) == f[u].pc = "x_wake" /\ t \in f[u].todo

(* With the threads f and the run queues q: who runs is RUNNING, who is    *)
(* READY is linked once or about to be, and the dead are in dead_q.        *)
RunOK(f) ==
    /\ cur \in [Cpus -> All \cup {None}]
    /\ \A c \in Cpus : cur[c] # None => f[cur[c]].state = "RUNNING"
    /\ \A c, d \in Cpus : cur[c] = cur[d] /\ cur[c] # None => c = d
    /\ \A t \in All : f[t].state = "RUNNING" => \E c \in Cpus : cur[c] = t
QueueOK(f, q) ==
    /\ q \in [All -> {0, 1}]
    /\ \A t \in All : f[t].state = "READY" <=> q[t] = 1 \/ \E u \in All : Hand(f, u, t)
    /\ \A t, u \in All : Hand(f, u, t) => q[t] = 0
    /\ \A t, u, v \in All : Hand(f, u, t) /\ Hand(f, v, t) => u = v
DeadOK(f) == dead_q \subseteq Structs /\ \A t \in Structs : t \in dead_q <=> f[t].state = "FREE"
SchedInv == RunOK(th) /\ QueueOK(th, runq) /\ DeadOK(th)

(* The process has its threads and its main thread until that one frees    *)
(* it.                                                                     *)
ProcType ==
    proc \in [alloc : BOOLEAN, hashed : BOOLEAN, state : {"none", "birth", "normal", "death"},
              threads : SUBSET Structs, main : Structs \cup {None}]
ProcInv ==
    /\ ProcType
    /\ proc.alloc <=> proc.state # "none"
    /\ proc.hashed <=> proc.state \in {"birth", "normal"}
    /\ \A t \in Structs : th[t].proc = "user" <=> t \in proc.threads
    /\ proc.threads # {} => proc.state # "none"
    /\ proc.state \in {"birth", "normal"} /\ proc.main # None => proc.main \in proc.threads
    /\ \A t \in Structs : /\ th[t].pc \in MainPcs => proc.state = "death" /\ proc.main = t
                          /\ th[t].pc = "x_free" => proc.threads = {}
                          /\ th[t].pc = "load" /\ th[t].proc = "user" =>
                                proc.main = t /\ proc.state = "birth"

(* A new process has no thread.                                            *)
Empty == proc.state = "birth" /\ proc.threads = {} /\ proc.main = None

(* Who creates a thread has it to himself.                                 *)
CreateInv ==
    /\ th[Kernel].pc = "p_create" => Empty
    /\ \A t \in All, s \in Structs : th[t].obj = s =>
          /\ th[s].state = "BIRTH"
          /\ th[s].proc = IF th[t].pc = "c_insert" THEN "none" ELSE "user"
          /\ th[s].pc = "load" => t = Kernel /\ (th[t].pc = "c_insert" => Empty)
    /\ \A t, u \in All : th[t].obj = th[u].obj /\ th[t].obj # None => t = u

(* The main thread kills all others, and nobody joins them.                *)
DoomedThread(r) == "KILL" \in r.sig \/ r.pc = "x_move"
KillInv ==
    /\ plock \in All \cup {None}
    /\ \A t \in All : th[t].pc = "x_killing" <=> plock = t
    /\ \A t \in Structs : th[t].pc = "x_killing" =>
          /\ th[t].todo \subseteq proc.threads
          /\ \A u \in proc.threads \ th[t].todo : DoomedThread(th[u])
    /\ \A t \in Structs : th[t].pc = "x_wait" =>
          \A u \in proc.threads : DoomedThread(th[u])

(* The units of death_stack_sem are those of the free stacks; a thread at  *)
(* x_bit that waits no more has one in hand.                               *)
Bits == {t \in Structs : th[t].pc = "x_bit" /\ th[t].wait = "no"}
OnStack(t) == th[t].pc \in {"x_unlist", "x_put"} /\ th[t].state # "FREE"
StackInv ==
    /\ bitmap \subseteq Stacks /\ free \in Nat /\ jam \in BOOLEAN
    /\ \A t, u \in Structs : OnStack(t) /\ OnStack(u) /\ th[t].stack = th[u].stack => t = u
    /\ \A i \in Stacks : i \in bitmap <=> \E t \in Structs : OnStack(t) /\ th[t].stack = i
    /\ free + Cardinality(bitmap) + Cardinality(Bits) = Cardinality(Stacks)

(* Ids grow, and the semaphore of a thread that is late is deleted.        *)
IdInv ==
    /\ next_id \in 1 .. MaxId + 1
    /\ \A i \in sems : i \in 1 .. next_id - 1
    /\ \A t \in All : /\ th[t].id < next_id
                      /\ th[t].pc \in LatePcs \cup {"x_put"} => th[t].id \notin sems

SharedInv == ProcInv /\ CreateInv /\ KillInv /\ StackInv /\ IdInv
ThreadInductive == ShapeInv /\ SchedInv /\ SharedInv

-----------------------------------------------------------------------------
(* thread_resched.                                                         *)

(* What thread_resched leaves alone in a struct thread: all but the states *)
(* and the place of one that is let out of the kernel.                     *)
Kept(r, s) ==
    /\ s.id = r.id /\ s.hashed = r.hashed /\ s.proc = r.proc /\ s.sig = r.sig
    /\ s.wait = r.wait /\ s.obj = r.obj /\ s.tgt = r.tgt /\ s.todo = r.todo
    /\ s.stack = r.stack
    /\ s.pc = r.pc \/ (r.pc = "out" /\ s.pc = "user")

(* Thread n runs on c now; what became of it and of the one before it.     *)
Switched(c, f, q, n) ==
    /\ cur' = [cur EXCEPT ![c] = n]
    /\ th' \in [All -> ThreadRec] /\ runq' \in [All -> {0, 1}]
    /\ \A u \in All : th'[u] \in ThreadRec /\ Kept(f[u], th'[u])
    /\ \A u \in All : u # n /\ u # cur[c] =>
          th'[u].state = f[u].state /\ th'[u].next = f[u].next /\ runq'[u] = q[u]
    /\ n # None =>
          /\ \/ n = cur[c] /\ f[n].next = "READY"
             \/ n # cur[c] /\ q[n] = 1 /\ f[n].state = "READY"
          /\ th'[n].state = "RUNNING" /\ th'[n].next = "READY" /\ runq'[n] = 0
    /\ cur[c] # None /\ cur[c] # n =>
          /\ th'[cur[c]].state = f[cur[c]].next /\ th'[cur[c]].next = f[cur[c]].next
          /\ runq'[cur[c]] = IF f[cur[c]].next = "READY" THEN 1 ELSE 0
    /\ dead_q' = dead_q \cup {u \in Structs : u = cur[c] /\ f[u].next = "FREE"}

(* A record with another state.                                            *)
LEMMA StateSet ==
    ASSUME NEW r \in ThreadRec, NEW x \in States
    PROVE  LET s == [r EXCEPT !.state = x]
           IN  s \in ThreadRec /\ Kept(r, s) /\ s.state = x /\ s.next = r.next
BY DEF ThreadRec, Kept

(* What becomes of a thread that is switched in.                           *)
LEMMA SwitchedInFacts ==
    ASSUME NEW r \in ThreadRec
    PROVE  LET s == SwitchedIn(r)
           IN  s \in ThreadRec /\ Kept(r, s) /\ s.state = "RUNNING" /\ s.next = "READY"
<1>1. CASE r.pc = "out"
  BY ZenonT(30), <1>1 DEF SwitchedIn, ThreadRec, Kept, States, Pcs, UserPcs, PlainPcs
<1>2. CASE r.pc # "out"
  BY <1>2 DEF SwitchedIn, ThreadRec, Kept, States
<1> QED BY <1>1, <1>2

(* Kept is transitive over a change of the state only.                     *)
LEMMA KeptTwice ==
    ASSUME NEW r \in ThreadRec, NEW x \in States
    PROVE  LET s == SwitchedIn([r EXCEPT !.state = x])
           IN  s \in ThreadRec /\ Kept(r, s) /\ s.state = "RUNNING" /\ s.next = "READY"
<1> DEFINE m == [r EXCEPT !.state = x]
<1>1. m \in ThreadRec /\ Kept(r, m) /\ m.pc = r.pc
  BY DEF ThreadRec, Kept
<1> HIDE DEF m
<1>2. SwitchedIn(m) \in ThreadRec /\ Kept(m, SwitchedIn(m))
      /\ SwitchedIn(m).state = "RUNNING" /\ SwitchedIn(m).next = "READY"
  BY <1>1, SwitchedInFacts
<1>3. Kept(r, SwitchedIn(m))
  BY <1>1, <1>2 DEF Kept
<1> QED BY <1>2, <1>3 DEF m

(* Linking threads that are not linked.                                    *)
LEMMA EnqueueFacts ==
    ASSUME NEW q \in [All -> {0, 1}], NEW S \in SUBSET All, \A t \in S : q[t] = 0
    PROVE  /\ Enqueue(q, S) \in [All -> {0, 1}]
           /\ \A t \in All : Enqueue(q, S)[t] = IF t \in S THEN 1 ELSE q[t]
BY DEF Enqueue

(* thread_resched, thread by thread.                                       *)
LEMMA ReschedSwitches ==
    ASSUME NEW c \in Cpus, NEW f \in [All -> ThreadRec], NEW q, RunOK(f), QueueOK(f, q),
           Resched(c, f, q)
    PROVE  \E n \in All \cup {None} : Switched(c, f, q, n)
<1> DEFINE t == cur[c]
           q1 == IF t # None /\ Requeues(f[t]) THEN Enqueue(q, {t}) ELSE q
           left == IF t = None THEN f ELSE [f EXCEPT ![t].state = f[t].next]
           ready == {u \in All : q1[u] > 0}
<1>0. None \notin All /\ (t = None \/ t \in All)
  BY ThreadAssumption DEF RunOK, All
<1>1. PICK n \in ready \cup {None} :
         /\ n = None => ready = {}
         /\ cur' = [cur EXCEPT ![c] = n]
         /\ runq' = IF n = None THEN q1 ELSE [q1 EXCEPT ![n] = @ - 1]
         /\ th' = IF n = None THEN left ELSE [left EXCEPT ![n] = SwitchedIn(@)]
         /\ dead_q' = dead_q \cup {u \in Structs : u = t /\ f[u].next = "FREE"}
  BY DEF Resched
<1>2. q \in [All -> {0, 1}] /\ (t # None => q[t] = 0 /\ f[t].state = "RUNNING")
  <2>1. \A u \in All : f[u].state # "READY" => q[u] = 0
    BY DEF QueueOK
  <2> QED BY <1>0, <2>1 DEF RunOK, QueueOK
<1>3. /\ q1 \in [All -> {0, 1}]
      /\ \A u \in All : u # t => q1[u] = q[u]
      /\ t # None => q1[t] = IF f[t].next = "READY" THEN 1 ELSE 0
  <2>1. CASE t # None /\ Requeues(f[t])
    <3>1. /\ Enqueue(q, {t}) \in [All -> {0, 1}]
          /\ \A u \in All : Enqueue(q, {t})[u] = IF u \in {t} THEN 1 ELSE q[u]
      BY <1>0, <1>2, <2>1, EnqueueFacts
    <3> QED BY <1>0, <2>1, <3>1 DEF Requeues
  <2>2. CASE ~(t # None /\ Requeues(f[t]))
    BY <1>0, <1>2, <2>2 DEF Requeues
  <2> QED BY <2>1, <2>2
<1>4. /\ left \in [All -> ThreadRec]
      /\ \A u \in All : u # t => left[u] = f[u]
      /\ t # None => left[t] = [f[t] EXCEPT !.state = f[t].next]
  <2>1. t # None => f[t].next \in States /\ [f[t] EXCEPT !.state = f[t].next] \in ThreadRec
    <3>1. t # None => f[t] \in ThreadRec
      BY <1>0
    <3>2. t # None => f[t].next \in States
      BY <3>1 DEF ThreadRec
    <3> QED BY <3>1, <3>2, StateSet
  <2> QED BY <1>0, <2>1
<1> HIDE DEF q1, left
<1>5. n \in All \cup {None} /\ (n # None => n \in All /\ q1[n] = 1)
  BY <1>1, <1>3, <1>0
<1>6. runq' \in [All -> {0, 1}] /\ (n # None => runq'[n] = 0)
      /\ \A u \in All : u # n => runq'[u] = q1[u]
  BY <1>0, <1>1, <1>3, <1>5
<1>7. /\ DOMAIN th' = All
      /\ \A u \in All : u # n => th'[u] = left[u]
      /\ n # None => th'[n] = SwitchedIn(left[n])
  BY <1>0, <1>1, <1>4, <1>5
<1>8. ASSUME NEW u \in All
      PROVE  th'[u] \in ThreadRec /\ Kept(f[u], th'[u])
  <2>1. f[u] \in ThreadRec /\ f[u].next \in States
    BY DEF ThreadRec
  <2>2. CASE u # n /\ u # t
    BY <1>4, <1>7, <2>1, <2>2 DEF Kept
  <2>3. CASE u # n /\ u = t
    BY <1>0, <1>4, <1>7, <2>1, <2>3, StateSet
  <2>4. CASE u = n /\ u # t
    BY <1>0, <1>4, <1>7, <2>1, <2>4, SwitchedInFacts
  <2>5. CASE u = n /\ u = t
    <3>1. th'[u] = SwitchedIn([f[u] EXCEPT !.state = f[u].next])
      BY <1>0, <1>4, <1>7, <2>5
    <3> QED BY <2>1, <3>1, KeptTwice
  <2> QED BY <2>2, <2>3, <2>4, <2>5
<1>9. ASSUME n # None
      PROVE  th'[n].state = "RUNNING" /\ th'[n].next = "READY"
  <2>1. left[n] \in ThreadRec
    BY <1>4, <1>5, <1>9
  <2> QED BY <1>7, <1>9, <2>1, SwitchedInFacts
<1>10. ASSUME n # None
       PROVE  \/ n = t /\ f[n].next = "READY"
              \/ n # t /\ q[n] = 1 /\ f[n].state = "READY"
  BY <1>0, <1>3, <1>5, <1>10 DEF QueueOK
<1>11. ASSUME t # None, t # n
       PROVE  th'[t].state = f[t].next /\ th'[t].next = f[t].next
  <2>1. f[t] \in ThreadRec /\ f[t].next \in States
    BY <1>0, <1>11 DEF ThreadRec
  <2>2. th'[t] = [f[t] EXCEPT !.state = f[t].next]
    BY <1>0, <1>4, <1>7, <1>11
  <2> QED BY <2>1, <2>2 DEF ThreadRec
<1>12. \A u \in All : u # n /\ u # t =>
          th'[u].state = f[u].state /\ th'[u].next = f[u].next /\ runq'[u] = q[u]
  BY <1>3, <1>4, <1>6, <1>7
<1>13. t # None /\ t # n => runq'[t] = IF f[t].next = "READY" THEN 1 ELSE 0
  BY <1>0, <1>3, <1>6
<1>14. Switched(c, f, q, n)
  <2>1. th' \in [All -> ThreadRec]
    BY <1>1, <1>4, <1>8
  <2> QED BY <2>1, <1>1, <1>6, <1>7, <1>8, <1>9, <1>10, <1>11, <1>12, <1>13 DEF Switched
<1> QED BY <1>5, <1>14

(* thread_resched keeps everybody in one place.                            *)
LEMMA ReschedSched ==
    ASSUME NEW c \in Cpus, NEW f \in [All -> ThreadRec], NEW q, RunOK(f), QueueOK(f, q), DeadOK(f),
           \A u \in All : StateShape(f[u]), f[Kernel].next # "FREE",
           NEW n \in All \cup {None}, Switched(c, f, q, n)
    PROVE  SchedInv'
<1> DEFINE t == cur[c]
<1>0. None \notin All /\ (t = None \/ t \in All) /\ (t # None => f[t].state = "RUNNING")
  BY ThreadAssumption DEF RunOK, All
<1>1. cur' = [cur EXCEPT ![c] = n] /\ cur \in [Cpus -> All \cup {None}]
  BY DEF Switched, RunOK
<1>2. \A u \in All : u # n /\ u # t => th'[u].state = f[u].state /\ runq'[u] = q[u]
  BY DEF Switched
<1>3. n # None => /\ n = t \/ (q[n] = 1 /\ f[n].state = "READY")
                  /\ th'[n].state = "RUNNING" /\ runq'[n] = 0
  BY DEF Switched
<1>4. t # None /\ t # n => /\ th'[t].state = f[t].next
                           /\ runq'[t] = IF f[t].next = "READY" THEN 1 ELSE 0
  BY DEF Switched
<1>5. \A u, v \in All : Hand(th, u, v)' <=> Hand(f, u, v)
  BY DEF Switched, Kept, Hand
<1>6. t # None => f[t].next \notin {"RUNNING", "NONE", "BIRTH"}
  BY <1>0 DEF StateShape
<1>7. \A d \in Cpus : d # c /\ cur[d] # None => cur[d] # n /\ cur[d] # t /\ cur[d] \in All
                                              /\ f[cur[d]].state = "RUNNING"
  BY <1>0, <1>3 DEF RunOK
<1>8. RunOK(th)'
  <2>1. cur' \in [Cpus -> All \cup {None}]
    BY <1>1
  <2>2. ASSUME NEW d \in Cpus, cur'[d] # None
        PROVE  th'[cur'[d]].state = "RUNNING"
    <3>1. CASE d = c
      BY <1>1, <1>3, <2>2, <3>1
    <3>2. CASE d # c
      BY <1>1, <1>2, <1>7, <2>2, <3>2
    <3> QED BY <3>1, <3>2
  <2>3. ASSUME NEW d \in Cpus, NEW e \in Cpus, cur'[d] = cur'[e], cur'[d] # None
        PROVE  d = e
    <3>1. d # c /\ e # c => d = e
      BY <1>1, <2>3 DEF RunOK
    <3> QED BY <1>1, <1>7, <2>3, <3>1
  <2>4. ASSUME NEW u \in All, th'[u].state = "RUNNING"
        PROVE  \E d \in Cpus : cur'[d] = u
    <3>1. CASE u = n
      BY <1>1, <3>1
    <3>2. CASE u # n
      <4>1. u # t /\ f[u].state = "RUNNING"
        BY <1>0, <1>2, <1>4, <1>6, <2>4, <3>2
      <4>2. PICK d \in Cpus : cur[d] = u
        BY <4>1 DEF RunOK
      <4> QED BY <1>1, <4>1, <4>2
    <3> QED BY <3>1, <3>2
  <2> QED BY <2>1, <2>2, <2>3, <2>4 DEF RunOK
<1>9. ASSUME NEW u \in All
      PROVE  /\ th'[u].state = "READY" <=> runq'[u] = 1 \/ \E v \in All : Hand(th, v, u)'
             /\ \A v \in All : Hand(th, v, u)' => runq'[u] = 0
  <2>0. /\ f[u].state = "READY" <=> q[u] = 1 \/ \E v \in All : Hand(f, v, u)
        /\ \A v \in All : Hand(f, v, u) => q[u] = 0
    BY DEF QueueOK
  <2>1. CASE u = n
    <3>1. ~ \E v \in All : Hand(f, v, u)
      BY <1>0, <1>3, <2>0, <2>1
    <3> QED BY <1>0, <1>3, <1>5, <2>1, <3>1
  <2>2. CASE u # n /\ u = t
    <3>1. ~ \E v \in All : Hand(f, v, u)
      BY <1>0, <2>0, <2>2
    <3> QED BY <1>0, <1>4, <1>5, <2>2, <3>1
  <2>3. CASE u # n /\ u # t
    BY <1>2, <1>5, <2>0, <2>3
  <2> QED BY <2>1, <2>2, <2>3
<1>10. QueueOK(th, runq)'
  <2>1. runq' \in [All -> {0, 1}]
    BY DEF Switched
  <2>2. \A u, v, w \in All : Hand(th, v, u)' /\ Hand(th, w, u)' => v = w
    BY <1>5 DEF QueueOK
  <2> QED BY <1>9, <2>1, <2>2 DEF QueueOK
<1>11. DeadOK(th)'
  <2>1. dead_q' = dead_q \cup {u \in Structs : u = t /\ f[u].next = "FREE"}
    BY DEF Switched
  <2>2. ASSUME NEW u \in Structs
        PROVE  u \in dead_q' <=> th'[u].state = "FREE"
    <3>0. u \in All /\ (u \in dead_q <=> f[u].state = "FREE")
      BY DEF DeadOK, All
    <3>1. CASE u = n
      <4>1. f[u].state # "FREE"
        BY <1>0, <1>3, <3>1, <3>0
      <4>2. u = t => f[u].next = "READY"
        BY <1>0, <3>0, <3>1 DEF Switched
      <4> QED BY <1>0, <1>3, <2>1, <3>0, <3>1, <4>1, <4>2
    <3>2. CASE u # n /\ u = t
      BY <1>0, <1>4, <2>1, <3>0, <3>2
    <3>3. CASE u # n /\ u # t
      BY <1>2, <2>1, <3>0, <3>3
    <3> QED BY <3>1, <3>2, <3>3
  <2> QED BY <2>1, <2>2 DEF DeadOK
<1> QED BY <1>8, <1>10, <1>11 DEF SchedInv

(* thread_resched keeps the fields of every thread in agreement.  A thread *)
(* that is about to wait has next_state set for it.                        *)
LEMMA ReschedShape ==
    ASSUME NEW c \in Cpus, NEW f \in [All -> ThreadRec], NEW q, RunOK(f),
           \A u \in All : Shape(u, f[u]),
           \A u \in All : Waits(f[u]) \/ (u = cur[c] /\ f[u].next = "WAITING"),
           NEW n \in All \cup {None}, Switched(c, f, q, n)
    PROVE  ShapeInv'
<1> DEFINE t == cur[c]
<1>0. None \notin All /\ (t # None => f[t].state = "RUNNING")
  BY ThreadAssumption DEF RunOK, All
<1>1. ASSUME NEW u \in All
      PROVE  /\ th'[u] \in ThreadRec /\ Kept(f[u], th'[u]) /\ Shape(u, f[u])
             /\ StateShape(f[u]) /\ HandShape(f[u])
  BY DEF Switched, Shape
<1>2. ASSUME NEW u \in All
      PROVE  \/ th'[u].state = f[u].state /\ th'[u].next = f[u].next /\ u # n /\ u # t
             \/ /\ f[u].state \in {"RUNNING", "READY"}
                /\ f[u].next \notin {"FREE", "NONE"} \/ f[u].state = "READY"
                /\ th'[u].state = "RUNNING" /\ th'[u].next = "READY" /\ u = n
                /\ u = t => f[u].next = "READY"
             \/ /\ f[u].state = "RUNNING" /\ th'[u].state = f[u].next
                /\ th'[u].next = f[u].next /\ u = t
  <2>1. CASE u = n
    BY <1>0, <2>1 DEF Switched
  <2>2. CASE u # n /\ u = t
    BY <1>0, <2>2 DEF Switched
  <2>3. CASE u # n /\ u # t
    BY <2>3 DEF Switched
  <2> QED BY <2>1, <2>2, <2>3
<1>3. ASSUME NEW u \in All
      PROVE  StateShape(th'[u])
  <2>1. StateShape(f[u]) /\ Kept(f[u], th'[u])
    BY <1>1
  <2>2. CASE th'[u].state = f[u].state /\ th'[u].next = f[u].next
    BY <2>1, <2>2 DEF StateShape, Kept
  <2>3. CASE /\ f[u].state \in {"RUNNING", "READY"}
             /\ f[u].next \notin {"FREE", "NONE"} \/ f[u].state = "READY"
             /\ th'[u].state = "RUNNING" /\ th'[u].next = "READY"
    BY <2>1, <2>3 DEF StateShape, Kept
  <2>4. CASE f[u].state = "RUNNING" /\ th'[u].state = f[u].next /\ th'[u].next = f[u].next
    BY <2>1, <2>4 DEF StateShape, Kept
  <2> QED BY <1>2, <2>2, <2>3, <2>4
<1>4. ASSUME NEW u \in All
      PROVE  HandShape(th'[u])
  BY <1>1 DEF HandShape, Kept
<1>5. ASSUME NEW u \in All
      PROVE  /\ th'[u].state = "BIRTH" <=> f[u].state = "BIRTH"
             /\ th'[u].state = "NONE" <=> f[u].state = "NONE"
             /\ th'[u].state = "FREE" => f[u].state = "FREE" \/ f[u].pc = "x_put"
  <2>1. StateShape(f[u])
    BY <1>1
  <2> QED BY <1>2, <2>1 DEF StateShape
<1>6. ASSUME NEW u \in All, u # Kernel
      PROVE  th'[u].pc \notin {"p_create", "p_resume"} /\ ProcShape(th'[u])
  <2>1. f[u].pc \notin {"p_create", "p_resume"} /\ ProcShape(f[u])
    BY <1>1, <1>6 DEF Shape
  <2>2. Kept(f[u], th'[u]) /\ (f[u].state = "BIRTH" => f[u].pc \in {"load", "ret"})
    BY <1>1 DEF StateShape
  <2> QED BY <1>5, <2>1, <2>2 DEF ProcShape, Kept, UserPcs, PlainPcs, MainPcs, LatePcs
<1>7. ASSUME NEW u \in All, u = Kernel
      PROVE  /\ th'[u].pc \in KernelPcs /\ th'[u].proc = "kernel"
             /\ th'[u].state \notin {"NONE", "BIRTH", "FREE"}
  <2>1. /\ f[u].pc \in KernelPcs /\ f[u].proc = "kernel"
        /\ f[u].state \notin {"NONE", "BIRTH", "FREE"}
    BY <1>1, <1>7 DEF Shape
  <2>2. f[u].pc \notin {"out", "x_put"}
    BY <2>1 DEF KernelPcs
  <2>3. Kept(f[u], th'[u])
    BY <1>1
  <2> QED BY <1>5, <2>1, <2>2, <2>3 DEF Kept
<1>8. ASSUME NEW u \in All
      PROVE  Waits(th'[u])
  <2>1. th'[u].wait = f[u].wait
    BY <1>1 DEF Kept
  <2> QED BY <1>2, <2>1 DEF Waits
<1>9. th' \in [All -> ThreadRec]
  BY DEF Switched
<1>10. ASSUME NEW u \in All
       PROVE  Shape(u, th'[u])
  BY <1>1, <1>3, <1>4, <1>6, <1>7 DEF Shape
<1> QED BY <1>8, <1>9, <1>10 DEF ShapeInv

(* Where threads become READY and are linked, and nothing else moves.      *)
LEMMA SchedReady ==
    ASSUME SchedInv, NEW f, NEW q \in [All -> {0, 1}], NEW S \in SUBSET All,
           \A u \in All : f[u].state = IF u \in S THEN "READY" ELSE th[u].state,
           \A u, v \in All : Hand(f, u, v) <=> Hand(th, u, v),
           \A u \in All : q[u] = IF u \in S THEN 1 ELSE runq[u],
           \A u \in S : th[u].state \notin {"READY", "RUNNING", "FREE"}
    PROVE  RunOK(f) /\ QueueOK(f, q) /\ DeadOK(f)
<1>1. RunOK(f)
  BY ThreadAssumption DEF SchedInv, RunOK, All
<1>2. QueueOK(f, q)
  <2>1. ASSUME NEW u \in All
        PROVE  /\ f[u].state = "READY" <=> q[u] = 1 \/ \E v \in All : Hand(f, v, u)
               /\ \A v \in All : Hand(f, v, u) => q[u] = 0
    <3>1. /\ th[u].state = "READY" <=> runq[u] = 1 \/ \E v \in All : Hand(th, v, u)
          /\ \A v \in All : Hand(th, v, u) => runq[u] = 0
      BY DEF SchedInv, QueueOK
    <3> QED BY <3>1
  <2>2. \A t, u, v \in All : Hand(f, u, t) /\ Hand(f, v, t) => u = v
    BY DEF SchedInv, QueueOK
  <2> QED BY <2>1, <2>2 DEF QueueOK
<1>3. DeadOK(f)
  <2>1. Structs \subseteq All
    BY DEF All
  <2> QED BY <2>1 DEF SchedInv, DeadOK
<1> QED BY <1>1, <1>2, <1>3

(* The case that nobody becomes READY.                                     *)
LEMMA SchedSame ==
    ASSUME SchedInv, NEW f,
           \A u \in All : f[u].state = th[u].state,
           \A u, v \in All : Hand(f, u, v) <=> Hand(th, u, v)
    PROVE  RunOK(f) /\ QueueOK(f, runq) /\ DeadOK(f)
<1>1. runq \in [All -> {0, 1}]
  BY DEF SchedInv, QueueOK
<1> QED BY <1>1, SchedReady, {} \in SUBSET All

-----------------------------------------------------------------------------
(* Steps that have no part in creation and exit.                           *)

(* Thread u keeps its process, its id and what it has in hand, and goes on *)
(* only among the plain calls, to its exit at most.                        *)
CalmRec(r, s) ==
    /\ s.id = r.id /\ s.proc = r.proc /\ s.obj = r.obj /\ s.todo = r.todo
    /\ s.stack = r.stack
    /\ s.state = "BIRTH" <=> r.state = "BIRTH"
    /\ s.state = "FREE" <=> r.state = "FREE"
    /\ \/ s.pc = r.pc
       \/ r.pc \in PlainPcs \cup {"p_resume", "load"} /\ s.pc \in PlainPcs \cup {"x_move"}
    /\ DoomedThread(r) => DoomedThread(s)
    /\ r.pc = "x_bit" => (s.wait = "no" <=> r.wait = "no")
Calm == \A u \in All : CalmRec(th[u], th'[u])
SharedVars == <<next_id, sems, procVars, deathVars>>

(* What is shared is as before.                                            *)
LEMMA CalmKeeps ==
    ASSUME SharedInv, Calm, UNCHANGED SharedVars
    PROVE  SharedInv'
<1> USE DEF SharedVars, procVars, deathVars
<1>0. Structs \subseteq All /\ Kernel \in All
  BY DEF All
<1>1. ASSUME NEW u \in All
      PROVE  /\ th'[u].id = th[u].id /\ th'[u].proc = th[u].proc /\ th'[u].obj = th[u].obj
             /\ th'[u].todo = th[u].todo /\ th'[u].stack = th[u].stack
             /\ th'[u].state = "BIRTH" <=> th[u].state = "BIRTH"
             /\ th'[u].state = "FREE" <=> th[u].state = "FREE"
             /\ DoomedThread(th[u]) => DoomedThread(th'[u])
  BY DEF Calm, CalmRec
<1>2. ASSUME NEW u \in All
      PROVE  /\ \A p \in MainPcs \cup LatePcs \cup {"x_put", "c_insert", "c_done", "p_create"} :
                   th'[u].pc = p <=> th[u].pc = p
             /\ th'[u].pc = "load" => th[u].pc = "load"
  <2>1. \/ th'[u].pc = th[u].pc
        \/ /\ th[u].pc \in PlainPcs \cup {"p_resume", "load"}
           /\ th'[u].pc \in PlainPcs \cup {"x_move"}
    BY DEF Calm, CalmRec
  <2> QED BY <2>1 DEF PlainPcs, MainPcs, LatePcs
<1>3. ProcInv'
  <2>1. ProcType'
    BY DEF SharedInv, ProcInv, ProcType
  <2>2. \A t \in Structs : th'[t].proc = "user" <=> t \in proc'.threads
    BY <1>0, <1>1 DEF SharedInv, ProcInv
  <2>3. ASSUME NEW t \in Structs
        PROVE  /\ th'[t].pc \in MainPcs => proc'.state = "death" /\ proc'.main = t
               /\ th'[t].pc = "x_free" => proc'.threads = {}
               /\ th'[t].pc = "load" /\ th'[t].proc = "user" =>
                     proc'.main = t /\ proc'.state = "birth"
    <3>1. /\ th'[t].pc \in MainPcs => th[t].pc \in MainPcs
          /\ th'[t].pc = "x_free" => th[t].pc = "x_free"
          /\ th'[t].pc = "load" => th[t].pc = "load"
      BY <1>0, <1>2 DEF MainPcs
    <3> QED BY <1>0, <1>1, <3>1 DEF SharedInv, ProcInv
  <2> QED BY <2>1, <2>2, <2>3 DEF SharedInv, ProcInv
<1>4. CreateInv'
  <2>0. CreateInv /\ (Empty' <=> Empty)
    BY DEF SharedInv, Empty
  <2>1. th'[Kernel].pc = "p_create" => Empty'
    BY <1>0, <1>2, <2>0 DEF CreateInv
  <2>2. ASSUME NEW t \in All, NEW s \in Structs, th'[t].obj = s
        PROVE  /\ th'[s].state = "BIRTH"
               /\ th'[s].proc = IF th'[t].pc = "c_insert" THEN "none" ELSE "user"
               /\ th'[s].pc = "load" => t = Kernel /\ (th'[t].pc = "c_insert" => Empty')
    <3>1. th[t].obj = s /\ s \in All
      BY <1>0, <1>1, <2>2
    <3>2. (th'[t].pc = "c_insert" <=> th[t].pc = "c_insert") /\ (th'[s].pc = "load" => th[s].pc = "load")
      BY <1>2, <3>1
    <3> QED BY <1>1, <2>0, <3>1, <3>2 DEF CreateInv
  <2>3. \A t, u \in All : th'[t].obj = th'[u].obj /\ th'[t].obj # None => t = u
    BY <1>1, <2>0 DEF CreateInv
  <2> QED BY <2>1, <2>2, <2>3 DEF CreateInv
<1>5. KillInv'
  <2>1. \A t \in All : th'[t].pc = "x_killing" <=> plock' = t
    BY <1>2 DEF SharedInv, KillInv, MainPcs
  <2>2. ASSUME NEW t \in Structs, th'[t].pc = "x_killing"
        PROVE  /\ th'[t].todo \subseteq proc'.threads
               /\ \A u \in proc'.threads \ th'[t].todo : DoomedThread(th'[u])
    <3>1. th[t].pc = "x_killing" /\ th'[t].todo = th[t].todo /\ proc.threads \subseteq All
      BY <1>0, <1>1, <1>2, <2>2 DEF MainPcs, SharedInv, ProcInv, ProcType
    <3> QED BY <1>1, <3>1 DEF SharedInv, KillInv
  <2>3. ASSUME NEW t \in Structs, th'[t].pc = "x_wait"
        PROVE  \A u \in proc'.threads : DoomedThread(th'[u])
    <3>1. th[t].pc = "x_wait" /\ proc.threads \subseteq All
      BY <1>0, <1>2, <2>3 DEF MainPcs, SharedInv, ProcInv, ProcType
    <3> QED BY <1>1, <3>1 DEF SharedInv, KillInv
  <2>4. plock' \in All \cup {None}
    BY DEF SharedInv, KillInv
  <2> QED BY <2>1, <2>2, <2>3, <2>4 DEF KillInv
<1>6. StackInv'
  <2>1. \A t \in Structs : OnStack(t)' <=> OnStack(t)
    BY <1>0, <1>1, <1>2 DEF OnStack, LatePcs
  <2>2. Bits' = Bits
    <3>1. ASSUME NEW u \in Structs
          PROVE  /\ th'[u].pc = "x_bit" <=> th[u].pc = "x_bit"
                 /\ th[u].pc = "x_bit" => (th'[u].wait = "no" <=> th[u].wait = "no")
      BY <1>0, <1>2 DEF LatePcs, Calm, CalmRec
    <3> QED BY <3>1 DEF Bits
  <2>3. \A t \in Structs : th'[t].stack = th[t].stack
    BY <1>0, <1>1
  <2> QED BY <2>1, <2>2, <2>3 DEF SharedInv, StackInv
<1>7. IdInv'
  <2>1. \A t \in All : th'[t].id = th[t].id
    BY <1>1
  <2>2. \A t \in All : th'[t].pc \in LatePcs \cup {"x_put"} => th[t].pc \in LatePcs \cup {"x_put"}
    BY <1>2
  <2> QED BY <2>1, <2>2 DEF SharedInv, IdInv
<1> QED BY <1>3, <1>4, <1>5, <1>6, <1>7 DEF SharedInv

(* Threads become READY and are linked in a calm step.                     *)
LEMMA CalmReady ==
    ASSUME ThreadInductive, NEW S \in SUBSET All,
           th' \in [All -> ThreadRec], \A u \in All : Shape(u, th'[u]) /\ Waits(th'[u]),
           Calm, UNCHANGED SharedVars, cur' = cur, dead_q' = dead_q,
           \A u \in All : th'[u].state = IF u \in S THEN "READY" ELSE th[u].state,
           runq' \in [All -> {0, 1}],
           \A u \in All : runq'[u] = IF u \in S THEN 1 ELSE runq[u],
           \A u \in S : th[u].state \notin {"READY", "RUNNING", "FREE"}
    PROVE  ThreadInductive'
<1>1. \A u, v \in All : Hand(th, u, v)' <=> Hand(th, u, v)
  BY DEF Calm, CalmRec, Hand, PlainPcs
<1>2. \A u, v \in All : Hand(th', u, v) <=> Hand(th, u, v)
  BY <1>1 DEF Hand
<1>3. RunOK(th') /\ QueueOK(th', runq') /\ DeadOK(th')
  BY <1>2, SchedReady DEF ThreadInductive
<1>4. RunOK(th)' /\ DeadOK(th)' /\ QueueOK(th, runq)'
  BY <1>3 DEF RunOK, DeadOK, QueueOK, Hand
<1> QED BY <1>4, CalmKeeps DEF ThreadInductive, SchedInv, ShapeInv

(* A thread goes on in a calm step.                                        *)
LEMMA CalmGoes ==
    ASSUME ThreadInductive, NEW t \in All, NEW r,
           th' = [th EXCEPT ![t] = r], UNCHANGED schedVars, UNCHANGED SharedVars,
           Shape(t, r), Waits(r), CalmRec(th[t], r), r.state = th[t].state
    PROVE  ThreadInductive'
<1>1. th' \in [All -> ThreadRec] /\ th'[t] = r /\ \A u \in All : u # t => th'[u] = th[u]
  BY DEF ThreadInductive, ShapeInv, Shape
<1>2. \A u \in All : Shape(u, th'[u]) /\ Waits(th'[u])
  BY <1>1 DEF ThreadInductive, ShapeInv
<1>3. Calm
  BY <1>1 DEF Calm, CalmRec
<1>4. cur' = cur /\ dead_q' = dead_q /\ runq' = runq /\ runq \in [All -> {0, 1}]
  BY DEF schedVars, ThreadInductive, SchedInv, QueueOK
<1>5. \A u \in All : th'[u].state = IF u \in {} THEN "READY" ELSE th[u].state
  BY <1>1
<1> QED BY <1>1, <1>2, <1>3, <1>4, <1>5, CalmReady, {} \in SUBSET All

(* thread_resched in a calm step.                                          *)
LEMMA CalmResched ==
    ASSUME ThreadInductive, NEW c \in Cpus, NEW f \in [All -> ThreadRec],
           Resched(c, f, runq), UNCHANGED SharedVars,
           \A u \in All : Shape(u, f[u]) /\ CalmRec(th[u], f[u]) /\ f[u].state = th[u].state,
           \A u \in All : Waits(f[u]) \/ (u = cur[c] /\ f[u].next = "WAITING"),
           cur[c] # None => f[cur[c]].next # "FREE"
    PROVE  ThreadInductive'
<1>0. None \notin All /\ Kernel \in All
  BY ThreadAssumption DEF All
<1>1. \A u, v \in All : Hand(f, u, v) <=> Hand(th, u, v)
  BY DEF CalmRec, Hand, PlainPcs
<1>2. RunOK(f) /\ QueueOK(f, runq) /\ DeadOK(f)
  BY <1>1, SchedSame DEF ThreadInductive
<1>3. PICK n \in All \cup {None} : Switched(c, f, runq, n)
  BY <1>2, ReschedSwitches
<1>4. (\A u \in All : StateShape(f[u])) /\ f[Kernel].next # "FREE"
  BY <1>0 DEF Shape, StateShape, KernelPcs
<1>5. SchedInv'
  BY <1>2, <1>3, <1>4, ReschedSched
<1>6. ShapeInv'
  BY <1>2, <1>3, ReschedShape
<1>7. ASSUME NEW u \in All
      PROVE  CalmRec(th[u], th'[u])
  <2>1. Kept(f[u], th'[u]) /\ CalmRec(th[u], f[u])
    BY <1>3 DEF Switched
  <2>2. /\ th'[u].state = "BIRTH" <=> f[u].state = "BIRTH"
        /\ th'[u].state = "FREE" <=> f[u].state = "FREE"
    <3>1. CASE u = n
      <4>1. f[u].state \in {"RUNNING", "READY"} /\ th'[u].state = "RUNNING"
        BY <1>0, <1>2, <1>3, <3>1 DEF Switched, RunOK
      <4> QED BY <4>1
    <3>2. CASE u # n /\ u = cur[c]
      <4>1. f[u].state = "RUNNING" /\ th'[u].state = f[u].next /\ f[u].next # "FREE"
        BY <1>0, <1>2, <1>3, <3>2 DEF Switched, RunOK
      <4> QED BY <1>4, <4>1 DEF StateShape
    <3>3. CASE u # n /\ u # cur[c]
      BY <1>3, <3>3 DEF Switched
    <3> QED BY <3>1, <3>2, <3>3
  <2>3. \/ th'[u].pc = th[u].pc
        \/ /\ th[u].pc \in PlainPcs \cup {"p_resume", "load"}
           /\ th'[u].pc \in PlainPcs \cup {"x_move"}
    BY <2>1 DEF Kept, CalmRec, PlainPcs
  <2>4. DoomedThread(th[u]) => DoomedThread(th'[u])
    BY <2>1 DEF Kept, CalmRec, DoomedThread
  <2>5. th[u].pc = "x_bit" => (th'[u].wait = "no" <=> th[u].wait = "no")
    BY <2>1 DEF Kept, CalmRec
  <2>6. /\ th'[u].id = th[u].id /\ th'[u].proc = th[u].proc /\ th'[u].obj = th[u].obj
        /\ th'[u].todo = th[u].todo /\ th'[u].stack = th[u].stack
        /\ f[u].state = th[u].state
    BY <2>1 DEF Kept, CalmRec
  <2> QED BY <2>2, <2>3, <2>4, <2>5, <2>6 DEF CalmRec
<1> QED BY <1>5, <1>6, <1>7, CalmKeeps DEF ThreadInductive, Calm

(* The current thread becomes r and is rescheduled in a calm step.         *)
LEMMA CalmBlock ==
    ASSUME ThreadInductive, NEW c \in Cpus, NEW t \in All, t = cur[c], NEW r,
           Resched(c, [th EXCEPT ![t] = r], runq), UNCHANGED SharedVars,
           Shape(t, r), CalmRec(th[t], r), r.state = th[t].state,
           Waits(r) \/ r.next = "WAITING", r.next # "FREE"
    PROVE  ThreadInductive'
<1> DEFINE f == [th EXCEPT ![t] = r]
<1>1. f[t] = r /\ \A u \in All : u # t => f[u] = th[u]
  BY DEF ThreadInductive, ShapeInv
<1>2. f \in [All -> ThreadRec]
  BY DEF ThreadInductive, ShapeInv, Shape
<1>3. Resched(c, f, runq)
  OBVIOUS
<1> HIDE DEF f
<1>4. \A u \in All : Shape(u, f[u]) /\ f[u].state = th[u].state
  BY <1>1 DEF ThreadInductive, ShapeInv
<1>5. \A u \in All : CalmRec(th[u], f[u])
  BY <1>1 DEF CalmRec
<1>6. \A u \in All : Waits(f[u]) \/ (u = cur[c] /\ f[u].next = "WAITING")
  BY <1>1 DEF ThreadInductive, ShapeInv
<1>7. cur[c] # None => f[cur[c]].next # "FREE"
  BY <1>1
<1> QED BY <1>2, <1>3, <1>4, <1>5, <1>6, <1>7, CalmResched

(* What a plain call leaves of a thread.                                   *)
SameRec(r, s) ==
    /\ s \in ThreadRec
    /\ s.id = r.id /\ s.hashed = r.hashed /\ s.proc = r.proc /\ s.obj = r.obj
    /\ s.todo = r.todo /\ s.stack = r.stack /\ s.state = r.state

(* A thread that goes on among the plain calls, or begins its exit.        *)
LEMMA PlainMove ==
    ASSUME NEW t \in All, NEW r, NEW s, Shape(t, r), SameRec(r, s), r.state # "BIRTH",
           r.pc \in PlainPcs \cup {"p_resume", "load"},
           IF t = Kernel THEN s.pc \in {"kern", "w_look", "w_acq", "k_main"}
           ELSE s.pc \in PlainPcs \cup {"x_move"},
           s.next \in {"SUSPENDED", "READY", "WAITING"}, s.wait # "death",
           DoomedThread(r) => DoomedThread(s)
    PROVE  Shape(t, s) /\ CalmRec(r, s)
<1>1. StateShape(s)
  BY DEF Shape, StateShape, SameRec, PlainPcs
<1>2. HandShape(s)
  BY DEF Shape, HandShape, SameRec, PlainPcs
<1>3. ASSUME t = Kernel
      PROVE  Shape(t, s)
  BY <1>1, <1>2, <1>3 DEF Shape, SameRec, KernelPcs
<1>4. ASSUME t # Kernel
      PROVE  Shape(t, s)
  <2>1. ProcShape(r) /\ r.pc \in UserPcs
    BY <1>4 DEF Shape, UserPcs
  <2>2. ProcShape(s)
    BY <1>4, <2>1 DEF ProcShape, SameRec, UserPcs, PlainPcs, MainPcs, LatePcs
  <2> QED BY <1>1, <1>2, <1>4, <2>2 DEF Shape, SameRec, PlainPcs
<1>5. CalmRec(r, s)
  BY DEF CalmRec, SameRec, PlainPcs
<1> QED BY <1>3, <1>4, <1>5

(* The thread that runs on a CPU.                                          *)
LEMMA OnFacts ==
    ASSUME ThreadInductive, NEW c \in Cpus, cur[c] # None
    PROVE  /\ cur[c] \in All /\ th[cur[c]].state = "RUNNING" /\ th[cur[c]] \in ThreadRec
           /\ Shape(cur[c], th[cur[c]]) /\ th[cur[c]].wait = "no"
           /\ th \in [All -> ThreadRec]
<1>1. cur[c] \in All /\ th[cur[c]].state = "RUNNING"
  BY DEF ThreadInductive, SchedInv, RunOK
<1>2. Shape(cur[c], th[cur[c]]) /\ Waits(th[cur[c]]) /\ th \in [All -> ThreadRec]
  BY <1>1 DEF ThreadInductive, ShapeInv
<1> QED BY <1>1, <1>2 DEF Shape, Waits

(* A plain call goes on.                                                   *)
LEMMA PlainGoes ==
    ASSUME ThreadInductive, NEW c \in Cpus, cur[c] # None, NEW s, Goes(c, s),
           UNCHANGED SharedVars, SameRec(th[cur[c]], s),
           th[cur[c]].pc \in PlainPcs \cup {"p_resume", "load"},
           IF cur[c] = Kernel THEN s.pc \in {"kern", "w_look", "w_acq", "k_main"}
           ELSE s.pc \in PlainPcs \cup {"x_move"},
           s.next = th[cur[c]].next, s.wait = "no",
           DoomedThread(th[cur[c]]) => DoomedThread(s)
    PROVE  ThreadInductive'
<1>1. /\ cur[c] \in All /\ th[cur[c]].state = "RUNNING" /\ Shape(cur[c], th[cur[c]])
  BY OnFacts
<1>2. s.next \in {"SUSPENDED", "READY", "WAITING"}
  BY <1>1 DEF Shape, StateShape, PlainPcs
<1>3. Shape(cur[c], s) /\ CalmRec(th[cur[c]], s)
  BY <1>1, <1>2, PlainMove
<1>4. Waits(s) /\ s.state = th[cur[c]].state
  BY DEF Waits, SameRec
<1>5. th' = [th EXCEPT ![cur[c]] = s] /\ UNCHANGED schedVars
  BY DEF Goes
<1> QED BY <1>1, <1>3, <1>4, <1>5, CalmGoes

(* A plain call is rescheduled or blocks.                                  *)
LEMMA PlainBlocks ==
    ASSUME ThreadInductive, NEW c \in Cpus, cur[c] # None, NEW s,
           Resched(c, [th EXCEPT ![cur[c]] = s], runq), UNCHANGED SharedVars,
           SameRec(th[cur[c]], s), th[cur[c]].pc \in PlainPcs \cup {"p_resume", "load"},
           IF cur[c] = Kernel THEN s.pc \in {"kern", "w_look", "w_acq", "k_main"}
           ELSE s.pc \in PlainPcs \cup {"x_move"},
           s.next \in {"SUSPENDED", "READY", "WAITING"}, s.wait # "death",
           s.wait # "no" => s.next = "WAITING",
           DoomedThread(th[cur[c]]) => DoomedThread(s)
    PROVE  ThreadInductive'
<1>1. /\ cur[c] \in All /\ th[cur[c]].state = "RUNNING" /\ Shape(cur[c], th[cur[c]])
  BY OnFacts
<1>2. Shape(cur[c], s) /\ CalmRec(th[cur[c]], s)
  BY <1>1, PlainMove
<1>3. (Waits(s) \/ s.next = "WAITING") /\ s.state = th[cur[c]].state /\ s.next # "FREE"
  BY DEF Waits, SameRec
<1> QED BY <1>1, <1>2, <1>3, CalmBlock

(* Where a call returns to.                                                *)
LEMMA AfterFacts ==
    ASSUME NEW t
    PROVE  IF t = Kernel THEN After(t) = "kern" ELSE After(t) = "ret"
BY DEF After

(* _check_for_thread_sigs: a kill begins the exit, a suspension reschedules *)
(* and otherwise the thread goes on.                                       *)
LEMMA CheckSigsKeeps ==
    ASSUME ThreadInductive, NEW c \in Cpus, cur[c] # None, NEW r, NEW done, NEW later,
           CheckSigs(c, r, done, later), UNCHANGED SharedVars,
           th[cur[c]].pc \in {"user", "ret"},
           SameRec(th[cur[c]], r), r.pc = th[cur[c]].pc, r.next = th[cur[c]].next,
           r.wait = "no", r.sig = th[cur[c]].sig,
           SameRec(th[cur[c]], done), done.pc \in {"kern", "user"},
           done.next = th[cur[c]].next, done.wait = "no", done.sig = th[cur[c]].sig,
           later \in {"kern", "out"}
    PROVE  ThreadInductive'
<1> DEFINE t == cur[c]
<1>0. t # Kernel
  BY OnFacts DEF Shape, KernelPcs
<1>1. th[t].pc \in PlainPcs /\ ~(th[t].pc = "x_move") /\ r \in ThreadRec
  BY DEF PlainPcs, SameRec
<1>2. ASSUME "KILL" \in r.sig, Goes(c, [r EXCEPT !.sig = @ \ {"KILL"}, !.pc = "x_move"])
      PROVE  ThreadInductive'
  <2> DEFINE s == [r EXCEPT !.sig = @ \ {"KILL"}, !.pc = "x_move"]
  <2>1. SameRec(th[t], s) /\ s.pc = "x_move" /\ s.next = th[t].next /\ s.wait = "no"
    BY <1>1 DEF SameRec, ThreadRec, Pcs, UserPcs
  <2>2. DoomedThread(s)
    BY <2>1 DEF DoomedThread
  <2>3. Goes(c, s)
    BY <1>2
  <2> HIDE DEF s
  <2> QED BY <1>0, <1>1, <2>1, <2>2, <2>3, PlainGoes
<1>3. ASSUME r.sig = {"SUSPEND"},
             Resched(c, [th EXCEPT ![t] =
                [r EXCEPT !.sig = {}, !.next = "SUSPENDED", !.pc = later]], runq)
      PROVE  ThreadInductive'
  <2> DEFINE s == [r EXCEPT !.sig = {}, !.next = "SUSPENDED", !.pc = later]
  <2>1. SameRec(th[t], s) /\ s.pc = later /\ s.next = "SUSPENDED" /\ s.wait = "no"
    <3>1. later \in Pcs /\ "SUSPENDED" \in States
      BY DEF Pcs, UserPcs, PlainPcs, States
    <3>2. s \in ThreadRec
      BY <1>1, <3>1 DEF ThreadRec
    <3> QED BY <1>1, <3>2 DEF SameRec, ThreadRec
  <2>2. ~DoomedThread(th[t]) /\ later \in PlainPcs
    BY <1>1, <1>3 DEF DoomedThread, PlainPcs
  <2>3. Resched(c, [th EXCEPT ![t] = s], runq)
    BY <1>3
  <2> HIDE DEF s
  <2> QED BY <1>0, <1>1, <2>1, <2>2, <2>3, PlainBlocks
<1>4. ASSUME r.sig = {}, Goes(c, done)
      PROVE  ThreadInductive'
  <2>1. ~DoomedThread(th[t]) /\ done.pc \in PlainPcs
    BY <1>1, <1>4 DEF DoomedThread, PlainPcs
  <2> QED BY <1>0, <1>1, <1>4, <2>1, PlainGoes
<1> QED BY <1>2, <1>3, <1>4 DEF CheckSigs

(* The scheduler and the ways into and out of the kernel.                  *)
LEMMA PreemptKeeps ==
    ASSUME ThreadInductive, NEW c \in Cpus, Preempt(c)
    PROVE  ThreadInductive'
<1>0. UNCHANGED SharedVars /\ (cur[c] # None => th[cur[c]].pc \notin Masked)
  BY DEF Preempt, SharedVars
<1>1. CASE On(c, "user")
  <2> DEFINE t == cur[c]
             s == [th[t] EXCEPT !.pc = "ret"]
  <2>1. t \in All /\ t # None /\ th[t] \in ThreadRec /\ th[t].wait = "no" /\ Shape(t, th[t])
        /\ th[t].pc = "user" /\ th \in [All -> ThreadRec] /\ th[t].state = "RUNNING"
    BY <1>1, OnFacts DEF On
  <2>2. SameRec(th[t], s) /\ s.pc = "ret" /\ s.next = th[t].next /\ s.wait = "no"
        /\ s.sig = th[t].sig
    BY <2>1 DEF SameRec, ThreadRec, Pcs, UserPcs, PlainPcs
  <2>3. t # Kernel /\ th[t].next \in {"SUSPENDED", "READY", "WAITING"}
    BY <2>1 DEF Shape, KernelPcs, StateShape
  <2>4. DoomedThread(th[t]) => DoomedThread(s)
    BY <2>1, <2>2 DEF DoomedThread
  <2>5. Resched(c, [th EXCEPT ![t] = s], runq)
    <3>1. [th EXCEPT ![t].pc = "ret"] = [th EXCEPT ![t] = s]
      BY <2>1
    <3> QED BY <1>1, <3>1 DEF Preempt
  <2> HIDE DEF s
  <2> QED BY <1>0, <2>1, <2>2, <2>3, <2>4, <2>5, PlainBlocks DEF PlainPcs
<1>2. CASE ~On(c, "user")
  <2>1. Resched(c, th, runq)
    BY <1>2 DEF Preempt
  <2>2. th \in [All -> ThreadRec]
    BY DEF ThreadInductive, ShapeInv, Shape
  <2>3. \A u \in All : Shape(u, th[u]) /\ CalmRec(th[u], th[u]) /\ Waits(th[u])
    BY DEF ThreadInductive, ShapeInv, CalmRec
  <2>4. cur[c] # None => th[cur[c]].next # "FREE"
    <3>1. ASSUME cur[c] # None, th[cur[c]].pc = "x_put"
          PROVE  FALSE
      BY <1>0, <3>1 DEF Masked
    <3> QED BY <3>1, OnFacts DEF Shape, StateShape
  <2> QED BY <1>0, <2>1, <2>2, <2>3, <2>4, CalmResched
<1> QED BY <1>1, <1>2

(* An interrupt in user mode keeps the invariant.                          *)
LEMMA InterruptKeeps ==
    ASSUME ThreadInductive, NEW c \in Cpus, Interrupt(c)
    PROVE  ThreadInductive'
<1> DEFINE t == cur[c]
           s == [th[t] EXCEPT !.pc = "ret"]
<1>1. t \in All /\ t # None /\ th[t] \in ThreadRec /\ th[t].wait = "no" /\ Shape(t, th[t])
      /\ th[t].pc = "user"
  BY OnFacts DEF On, Interrupt
<1>2. SameRec(th[t], s) /\ s.pc = "ret" /\ s.next = th[t].next /\ s.wait = "no"
      /\ s.sig = th[t].sig
  BY <1>1 DEF SameRec, ThreadRec, Pcs, UserPcs, PlainPcs
<1>3. t # Kernel
  BY <1>1 DEF Shape, KernelPcs
<1>4. DoomedThread(th[t]) => DoomedThread(s)
  BY <1>1, <1>2 DEF DoomedThread
<1>5. Goes(c, s) /\ UNCHANGED SharedVars
  BY DEF Interrupt, SharedVars
<1> HIDE DEF s
<1> QED BY <1>1, <1>2, <1>3, <1>4, <1>5, PlainGoes DEF PlainPcs

(* thread_atkernel_entry keeps the invariant.                              *)
LEMMA EntryKeeps ==
    ASSUME ThreadInductive, NEW c \in Cpus, thread_atkernel_entry(c)
    PROVE  ThreadInductive'
<1> DEFINE t == cur[c]
           r == [th[t] EXCEPT !.in_kernel = TRUE]
           done == [r EXCEPT !.pc = "kern"]
<1>1. t \in All /\ t # None /\ th[t] \in ThreadRec /\ th[t].wait = "no" /\ th[t].pc = "user"
  BY OnFacts DEF On, thread_atkernel_entry
<1>2. r \in ThreadRec /\ SameRec(th[t], r) /\ r.pc = th[t].pc /\ r.next = th[t].next
      /\ r.wait = "no" /\ r.sig = th[t].sig
  BY <1>1 DEF SameRec, ThreadRec
<1>3. SameRec(th[t], done) /\ done.pc = "kern" /\ done.next = th[t].next
      /\ done.wait = "no" /\ done.sig = th[t].sig
  <2> HIDE DEF r
  <2> QED BY <1>1, <1>2 DEF SameRec, ThreadRec, Pcs, UserPcs, PlainPcs
<1>4. CheckSigs(c, r, done, "kern") /\ UNCHANGED SharedVars
  BY DEF thread_atkernel_entry, SharedVars
<1> HIDE DEF r, done
<1> QED BY <1>1, <1>2, <1>3, <1>4, CheckSigsKeeps

(* thread_atkernel_exit keeps it, whether or not a signal is handled.      *)
LEMMA LeaveKeeps ==
    ASSUME ThreadInductive, NEW c \in Cpus, thread_atkernel_exit(c)
    PROVE  ThreadInductive'
<1> DEFINE t == cur[c]
           r == th[t]
           done == [r EXCEPT !.in_kernel = FALSE, !.pc = "user"]
<1>1. t \in All /\ t # None /\ th[t] \in ThreadRec /\ th[t].wait = "no" /\ th[t].pc = "ret"
  BY OnFacts DEF On, thread_atkernel_exit
<1>2. SameRec(th[t], r)
  BY <1>1 DEF SameRec
<1>3. SameRec(th[t], done) /\ done.pc = "user" /\ done.next = th[t].next
      /\ done.wait = "no" /\ done.sig = th[t].sig
  BY <1>1 DEF SameRec, ThreadRec, Pcs, UserPcs, PlainPcs
<1>4. CheckSigs(c, r, done, "out") /\ UNCHANGED SharedVars
  BY DEF thread_atkernel_exit, SharedVars
<1> HIDE DEF done
<1> QED BY <1>1, <1>2, <1>3, <1>4, CheckSigsKeeps

(* A thread that runs is at a plain place of its call, and the calls that  *)
(* change nothing but where it goes on and for whom.                       *)
LEMMA CallGoes ==
    ASSUME ThreadInductive, NEW c \in Cpus, cur[c] # None, NEW p, NEW i \in Nat,
           th[cur[c]].pc \in {"kern", "w_look", "w_acq", "k_main"},
           p \in {"w_look", "w_acq", "k_main", After(cur[c])},
           Goes(c, [th[cur[c]] EXCEPT !.pc = p, !.tgt = i]), UNCHANGED SharedVars
    PROVE  ThreadInductive'
<1> DEFINE t == cur[c]
           s == [th[t] EXCEPT !.pc = p, !.tgt = i]
<1>1. t \in All /\ th[t] \in ThreadRec /\ th[t].wait = "no"
  BY OnFacts
<1>2. p \in PlainPcs /\ (t = Kernel => p \in {"kern", "w_look", "w_acq", "k_main"})
      /\ p \in Pcs /\ p # "x_move"
  BY DEF After, PlainPcs, Pcs, UserPcs
<1>3. SameRec(th[t], s) /\ s.pc = p /\ s.next = th[t].next /\ s.wait = "no"
      /\ s.sig = th[t].sig
  BY <1>1, <1>2 DEF SameRec, ThreadRec
<1>4. DoomedThread(th[t]) => DoomedThread(s)
  BY <1>3 DEF DoomedThread
<1>5. Goes(c, s)
  OBVIOUS
<1> HIDE DEF s
<1> QED BY <1>1, <1>2, <1>3, <1>4, <1>5, PlainGoes DEF PlainPcs

(* thread_wait_on_thread reads the semaphore that it waits for.            *)
LEMMA WaitLookKeeps ==
    ASSUME ThreadInductive, NEW c \in Cpus, WaitLook(c)
    PROVE  ThreadInductive'
<1> DEFINE t == cur[c]
<1>1. t # None /\ th[t].pc = "w_look" /\ UNCHANGED SharedVars
  BY DEF WaitLook, On, SharedVars
<1>2. th[t] \in ThreadRec /\ th[t].tgt \in Nat
  BY <1>1, OnFacts DEF ThreadRec
<1>3. \/ Goes(c, [th[t] EXCEPT !.pc = "w_acq"])
      \/ Goes(c, [th[t] EXCEPT !.pc = After(t), !.tgt = 0])
  BY DEF WaitLook
<1>4. [th[t] EXCEPT !.pc = "w_acq"] = [th[t] EXCEPT !.pc = "w_acq", !.tgt = th[t].tgt]
  BY <1>2 DEF ThreadRec
<1> QED BY <1>1, <1>2, <1>3, <1>4, CallGoes

(* thread_wait_on_thread begins.                                           *)
LEMMA WaitCallKeeps ==
    ASSUME ThreadInductive, NEW c \in Cpus, On(c, "kern"), NEW u \in Structs,
           thread_wait_on_thread(c, u)
    PROVE  ThreadInductive'
<1>1. cur[c] # None /\ th[cur[c]].pc = "kern" /\ UNCHANGED SharedVars
  BY DEF On, thread_wait_on_thread, SharedVars
<1>2. th[u].id \in Nat
  BY DEF ThreadInductive, ShapeInv, ThreadRec, All
<1>3. Goes(c, [th[cur[c]] EXCEPT !.pc = "w_look", !.tgt = th[u].id])
  BY DEF thread_wait_on_thread
<1> QED BY <1>1, <1>2, <1>3, CallGoes

(* proc_wait_on_proc and proc_kill_proc read the main thread's id.         *)
LEMMA ProcCallKeeps ==
    ASSUME ThreadInductive, NEW c \in Cpus, On(c, "kern"), NEW then \in {"w_look", "k_main"},
           ProcCall(c, then)
    PROVE  ThreadInductive'
<1>1. cur[c] # None /\ th[cur[c]].pc = "kern" /\ UNCHANGED SharedVars
  BY DEF On, ProcCall, SharedVars
<1>2. proc.main \in Structs
  BY DEF ProcCall, ThreadInductive, SharedInv, ProcInv, ProcType
<1>3. th[proc.main].id \in Nat
  BY <1>2 DEF ThreadInductive, ShapeInv, ThreadRec, All
<1>4. Goes(c, [th[cur[c]] EXCEPT !.pc = then, !.tgt = th[proc.main].id])
  BY DEF ProcCall
<1> QED BY <1>1, <1>3, <1>4, CallGoes

(* A call of a thread that waits.                                          *)
LEMMA CallBlocks ==
    ASSUME ThreadInductive, NEW c \in Cpus, cur[c] # None, NEW w \in {"snooze", "sem", "thread"},
           th[cur[c]].pc \in {"kern", "w_acq"},
           Block(c, [th[cur[c]] EXCEPT !.wait = w, !.pc = After(cur[c])]),
           UNCHANGED SharedVars
    PROVE  ThreadInductive'
<1> DEFINE t == cur[c]
           r == [th[t] EXCEPT !.wait = w, !.pc = After(t)]
           s == [r EXCEPT !.next = "WAITING"]
<1>1. t \in All /\ th[t] \in ThreadRec
  BY OnFacts
<1>2. After(t) \in PlainPcs \cap Pcs /\ (t = Kernel => After(t) = "kern") /\ "WAITING" \in States
  BY DEF After, PlainPcs, Pcs, UserPcs, States
<1>3. r \in ThreadRec /\ SameRec(th[t], r) /\ r.pc = After(t) /\ r.wait = w /\ r.sig = th[t].sig
  BY <1>1, <1>2 DEF SameRec, ThreadRec
<1>4. Resched(c, [th EXCEPT ![t] = s], runq)
  BY DEF Block
<1>5. SameRec(th[t], s) /\ s.pc = After(t) /\ s.next = "WAITING" /\ s.wait = w
      /\ s.sig = th[t].sig
  <2> HIDE DEF r
  <2> QED BY <1>2, <1>3 DEF SameRec, ThreadRec
<1>6. DoomedThread(th[t]) => DoomedThread(s)
  BY <1>2, <1>5 DEF DoomedThread
<1> HIDE DEF s, r
<1>7. IF t = Kernel THEN s.pc \in {"kern", "w_look", "w_acq", "k_main"}
      ELSE s.pc \in PlainPcs \cup {"x_move"}
  BY <1>2, <1>5
<1> QED BY <1>2, <1>4, <1>5, <1>6, <1>7, PlainBlocks DEF PlainPcs

(* The wait for a thread's end takes the semaphore, or waits for it.       *)
LEMMA WaitAcquireKeeps ==
    ASSUME ThreadInductive, NEW c \in Cpus, WaitAcquire(c)
    PROVE  ThreadInductive'
<1> DEFINE t == cur[c]
           r == [th[t] EXCEPT !.pc = After(t)]
<1>1. t # None /\ th[t].pc = "w_acq" /\ UNCHANGED SharedVars
  BY DEF WaitAcquire, On, SharedVars
<1>2. th[t] \in ThreadRec
  BY <1>1, OnFacts
<1>3. [r EXCEPT !.wait = "thread"] = [th[t] EXCEPT !.wait = "thread", !.pc = After(t)]
      /\ [r EXCEPT !.tgt = 0] = [th[t] EXCEPT !.pc = After(t), !.tgt = 0]
  BY <1>2 DEF ThreadRec
<1>4. \/ Block(c, [th[t] EXCEPT !.wait = "thread", !.pc = After(t)])
      \/ Goes(c, [th[t] EXCEPT !.pc = After(t), !.tgt = 0])
  BY <1>3 DEF WaitAcquire
<1> QED BY <1>1, <1>4, CallGoes, CallBlocks, 0 \in Nat

(* thread_snooze keeps it.                                                 *)
LEMMA SnoozeKeeps ==
    ASSUME ThreadInductive, NEW c \in Cpus, On(c, "kern"), thread_snooze(c)
    PROVE  ThreadInductive'
<1>1. cur[c] # None /\ th[cur[c]].pc = "kern" /\ UNCHANGED SharedVars
  BY DEF On, thread_snooze, SharedVars
<1>2. Block(c, [th[cur[c]] EXCEPT !.wait = "snooze", !.pc = After(cur[c])])
  BY DEF thread_snooze
<1> QED BY <1>1, <1>2, CallBlocks

(* A wait for a semaphore that a signal ends keeps it.                     *)
LEMMA InterruptibleKeeps ==
    ASSUME ThreadInductive, NEW c \in Cpus, On(c, "kern"), InterruptibleWait(c)
    PROVE  ThreadInductive'
<1> DEFINE t == cur[c]
           r == [th[t] EXCEPT !.pc = "ret"]
<1>1. t # None /\ th[t].pc = "kern" /\ UNCHANGED SharedVars /\ t # Kernel
  BY DEF On, InterruptibleWait, SharedVars
<1>2. th[t] \in ThreadRec /\ th[t].tgt \in Nat /\ After(t) = "ret"
  BY <1>1, OnFacts DEF ThreadRec, After
<1>3. [r EXCEPT !.wait = "sem"] = [th[t] EXCEPT !.wait = "sem", !.pc = After(t)]
      /\ r = [th[t] EXCEPT !.pc = After(t), !.tgt = th[t].tgt]
  BY <1>2 DEF ThreadRec
<1>4. \/ Block(c, [th[t] EXCEPT !.wait = "sem", !.pc = After(t)])
      \/ Goes(c, [th[t] EXCEPT !.pc = After(t), !.tgt = th[t].tgt])
  BY <1>3 DEF InterruptibleWait
<1> QED BY <1>1, <1>2, <1>4, CallGoes, CallBlocks

(* A thread begins its exit.                                               *)
LEMMA ExitBegins ==
    ASSUME ThreadInductive, NEW c \in Cpus, cur[c] # None, cur[c] # Kernel,
           th[cur[c]].pc \in {"kern", "load"}, Goes(c, [th[cur[c]] EXCEPT !.pc = "x_move"]),
           UNCHANGED SharedVars
    PROVE  ThreadInductive'
<1> DEFINE t == cur[c]
           s == [th[t] EXCEPT !.pc = "x_move"]
<1>1. t \in All /\ th[t] \in ThreadRec /\ th[t].wait = "no"
  BY OnFacts
<1>2. SameRec(th[t], s) /\ s.pc = "x_move" /\ s.next = th[t].next /\ s.wait = "no"
  BY <1>1 DEF SameRec, ThreadRec, Pcs, UserPcs
<1>3. DoomedThread(s)
  BY <1>2 DEF DoomedThread
<1>4. Goes(c, s)
  OBVIOUS
<1> HIDE DEF s
<1> QED BY <1>1, <1>2, <1>3, <1>4, PlainGoes DEF PlainPcs

(* A thread that calls exit sends itself a SIGKILL.                        *)
LEMMA ExitCallKeeps ==
    ASSUME ThreadInductive, NEW c \in Cpus, On(c, "kern"), exit(c)
    PROVE  ThreadInductive'
BY ExitBegins DEF On, exit, SharedVars

-----------------------------------------------------------------------------
(* Steps that touch another thread.                                        *)

(* A suspended or waiting thread becomes READY.                            *)
WokenRec(r, s) ==
    /\ s \in ThreadRec
    /\ s.id = r.id /\ s.hashed = r.hashed /\ s.proc = r.proc /\ s.obj = r.obj
    /\ s.todo = r.todo /\ s.stack = r.stack /\ s.pc = r.pc
    /\ s.state = "READY" /\ s.wait = "no" /\ s.next \in {r.next, "READY"}
    /\ r.sig \subseteq s.sig

(* A woken thread's fields agree.                                          *)
LEMMA WokenShape ==
    ASSUME NEW u \in All, NEW r, NEW s, Shape(u, r), WokenRec(r, s),
           r.state \in {"SUSPENDED", "WAITING"}
    PROVE  /\ Shape(u, s) /\ Waits(s)
           /\ r.wait # "death" => CalmRec(r, s)
<1>1. StateShape(r) /\ StateShape(s)
  BY DEF Shape, StateShape, WokenRec
<1>2. HandShape(s)
  BY DEF Shape, HandShape, WokenRec
<1>3. u # Kernel => ProcShape(s) /\ s.pc \notin {"p_create", "p_resume"}
  BY DEF Shape, ProcShape, WokenRec
<1>4. Shape(u, s)
  BY <1>1, <1>2, <1>3 DEF Shape, WokenRec
<1>5. Waits(s)
  BY DEF WokenRec, Waits
<1>6. DoomedThread(r) => DoomedThread(s)
  BY DEF WokenRec, DoomedThread
<1>7. r.wait # "death" => CalmRec(r, s)
  BY <1>6 DEF CalmRec, WokenRec, Shape, HandShape
<1> QED BY <1>4, <1>5, <1>7

(* A thread gets a signal, or is to be suspended.                          *)
SignalledRec(r, s) ==
    /\ SameRec(r, s) /\ s.pc = r.pc /\ s.wait = r.wait /\ r.sig \subseteq s.sig
    /\ s.next = r.next \/ (s.next = "SUSPENDED" /\ r.next \notin {"NONE", "FREE"})

(* The fields of a thread with a signal agree.                             *)
LEMMA SignalledShape ==
    ASSUME NEW u \in All, NEW r, NEW s, Shape(u, r), Waits(r), SignalledRec(r, s)
    PROVE  Shape(u, s) /\ Waits(s) /\ CalmRec(r, s)
<1>1. StateShape(s) /\ HandShape(s)
  BY DEF Shape, StateShape, HandShape, SignalledRec, SameRec
<1>2. u # Kernel => ProcShape(s) /\ s.pc \notin {"p_create", "p_resume"}
  BY DEF Shape, ProcShape, SignalledRec, SameRec
<1>3. Shape(u, s)
  BY <1>1, <1>2 DEF Shape, SignalledRec, SameRec
<1>4. Waits(s)
  BY DEF SignalledRec, SameRec, Waits
<1>5. DoomedThread(r) => DoomedThread(s)
  BY DEF SignalledRec, SameRec, DoomedThread
<1>6. CalmRec(r, s)
  BY <1>5 DEF CalmRec, SignalledRec, SameRec
<1> QED BY <1>3, <1>4, <1>6

(* A wait of a thread ends.                                                *)
LEMMA WakeKeeps ==
    ASSUME ThreadInductive, NEW t \in All, Wake(t)
    PROVE  ThreadInductive'
<1>1. th[t] \in ThreadRec /\ Shape(t, th[t]) /\ th \in [All -> ThreadRec]
      /\ th[t].state = "WAITING" /\ th[t].wait \in {"snooze", "sem"}
  BY DEF ThreadInductive, ShapeInv, Wake
<1> DEFINE s == WakeUp(th[t])
<1>2. WokenRec(th[t], s)
  BY <1>1 DEF WokenRec, WakeUp, ThreadRec, States
<1> HIDE DEF s
<1>3. Shape(t, s) /\ Waits(s)
  BY <1>1, <1>2, WokenShape
<1>4. CalmRec(th[t], s)
  BY <1>1, <1>2, WokenShape
<1>5. th' = [th EXCEPT ![t] = s] /\ runq' = Enqueue(runq, {t}) /\ cur' = cur /\ dead_q' = dead_q
      /\ UNCHANGED SharedVars
  BY DEF Wake, s, SharedVars
<1>6. runq \in [All -> {0, 1}] /\ runq[t] = 0
  BY <1>1 DEF ThreadInductive, SchedInv, QueueOK
<1>7. /\ runq' \in [All -> {0, 1}]
      /\ \A u \in All : runq'[u] = IF u \in {t} THEN 1 ELSE runq[u]
  BY <1>5, <1>6, EnqueueFacts, {t} \in SUBSET All
<1>8. th' \in [All -> ThreadRec] /\ th'[t] = s /\ \A u \in All : u # t => th'[u] = th[u]
  BY <1>1, <1>2, <1>5 DEF WokenRec
<1>9. \A u \in All : Shape(u, th'[u]) /\ Waits(th'[u])
  BY <1>3, <1>8 DEF ThreadInductive, ShapeInv
<1>10. Calm
  BY <1>4, <1>8 DEF Calm, CalmRec
<1>11. \A u \in All : th'[u].state = IF u \in {t} THEN "READY" ELSE th[u].state
  BY <1>2, <1>8 DEF WokenRec
<1>12. \A u \in {t} : th[u].state \notin {"READY", "RUNNING", "FREE"}
  BY <1>1
<1> QED BY <1>5, <1>7, <1>8, <1>9, <1>10, <1>11, <1>12, CalmReady, {t} \in SUBSET All

(* The caller of a plain call, with where it goes on and for whom.         *)
LEMMA CallerRec ==
    ASSUME ThreadInductive, NEW c \in Cpus, cur[c] # None, NEW p, NEW i \in Nat,
           th[cur[c]].pc \in {"kern", "w_look", "w_acq", "k_main", "p_resume"},
           p \in {"w_look", After(cur[c])}
    PROVE  LET r == [th[cur[c]] EXCEPT !.pc = p, !.tgt = i]
           IN  /\ r \in ThreadRec /\ Shape(cur[c], r) /\ Waits(r) /\ CalmRec(th[cur[c]], r)
               /\ r.state = th[cur[c]].state
<1> DEFINE t == cur[c]
           r == [th[t] EXCEPT !.pc = p, !.tgt = i]
<1>1. t \in All /\ th[t] \in ThreadRec /\ th[t].wait = "no" /\ Shape(t, th[t])
      /\ th[t].state = "RUNNING"
  BY OnFacts
<1>2. p \in PlainPcs /\ (t = Kernel => p \in {"kern", "w_look", "w_acq", "k_main"})
      /\ p \in Pcs /\ p # "x_move"
  BY DEF After, PlainPcs, Pcs, UserPcs
<1>3. SameRec(th[t], r) /\ r.pc = p /\ r.next = th[t].next /\ r.wait = "no"
      /\ r.sig = th[t].sig /\ r \in ThreadRec
  BY <1>1, <1>2 DEF SameRec, ThreadRec
<1>4. DoomedThread(th[t]) => DoomedThread(r)
  BY <1>3 DEF DoomedThread
<1> HIDE DEF r
<1>5. r.next \in {"SUSPENDED", "READY", "WAITING"}
  BY <1>1, <1>3 DEF Shape, StateShape
<1>6. Shape(t, r) /\ CalmRec(th[t], r)
  BY <1>1, <1>2, <1>3, <1>4, <1>5, PlainMove DEF PlainPcs
<1>7. Waits(r) /\ r.state = th[t].state
  BY <1>3 DEF Waits, SameRec
<1> QED BY <1>3, <1>6, <1>7 DEF r

(* A call that touches another thread.                                     *)
LEMMA CallTouches ==
    ASSUME ThreadInductive, NEW t \in All, NEW u \in All, u # t, NEW r, NEW s,
           r \in ThreadRec, Shape(t, r), Waits(r), CalmRec(th[t], r), r.state = th[t].state,
           th' \in [All -> ThreadRec], th'[t] = r, th'[u] = s,
           \A v \in All : v # t /\ v # u => th'[v] = th[v],
           \/ SignalledRec(th[u], s) /\ runq' = runq
           \/ /\ WokenRec(th[u], s) /\ th[u].state \in {"SUSPENDED", "WAITING"}
              /\ th[u].wait # "death" /\ runq' = Enqueue(runq, {u}),
           UNCHANGED SharedVars, cur' = cur, dead_q' = dead_q
    PROVE  ThreadInductive'
<1>1. Shape(u, th[u]) /\ Waits(th[u]) /\ runq \in [All -> {0, 1}]
  BY DEF ThreadInductive, ShapeInv, SchedInv, QueueOK
<1>2. Shape(u, s) /\ Waits(s) /\ CalmRec(th[u], s)
  BY <1>1, SignalledShape, WokenShape
<1>3. \A v \in All : Shape(v, th'[v]) /\ Waits(th'[v])
  BY <1>2 DEF ThreadInductive, ShapeInv
<1>4. Calm
  BY <1>2 DEF Calm, CalmRec
<1>5. CASE SignalledRec(th[u], s) /\ runq' = runq
  <2>1. \A v \in All : th'[v].state = IF v \in {} THEN "READY" ELSE th[v].state
    BY <1>5 DEF SignalledRec, SameRec
  <2> QED BY <1>1, <1>3, <1>4, <1>5, <2>1, CalmReady, {} \in SUBSET All
<1>6. CASE /\ WokenRec(th[u], s) /\ th[u].state \in {"SUSPENDED", "WAITING"}
           /\ runq' = Enqueue(runq, {u})
  <2>1. \A v \in All : th'[v].state = IF v \in {u} THEN "READY" ELSE th[v].state
    BY <1>6 DEF WokenRec
  <2>2. runq[u] = 0
    BY <1>6 DEF ThreadInductive, SchedInv, QueueOK
  <2>3. /\ runq' \in [All -> {0, 1}]
        /\ \A v \in All : runq'[v] = IF v \in {u} THEN 1 ELSE runq[v]
    BY <1>1, <1>6, <2>2, EnqueueFacts, {u} \in SUBSET All
  <2>4. \A v \in {u} : th[v].state \notin {"READY", "RUNNING", "FREE"}
    BY <1>6
  <2> QED BY <1>3, <1>4, <2>1, <2>3, <2>4, CalmReady, {u} \in SUBSET All
<1> QED BY <1>5, <1>6

(* deliver_signal(SIG_KILL) for one thread.                                *)
LEMMA KilledFacts ==
    ASSUME NEW f \in [All -> ThreadRec], NEW u \in All
    PROVE  /\ Killed(f, u) \in [All -> ThreadRec]
           /\ \A v \in All : v # u => Killed(f, u)[v] = f[v]
           /\ "KILL" \in Killed(f, u)[u].sig
           /\ IF WokenByKill(f[u]) THEN WokenRec(f[u], Killed(f, u)[u])
              ELSE Killed(f, u)[u] = [f[u] EXCEPT !.sig = @ \cup {"KILL"}]
<1> DEFINE r == [f[u] EXCEPT !.sig = @ \cup {"KILL"}]
           s == Killed(f, u)[u]
<1>0. f[u] \in ThreadRec
  OBVIOUS
<1>1. /\ r \in ThreadRec /\ SameRec(f[u], r) /\ r.pc = f[u].pc /\ r.wait = f[u].wait
      /\ r.next = f[u].next /\ r.sig = f[u].sig \cup {"KILL"}
  BY <1>0 DEF ThreadRec, SameRec
<1>2. WokenByKill(r) <=> WokenByKill(f[u])
  BY <1>1 DEF WokenByKill, SameRec
<1>3. s = IF ~WokenByKill(r) THEN r
          ELSE IF r.state = "SUSPENDED" THEN [WakeUp(r) EXCEPT !.next = "READY"] ELSE WakeUp(r)
  BY DEF Killed
<1>4. Killed(f, u) = [f EXCEPT ![u] = s]
  BY DEF Killed
<1>5. ASSUME WokenByKill(r)
      PROVE  /\ s \in ThreadRec /\ s.id = r.id /\ s.hashed = r.hashed /\ s.proc = r.proc
             /\ s.obj = r.obj /\ s.todo = r.todo /\ s.stack = r.stack /\ s.pc = r.pc
             /\ s.state = "READY" /\ s.wait = "no" /\ s.next \in {r.next, "READY"}
             /\ s.sig = r.sig
  <2> HIDE DEF r
  <2>1. WakeUp(r) \in ThreadRec /\ WakeUp(r).state = "READY" /\ WakeUp(r).wait = "no"
        /\ WakeUp(r).next = r.next /\ WakeUp(r).id = r.id /\ WakeUp(r).hashed = r.hashed
        /\ WakeUp(r).proc = r.proc /\ WakeUp(r).obj = r.obj /\ WakeUp(r).todo = r.todo
        /\ WakeUp(r).stack = r.stack /\ WakeUp(r).pc = r.pc /\ WakeUp(r).sig = r.sig
    BY <1>1 DEF WakeUp, ThreadRec, States
  <2>2. s = WakeUp(r) \/ s = [WakeUp(r) EXCEPT !.next = "READY"]
    BY <1>3, <1>5
  <2> DEFINE w == WakeUp(r)
  <2> HIDE DEF w, s
  <2>3. CASE s = w
    BY <2>1, <2>3 DEF w
  <2>4. CASE s = [w EXCEPT !.next = "READY"]
    <3>1. w \in ThreadRec /\ "READY" \in States
      BY <2>1 DEF w, States
    <3>2. /\ s \in ThreadRec /\ s.id = w.id /\ s.hashed = w.hashed /\ s.proc = w.proc
          /\ s.obj = w.obj /\ s.todo = w.todo /\ s.stack = w.stack /\ s.pc = w.pc
          /\ s.state = w.state /\ s.wait = w.wait /\ s.next = "READY" /\ s.sig = w.sig
      BY <2>4, <3>1 DEF ThreadRec
    <3> QED BY <2>1, <3>2 DEF w
  <2> QED BY <2>2, <2>3, <2>4 DEF w
<1>6. s \in ThreadRec /\ "KILL" \in s.sig
  BY <1>1, <1>3, <1>5
<1>7. Killed(f, u) \in [All -> ThreadRec] /\ \A v \in All : v # u => Killed(f, u)[v] = f[v]
  BY <1>4, <1>6
<1>8. WokenByKill(f[u]) => WokenRec(f[u], s)
  BY <1>1, <1>2, <1>5 DEF WokenRec, SameRec
<1>9. ~WokenByKill(f[u]) => s = r
  BY <1>2, <1>3
<1> QED BY <1>6, <1>7, <1>8, <1>9

(* thread_kill_thread_nowait keeps it.                                     *)
LEMMA KillKeeps ==
    ASSUME ThreadInductive, NEW c \in Cpus, cur[c] # None, NEW u \in Structs, NEW wait \in BOOLEAN,
           th[cur[c]].pc \in {"kern", "k_main"}, Kill(c, u, wait)
    PROVE  ThreadInductive'
<1> DEFINE t == cur[c]
           pc == IF wait /\ u # t THEN "w_look" ELSE After(t)
           i == IF pc = "w_look" THEN th[u].id ELSE 0
           r == [th[t] EXCEPT !.pc = pc, !.tgt = i]
           f == [th EXCEPT ![t] = r]
           s == Killed(f, u)[u]
<1>0. t \in All /\ u \in All /\ th \in [All -> ThreadRec] /\ th[t].state = "RUNNING"
  BY OnFacts DEF All
<1>1. th' = Killed(f, u) /\ runq' = KilledQueue(runq, u) /\ cur' = cur /\ dead_q' = dead_q
      /\ UNCHANGED SharedVars
  <2>1. [th EXCEPT ![t].pc = pc, ![t].tgt = i] = f
    BY <1>0 DEF ThreadRec
  <2> QED BY <2>1 DEF Kill, SharedVars
<1>2. i \in Nat /\ pc \in {"w_look", After(t)}
  <2>1. th[u].id \in Nat
    BY <1>0 DEF ThreadRec
  <2> QED BY <2>1
<1> HIDE DEF pc, i
<1>3. r \in ThreadRec /\ Shape(t, r) /\ Waits(r) /\ CalmRec(th[t], r) /\ r.state = th[t].state
  BY <1>2, CallerRec
<1>4. f \in [All -> ThreadRec] /\ f[t] = r /\ \A v \in All : v # t => f[v] = th[v]
  BY <1>0, <1>3
<1> HIDE DEF r, f
<1>5. /\ th' \in [All -> ThreadRec] /\ th'[u] = s
      /\ \A v \in All : v # u => th'[v] = f[v]
      /\ IF WokenByKill(f[u]) THEN WokenRec(f[u], s)
         ELSE s = [f[u] EXCEPT !.sig = @ \cup {"KILL"}]
  BY <1>0, <1>1, <1>4, KilledFacts
<1>6. ~WokenByKill(f[u]) => SignalledRec(f[u], s)
  <2>1. f[u] \in ThreadRec
    BY <1>0, <1>4
  <2> QED BY <1>5, <2>1 DEF SignalledRec, SameRec, ThreadRec
<1> HIDE DEF s
<1>7. CASE u = t
  <2>1. ~WokenByKill(f[u]) /\ ~WokenByKill(th[u])
    BY <1>0, <1>3, <1>4, <1>7 DEF WokenByKill
  <2>2. Shape(t, s) /\ Waits(s) /\ CalmRec(r, s) /\ SameRec(r, s) /\ s.pc = r.pc
    BY <1>0, <1>3, <1>4, <1>6, <1>7, <2>1, SignalledShape DEF SignalledRec
  <2>3. CalmRec(th[t], s) /\ s.state = th[t].state
    BY <1>3, <2>2 DEF CalmRec, SameRec
  <2>4. th' = [th EXCEPT ![t] = s]
    BY <1>0, <1>4, <1>5, <1>7
  <2>5. UNCHANGED schedVars
    BY <1>1, <2>1 DEF schedVars, KilledQueue
  <2> QED BY <1>0, <1>1, <2>2, <2>3, <2>4, <2>5, CalmGoes
<1>8. CASE u # t
  <2>1. f[u] = th[u] /\ th'[t] = r /\ \A v \in All : v # t /\ v # u => th'[v] = th[v]
    BY <1>0, <1>4, <1>5, <1>8
  <2>2. \/ SignalledRec(th[u], s) /\ runq' = runq
        \/ /\ WokenRec(th[u], s) /\ th[u].state \in {"SUSPENDED", "WAITING"}
           /\ th[u].wait # "death" /\ runq' = Enqueue(runq, {u})
    <3>1. CASE ~WokenByKill(th[u])
      BY <1>1, <1>6, <2>1, <3>1 DEF KilledQueue
    <3>2. CASE WokenByKill(th[u])
      <4>1. Waits(th[u])
        BY <1>0 DEF ThreadInductive, ShapeInv
      <4>2. th[u].state \in {"SUSPENDED", "WAITING"} /\ th[u].wait # "death"
        BY <3>2, <4>1 DEF WokenByKill, Waits
      <4> QED BY <1>1, <1>5, <2>1, <3>2, <4>2 DEF KilledQueue
    <3> QED BY <3>1, <3>2
  <2> QED BY <1>0, <1>1, <1>3, <1>5, <1>8, <2>1, <2>2, CallTouches
<1> QED BY <1>7, <1>8

(* proc_kill_proc kills the main thread it found.                          *)
LEMMA KillMainKeeps ==
    ASSUME ThreadInductive, NEW c \in Cpus, KillMain(c)
    PROVE  ThreadInductive'
<1>1. cur[c] # None /\ th[cur[c]].pc = "k_main"
  BY DEF KillMain, On
<1>2. \/ \E u \in Structs : Kill(c, u, TRUE)
      \/ /\ Goes(c, [th[cur[c]] EXCEPT !.pc = After(cur[c]), !.tgt = 0])
         /\ UNCHANGED SharedVars
  BY DEF KillMain, Lookup, SharedVars
<1> QED BY <1>1, <1>2, KillKeeps, CallGoes, TRUE \in BOOLEAN, 0 \in Nat

(* thread_suspend_thread keeps it.                                         *)
LEMMA SuspendKeeps ==
    ASSUME ThreadInductive, NEW c \in Cpus, On(c, "kern"), NEW u \in Structs,
           thread_suspend_thread(c, u)
    PROVE  ThreadInductive'
<1> DEFINE t == cur[c]
           r == [th[t] EXCEPT !.pc = After(t), !.tgt = th[t].tgt]
           f == [th EXCEPT ![t] = r]
           s == IF th[u].in_kernel THEN [f[u] EXCEPT !.sig = @ \cup {"SUSPEND"}]
                ELSE [f[u] EXCEPT !.next = "SUSPENDED"]
<1>0. t \in All /\ u \in All /\ th \in [All -> ThreadRec] /\ th[t].state = "RUNNING"
      /\ t # None /\ th[t].pc = "kern" /\ th[t].tgt \in Nat
  BY OnFacts DEF All, On, ThreadRec
<1>1. th' = [f EXCEPT ![u] = s] /\ UNCHANGED schedVars /\ UNCHANGED SharedVars
  <2> DEFINE g == [th EXCEPT ![t].pc = After(t)]
  <2>1. g = f
    BY <1>0 DEF ThreadRec
  <2>2. /\ th' = IF th[u].in_kernel THEN [g EXCEPT ![u].sig = @ \cup {"SUSPEND"}]
                 ELSE [g EXCEPT ![u].next = "SUSPENDED"]
        /\ UNCHANGED schedVars /\ UNCHANGED SharedVars
    BY DEF thread_suspend_thread, SharedVars
  <2> HIDE DEF f, g
  <2> QED BY <2>1, <2>2
<1>2. r \in ThreadRec /\ Shape(t, r) /\ Waits(r) /\ CalmRec(th[t], r) /\ r.state = th[t].state
  BY ZenonT(30), <1>0, CallerRec
<1>3. f \in [All -> ThreadRec] /\ f[t] = r /\ \A v \in All : v # t => f[v] = th[v]
  BY <1>0, <1>2
<1>4. Shape(u, f[u]) /\ Waits(f[u]) /\ f[u] \in ThreadRec /\ f[u].state = th[u].state
  BY <1>0, <1>2, <1>3 DEF ThreadInductive, ShapeInv
<1>5. f[u].next \notin {"NONE", "FREE"}
  <2>1. th[u].hashed /\ Shape(u, th[u]) /\ u # Kernel
    BY <1>0, ThreadAssumption DEF thread_suspend_thread, ThreadInductive, ShapeInv
  <2>2. th[u].pc \notin {"none", "x_put"}
    BY <2>1 DEF Shape, ProcShape
  <2>3. th[u].next \notin {"NONE", "FREE"}
    BY <2>1, <2>2 DEF Shape, StateShape
  <2>4. r.next = th[t].next
    BY <1>0 DEF ThreadRec
  <2> QED BY <1>0, <1>3, <2>3, <2>4
<1> HIDE DEF r, f
<1>6. SignalledRec(f[u], s)
  BY <1>4, <1>5 DEF SignalledRec, SameRec, ThreadRec, States
<1> HIDE DEF s
<1>7. s \in ThreadRec /\ Shape(u, s) /\ Waits(s) /\ CalmRec(f[u], s) /\ s.state = f[u].state
  BY <1>0, <1>4, <1>6, SignalledShape DEF SignalledRec, SameRec
<1>8. CASE u = t
  <2>1. CalmRec(th[t], s) /\ s.state = th[t].state
    BY <1>2, <1>3, <1>6, <1>7, <1>8 DEF CalmRec, SignalledRec
  <2>2. th' = [th EXCEPT ![t] = s]
    BY <1>0, <1>1, <1>3, <1>7, <1>8
  <2> QED BY <1>0, <1>1, <1>7, <1>8, <2>1, <2>2, CalmGoes
<1>9. CASE u # t
  <2>1. /\ th' \in [All -> ThreadRec] /\ th'[t] = r /\ th'[u] = s
        /\ \A v \in All : v # t /\ v # u => th'[v] = th[v]
    BY <1>0, <1>1, <1>3, <1>7, <1>9
  <2>2. SignalledRec(th[u], s) /\ runq' = runq /\ cur' = cur /\ dead_q' = dead_q
    BY <1>0, <1>1, <1>3, <1>6, <1>9 DEF schedVars
  <2> QED BY <1>0, <1>1, <1>2, <1>9, <2>1, <2>2, CallTouches
<1> QED BY <1>8, <1>9

(* thread_resume_thread keeps it.                                          *)
LEMMA ResumeKeeps ==
    ASSUME ThreadInductive, NEW c \in Cpus, On(c, "kern"), NEW u \in Structs,
           thread_resume_thread(c, u)
    PROVE  ThreadInductive'
<1> DEFINE t == cur[c]
           r == [th[t] EXCEPT !.pc = After(t), !.tgt = 0]
           s == [th[u] EXCEPT !.state = "READY", !.next = "READY"]
<1>0. t \in All /\ u \in All /\ th \in [All -> ThreadRec] /\ th[t].state = "RUNNING"
      /\ t # None /\ th[t].pc = "kern" /\ th[u].state = "SUSPENDED" /\ u # t
  BY OnFacts DEF All, On, thread_resume_thread
<1>1. th' = [th EXCEPT ![t] = r, ![u] = s] /\ runq' = Enqueue(runq, {u}) /\ cur' = cur
      /\ dead_q' = dead_q /\ UNCHANGED SharedVars
  BY <1>0 DEF thread_resume_thread, SharedVars, ThreadRec
<1>2. r \in ThreadRec /\ Shape(t, r) /\ Waits(r) /\ CalmRec(th[t], r) /\ r.state = th[t].state
  BY <1>0, CallerRec, 0 \in Nat
<1>3. th[u].wait = "no"
  BY <1>0 DEF ThreadInductive, ShapeInv, Waits
<1>4. WokenRec(th[u], s)
  <2>1. th[u] \in ThreadRec /\ "READY" \in States
    BY <1>0 DEF States
  <2>2. s \in ThreadRec /\ s.state = "READY" /\ s.next = "READY" /\ s.wait = th[u].wait
    BY <2>1 DEF ThreadRec
  <2>3. /\ s.id = th[u].id /\ s.hashed = th[u].hashed /\ s.proc = th[u].proc
        /\ s.obj = th[u].obj /\ s.todo = th[u].todo /\ s.stack = th[u].stack
        /\ s.pc = th[u].pc /\ s.sig = th[u].sig
    BY <2>1 DEF ThreadRec
  <2> QED BY <1>3, <2>2, <2>3 DEF WokenRec
<1> HIDE DEF r, s
<1>5. s \in ThreadRec
  BY <1>4 DEF WokenRec
<1>6. /\ th' \in [All -> ThreadRec] /\ th'[t] = r /\ th'[u] = s
      /\ \A v \in All : v # t /\ v # u => th'[v] = th[v]
  BY <1>0, <1>1, <1>2, <1>5
<1> QED BY <1>0, <1>1, <1>2, <1>3, <1>4, <1>6, CallTouches

(* A new priority, once a wakeup has linked the thread, moves it from one  *)
(* run queue to another and leaves it linked once.                         *)
LEMMA PriorityKeeps ==
    ASSUME ThreadInductive, NEW c \in Cpus, On(c, "kern"), NEW u \in Structs,
           thread_set_priority(c, u), PriorityLate
    PROVE  ThreadInductive'
<1> DEFINE t == cur[c]
           r == [th[t] EXCEPT !.pc = After(t), !.tgt = th[t].tgt]
<1>0. t \in All /\ u \in All /\ th \in [All -> ThreadRec] /\ t # None /\ th[t].pc = "kern"
      /\ th[t].tgt \in Nat /\ th[u].state = "READY" /\ u # t
  BY OnFacts DEF All, On, thread_set_priority, ThreadRec
<1>1. th' = [th EXCEPT ![t] = r] /\ UNCHANGED SharedVars /\ cur' = cur /\ dead_q' = dead_q
      /\ runq' = [runq EXCEPT ![u] = IF @ = 0 THEN 1 ELSE @]
  BY <1>0 DEF thread_set_priority, SharedVars, ThreadRec
<1>2. r \in ThreadRec /\ Shape(t, r) /\ Waits(r) /\ CalmRec(th[t], r) /\ r.state = th[t].state
  BY ZenonT(30), <1>0, CallerRec
<1>3. runq \in [All -> {0, 1}]
  BY DEF ThreadInductive, SchedInv, QueueOK
<1>4. ASSUME runq[u] = 0
      PROVE  FALSE
  <2>1. PICK v \in All : Hand(th, v, u)
    BY <1>0, <1>4 DEF ThreadInductive, SchedInv, QueueOK
  <2>2. v # t
    BY <1>0, <2>1 DEF Hand
  <2>3. th'[v] = th[v]
    BY <1>1, <2>2
  <2>4. u \in Woken /\ u \in Woken'
    BY <2>1, <2>3 DEF Woken, Hand
  <2>5. runq'[u] > runq[u]
    BY <1>0, <1>1, <1>3, <1>4
  <2> QED BY <2>4, <2>5 DEF PriorityLate
<1>5. runq' = runq
  BY <1>0, <1>1, <1>3, <1>4
<1>6. UNCHANGED schedVars
  BY <1>1, <1>5 DEF schedVars
<1> HIDE DEF r
<1> QED BY <1>0, <1>1, <1>2, <1>6, CalmGoes

(* proc_create_proc resumes the main thread it created.                    *)
LEMMA ProcResumeKeeps ==
    ASSUME ThreadInductive, NEW c \in Cpus, ProcResume(c)
    PROVE  ThreadInductive'
<1> DEFINE t == cur[c]
           S == {u \in Lookup(th[t].tgt) : th[u].state = "SUSPENDED"}
           r == [th[t] EXCEPT !.pc = "kern", !.tgt = 0]
           s(u) == [th[u] EXCEPT !.state = "READY", !.next = "READY"]
<1>0. t \in All /\ t # None /\ th \in [All -> ThreadRec] /\ th[t].state = "RUNNING"
      /\ th[t].pc = "p_resume"
  BY OnFacts DEF On, ProcResume
<1>1. t = Kernel /\ After(t) = "kern"
  BY <1>0, OnFacts DEF Shape, After
<1>2. /\ th' = [u \in All |-> IF u \in S THEN s(u) ELSE IF u = t THEN r ELSE th[u]]
      /\ runq' = Enqueue(runq, S) /\ cur' = cur /\ dead_q' = dead_q /\ UNCHANGED SharedVars
  BY DEF ProcResume, SharedVars
<1>3. r \in ThreadRec /\ Shape(t, r) /\ Waits(r) /\ CalmRec(th[t], r) /\ r.state = th[t].state
  BY <1>0, <1>1, CallerRec, 0 \in Nat
<1>4. S \in SUBSET All /\ t \notin S /\ \A u \in S : th[u].state = "SUSPENDED"
  BY <1>0 DEF Lookup, All
<1> HIDE DEF S, r
<1>5. ASSUME NEW u \in S
      PROVE  WokenRec(th[u], s(u)) /\ th[u].wait = "no"
  <2>1. th[u] \in ThreadRec /\ "READY" \in States /\ Waits(th[u])
    BY <1>0, <1>4 DEF States, ThreadInductive, ShapeInv
  <2>2. s(u) \in ThreadRec /\ s(u).state = "READY" /\ s(u).next = "READY" /\ s(u).wait = th[u].wait
    BY <2>1 DEF ThreadRec
  <2>3. /\ s(u).id = th[u].id /\ s(u).hashed = th[u].hashed /\ s(u).proc = th[u].proc
        /\ s(u).obj = th[u].obj /\ s(u).todo = th[u].todo /\ s(u).stack = th[u].stack
        /\ s(u).pc = th[u].pc /\ s(u).sig = th[u].sig
    BY <2>1 DEF ThreadRec
  <2>4. th[u].wait = "no"
    BY <1>4, <2>1 DEF Waits
  <2> QED BY <2>2, <2>3, <2>4 DEF WokenRec
<1> HIDE DEF s
<1>6. ASSUME NEW u \in S
      PROVE  s(u) \in ThreadRec /\ Shape(u, s(u)) /\ Waits(s(u)) /\ CalmRec(th[u], s(u))
             /\ s(u).state = "READY"
  <2>1. WokenRec(th[u], s(u)) /\ th[u].wait = "no" /\ u \in All /\ th[u].state = "SUSPENDED"
    BY <1>4, <1>5, <1>6
  <2>2. Shape(u, th[u])
    BY <2>1 DEF ThreadInductive, ShapeInv
  <2> QED BY <2>1, <2>2, WokenShape DEF WokenRec
<1>7. /\ \A u \in S : th'[u] = s(u)
      /\ th'[t] = r
      /\ \A u \in All : u \notin S /\ u # t => th'[u] = th[u]
  BY <1>0, <1>2, <1>4
<1>8. th' \in [All -> ThreadRec]
  BY <1>0, <1>2, <1>3, <1>6
<1>9. \A u \in All : Shape(u, th'[u]) /\ Waits(th'[u])
  BY <1>3, <1>6, <1>7 DEF ThreadInductive, ShapeInv
<1>10. Calm
  <2>1. \A u \in All : CalmRec(th[u], th[u])
    BY DEF CalmRec
  <2> QED BY <1>3, <1>6, <1>7, <2>1 DEF Calm
<1>11. \A u \in All : th'[u].state = IF u \in S THEN "READY" ELSE th[u].state
  BY <1>3, <1>6, <1>7
<1>12. runq \in [All -> {0, 1}] /\ \A u \in S : runq[u] = 0
  BY <1>4 DEF ThreadInductive, SchedInv, QueueOK
<1>13. /\ runq' \in [All -> {0, 1}]
       /\ \A u \in All : runq'[u] = IF u \in S THEN 1 ELSE runq[u]
  BY <1>2, <1>4, <1>12, EnqueueFacts
<1>14. \A u \in S : th[u].state \notin {"READY", "RUNNING", "FREE"}
  BY <1>4
<1> QED BY <1>2, <1>4, <1>8, <1>9, <1>10, <1>11, <1>13, <1>14, CalmReady

-----------------------------------------------------------------------------
(* Steps of creation and exit.                                             *)

(* One thread goes on and what is shared is proved by itself.              *)
LEMMA OneGoes ==
    ASSUME ThreadInductive, NEW c \in Cpus, cur[c] # None, NEW r \in ThreadRec, Goes(c, r),
           Shape(cur[c], r), Waits(r), r.state = th[cur[c]].state,
           th[cur[c]].pc # "x_wake", r.pc # "x_wake"
    PROVE  ShapeInv' /\ SchedInv'
<1> DEFINE t == cur[c]
<1>0. t \in All /\ th \in [All -> ThreadRec]
  BY OnFacts
<1>1. th' \in [All -> ThreadRec] /\ th'[t] = r /\ \A u \in All : u # t => th'[u] = th[u]
  BY <1>0 DEF Goes
<1>2. ShapeInv'
  BY <1>1 DEF ThreadInductive, ShapeInv
<1>3. \A u, v \in All : Hand(th', u, v) <=> Hand(th, u, v)
  BY <1>1 DEF Hand
<1>4. RunOK(th') /\ QueueOK(th', runq) /\ DeadOK(th')
  BY <1>1, <1>3, SchedSame DEF ThreadInductive
<1>5. SchedInv'
  BY <1>4 DEF SchedInv, RunOK, QueueOK, DeadOK, Hand, Goes, schedVars
<1> QED BY <1>2, <1>5

(* What a step may do to a thread so that each part of what is shared is   *)
(* as before.                                                              *)
ProcRec(r, s) ==
    /\ s.proc = "user" <=> r.proc = "user"
    /\ s.pc \in MainPcs => r.pc \in MainPcs
    /\ s.pc = "x_free" => r.pc = "x_free"
    /\ s.pc = "load" => r.pc = "load"

(* Such a step leaves the process as the threads say.                      *)
LEMMA ProcFrame ==
    ASSUME ProcInv, proc' = proc, \A u \in Structs : ProcRec(th[u], th'[u])
    PROVE  ProcInv'
<1>1. ProcType'
  BY DEF ProcInv, ProcType
<1>2. \A t \in Structs : th'[t].proc = "user" <=> t \in proc'.threads
  BY DEF ProcInv, ProcRec
<1>3. \A t \in Structs :
         /\ th'[t].pc \in MainPcs => proc'.state = "death" /\ proc'.main = t
         /\ th'[t].pc = "x_free" => proc'.threads = {}
         /\ th'[t].pc = "load" /\ th'[t].proc = "user" => proc'.main = t /\ proc'.state = "birth"
  BY DEF ProcInv, ProcRec
<1> QED BY <1>1, <1>2, <1>3 DEF ProcInv

CreateRec(r, s) ==
    /\ s.obj = r.obj
    /\ s.pc = "c_insert" <=> r.pc = "c_insert"
    /\ s.pc = "p_create" => r.pc = "p_create"
    /\ r.state = "BIRTH" => s.state = "BIRTH" /\ s.proc = r.proc /\ s.pc = r.pc

(* It leaves the threads under creation to their creators.                 *)
LEMMA CreateFrame ==
    ASSUME CreateInv, Empty => Empty', \A u \in All : CreateRec(th[u], th'[u])
    PROVE  CreateInv'
<1>0. Structs \subseteq All /\ Kernel \in All
  BY DEF All
<1>1. th'[Kernel].pc = "p_create" => Empty'
  BY <1>0 DEF CreateInv, CreateRec
<1>2. ASSUME NEW t \in All, NEW s \in Structs, th'[t].obj = s
      PROVE  /\ th'[s].state = "BIRTH"
             /\ th'[s].proc = IF th'[t].pc = "c_insert" THEN "none" ELSE "user"
             /\ th'[s].pc = "load" => t = Kernel /\ (th'[t].pc = "c_insert" => Empty')
  <2>1. th[t].obj = s /\ (th'[t].pc = "c_insert" <=> th[t].pc = "c_insert")
    BY <1>2 DEF CreateRec
  <2>2. /\ th[s].state = "BIRTH"
        /\ th[s].proc = IF th[t].pc = "c_insert" THEN "none" ELSE "user"
        /\ th[s].pc = "load" => t = Kernel /\ (th[t].pc = "c_insert" => Empty)
    BY <2>1 DEF CreateInv
  <2>3. th'[s].state = "BIRTH" /\ th'[s].proc = th[s].proc /\ th'[s].pc = th[s].pc
    BY <1>0, <2>2 DEF CreateRec
  <2> QED BY <2>1, <2>2, <2>3
<1>3. \A t, u \in All : th'[t].obj = th'[u].obj /\ th'[t].obj # None => t = u
  BY DEF CreateInv, CreateRec
<1> QED BY <1>1, <1>2, <1>3 DEF CreateInv

KillRec(r, s) ==
    /\ s.pc = "x_killing" <=> r.pc = "x_killing"
    /\ s.pc = "x_killing" => s.todo = r.todo
    /\ s.pc = "x_wait" => r.pc = "x_wait"

(* It leaves what the main thread has killed.                              *)
LEMMA KillFrame ==
    ASSUME KillInv, plock' = plock, \A u \in All : KillRec(th[u], th'[u]),
           proc'.threads \subseteq proc.threads, proc'.threads = proc.threads \/ plock = None,
           \A u \in proc'.threads : DoomedThread(th[u]) => DoomedThread(th'[u])
    PROVE  KillInv'
<1>0. Structs \subseteq All /\ \A t \in Structs : t # None
  BY ThreadAssumption DEF All
<1>1. \A t \in All : th'[t].pc = "x_killing" <=> plock' = t
  BY DEF KillInv, KillRec
<1>2. ASSUME NEW t \in Structs, th'[t].pc = "x_killing"
      PROVE  /\ th'[t].todo \subseteq proc'.threads
             /\ \A u \in proc'.threads \ th'[t].todo : DoomedThread(th'[u])
  <2>1. th[t].pc = "x_killing" /\ th'[t].todo = th[t].todo /\ t \in All
    BY <1>0, <1>2 DEF KillRec
  <2>2. proc'.threads = proc.threads
    BY <1>0, <2>1 DEF KillInv
  <2> QED BY <2>1, <2>2 DEF KillInv
<1>3. ASSUME NEW t \in Structs, th'[t].pc = "x_wait"
      PROVE  \A u \in proc'.threads : DoomedThread(th'[u])
  BY <1>0, <1>3 DEF KillInv, KillRec
<1> QED BY <1>1, <1>2, <1>3 DEF KillInv

StackRec(r, s) ==
    /\ s.pc \in {"x_unlist", "x_put"} /\ s.state # "FREE" <=>
          r.pc \in {"x_unlist", "x_put"} /\ r.state # "FREE"
    /\ s.pc \in {"x_unlist", "x_put"} => s.stack = r.stack
    /\ s.pc = "x_bit" /\ s.wait = "no" <=> r.pc = "x_bit" /\ r.wait = "no"

(* It leaves the death stacks in use and their semaphore.                  *)
LEMMA StackFrame ==
    ASSUME StackInv, UNCHANGED deathVars, \A u \in Structs : StackRec(th[u], th'[u])
    PROVE  StackInv'
<1>1. \A t \in Structs : OnStack(t)' <=> OnStack(t)
  BY DEF OnStack, StackRec
<1>2. \A t \in Structs : OnStack(t) => th'[t].stack = th[t].stack
  BY DEF OnStack, StackRec
<1>3. Bits' = Bits
  BY DEF Bits, StackRec
<1> QED BY <1>1, <1>2, <1>3 DEF StackInv, deathVars

IdRec(r, s) ==
    /\ s.id = r.id
    /\ s.pc \in LatePcs \cup {"x_put"} => r.pc \in LatePcs \cup {"x_put"}

(* It leaves the ids and the semaphores of their ends.                     *)
LEMMA IdFrame ==
    ASSUME IdInv, next_id' = next_id, sems' = sems, \A u \in All : IdRec(th[u], th'[u])
    PROVE  IdInv'
BY DEF IdInv, IdRec

(* A thread that stays as it is.                                           *)
LEMMA Rest ==
    ASSUME NEW r
    PROVE  ProcRec(r, r) /\ CreateRec(r, r) /\ KillRec(r, r) /\ StackRec(r, r) /\ IdRec(r, r)
BY DEF ProcRec, CreateRec, KillRec, StackRec, IdRec

(* A step of thread_exit leaves the fields in agreement.                   *)
LEMMA ExitShape ==
    ASSUME NEW t \in All, t # Kernel, NEW r, NEW s \in ThreadRec, Shape(t, r),
           r.state = "RUNNING", s.state = "RUNNING", s.next = r.next, s.obj = r.obj,
           s.hashed = r.hashed, s.stack = r.stack, s.wait = "no",
           r.pc \in MainPcs \cup {"x_move", "x_sem", "x_wake", "x_stack"},
           s.pc \in MainPcs \cup {"x_sem", "x_wake", "x_stack", "x_bit"},
           s.proc = "kernel", s.todo # {} => s.pc \in {"x_killing", "x_wake"}
    PROVE  Shape(t, s) /\ Waits(s)
<1>1. StateShape(s)
  BY DEF Shape, StateShape, MainPcs
<1>2. HandShape(s)
  BY DEF Shape, HandShape, MainPcs
<1>3. ProcShape(s)
  BY DEF Shape, ProcShape, MainPcs, UserPcs, PlainPcs, LatePcs
<1>4. Shape(t, s)
  BY <1>1, <1>2, <1>3 DEF Shape, MainPcs
<1> QED BY <1>4 DEF Waits

(* The thread on c goes on from p to p2 in its exit; what of it and of the *)
(* others is as before.                                                    *)
LEMMA ExitFacts ==
    ASSUME ThreadInductive, NEW c \in Cpus, NEW p, On(c, p),
           p \in MainPcs \cup LatePcs \cup {"x_move", "x_sem", "x_put", "load"}
    PROVE  /\ cur[c] # None /\ cur[c] \in Structs /\ cur[c] # Kernel /\ cur[c] \in All
           /\ th[cur[c]].pc = p /\ th[cur[c]].state = "RUNNING" /\ th[cur[c]].wait = "no"
           /\ th[cur[c]] \in ThreadRec /\ Shape(cur[c], th[cur[c]])
           /\ th \in [All -> ThreadRec]
<1>1. cur[c] # Kernel
  BY OnFacts DEF On, Shape, KernelPcs, MainPcs, LatePcs
<1> QED BY <1>1, OnFacts DEF On, All

(* Where thread t becomes r and the rest stays, each part is as before if  *)
(* it is for t.                                                            *)
LEMMA OneFrames ==
    ASSUME ThreadInductive, NEW t \in All, NEW r, th' = [th EXCEPT ![t] = r]
    PROVE  /\ proc' = proc /\ ProcRec(th[t], r) => ProcInv'
           /\ (Empty => Empty') /\ CreateRec(th[t], r) => CreateInv'
           /\ /\ plock' = plock /\ KillRec(th[t], r) /\ proc'.threads \subseteq proc.threads
              /\ proc'.threads = proc.threads \/ plock = None
              /\ t \in proc'.threads /\ DoomedThread(th[t]) => DoomedThread(r)
              => KillInv'
           /\ UNCHANGED deathVars /\ StackRec(th[t], r) => StackInv'
           /\ next_id' = next_id /\ sems' = sems /\ IdRec(th[t], r) => IdInv'
<1>1. th'[t] = r /\ \A u \in All : u # t => th'[u] = th[u]
  BY DEF ThreadInductive, ShapeInv
<1>2. Structs \subseteq All /\ proc.threads \subseteq All
  BY DEF All, ThreadInductive, SharedInv, ProcInv, ProcType
<1>3. ProcInv /\ CreateInv /\ KillInv /\ StackInv /\ IdInv
  BY DEF ThreadInductive, SharedInv
<1>4. proc' = proc /\ ProcRec(th[t], r) => ProcInv'
  BY <1>1, <1>2, <1>3, Rest, ProcFrame
<1>5. (Empty => Empty') /\ CreateRec(th[t], r) => CreateInv'
  BY <1>1, <1>3, Rest, CreateFrame
<1>6. /\ plock' = plock /\ KillRec(th[t], r) /\ proc'.threads \subseteq proc.threads
      /\ proc'.threads = proc.threads \/ plock = None
      /\ t \in proc'.threads /\ DoomedThread(th[t]) => DoomedThread(r)
      => KillInv'
  <2> SUFFICES ASSUME plock' = plock, KillRec(th[t], r), proc'.threads \subseteq proc.threads,
                      proc'.threads = proc.threads \/ plock = None,
                      t \in proc'.threads /\ DoomedThread(th[t]) => DoomedThread(r)
               PROVE  KillInv'
    OBVIOUS
  <2>1. \A u \in proc'.threads : DoomedThread(th[u]) => DoomedThread(th'[u])
    BY <1>1, <1>2
  <2>2. \A u \in All : KillRec(th[u], th'[u])
    BY <1>1, Rest
  <2> QED BY <1>3, <2>1, <2>2, KillFrame
<1>7. UNCHANGED deathVars /\ StackRec(th[t], r) => StackInv'
  BY <1>1, <1>2, <1>3, Rest, StackFrame
<1>8. next_id' = next_id /\ sems' = sems /\ IdRec(th[t], r) => IdInv'
  BY <1>1, <1>3, Rest, IdFrame
<1> QED BY <1>4, <1>5, <1>6, <1>7, <1>8

(* The main thread takes the lock and begins with its threads.             *)
LEMMA ExitKillKeeps ==
    ASSUME ThreadInductive, NEW c \in Cpus, ExitKill(c)
    PROVE  ThreadInductive'
<1> DEFINE t == cur[c]
           r == [th[t] EXCEPT !.pc = "x_killing", !.todo = proc.threads]
<1>1. /\ t # None /\ t \in Structs /\ t # Kernel /\ t \in All /\ th[t].pc = "x_kill"
      /\ th[t].state = "RUNNING" /\ th[t].wait = "no" /\ th[t] \in ThreadRec
      /\ Shape(t, th[t]) /\ th \in [All -> ThreadRec]
  BY ExitFacts DEF ExitKill, MainPcs
<1>2. proc.threads \subseteq Structs /\ Structs \subseteq All
  BY DEF All, ThreadInductive, SharedInv, ProcInv, ProcType
<1>3. /\ r \in ThreadRec /\ r.pc = "x_killing" /\ r.todo = proc.threads
      /\ r.state = th[t].state /\ r.next = th[t].next /\ r.obj = th[t].obj
      /\ r.hashed = th[t].hashed /\ r.stack = th[t].stack /\ r.wait = th[t].wait
      /\ r.proc = th[t].proc /\ r.id = th[t].id /\ r.sig = th[t].sig
  <2>1. proc.threads \in SUBSET All /\ "x_killing" \in Pcs
    BY <1>2 DEF Pcs, MainPcs
  <2> QED BY <1>1, <2>1 DEF ThreadRec
<1>4. Goes(c, r) /\ plock = None /\ plock' = t /\ proc' = proc /\ sems' = sems
      /\ next_id' = next_id /\ UNCHANGED deathVars
  BY DEF ExitKill
<1> HIDE DEF r
<1>5. th[t].proc = "kernel"
  BY <1>1 DEF Shape, ProcShape, MainPcs
<1>6. Shape(t, r) /\ Waits(r)
  BY <1>1, <1>3, <1>5, ExitShape DEF MainPcs
<1>7. ShapeInv' /\ SchedInv'
  BY <1>1, <1>3, <1>4, <1>6, OneGoes
<1>8. th' = [th EXCEPT ![t] = r]
  BY <1>4 DEF Goes
<1>9. ProcInv' /\ CreateInv' /\ StackInv' /\ IdInv'
  <2>1. ProcRec(th[t], r)
    BY <1>1, <1>3 DEF ProcRec, MainPcs
  <2>2. CreateRec(th[t], r)
    BY <1>1, <1>3 DEF CreateRec
  <2>3. StackRec(th[t], r)
    BY <1>1, <1>3 DEF StackRec
  <2>4. IdRec(th[t], r)
    BY <1>1, <1>3 DEF IdRec, LatePcs
  <2>5. Empty => Empty'
    BY <1>4 DEF Empty
  <2> QED BY <1>1, <1>4, <1>8, <2>1, <2>2, <2>3, <2>4, <2>5, OneFrames
<1>10. KillInv'
  <2>0. th'[t] = r /\ \A u \in All : u # t => th'[u] = th[u]
    BY <1>1, <1>8
  <2>1. \A u \in All : th'[u].pc = "x_killing" <=> plock' = u
    BY <1>1, <1>3, <1>4, <2>0, ThreadAssumption DEF ThreadInductive, SharedInv, KillInv, All
  <2>2. ASSUME NEW u \in Structs, th'[u].pc = "x_wait"
        PROVE  FALSE
    <3>1. th[u].pc = "x_wait" /\ u # t
      BY <1>1, <1>2, <1>3, <2>0, <2>2
    <3> QED BY <1>1, <3>1 DEF ThreadInductive, SharedInv, ProcInv, MainPcs
  <2>3. ASSUME NEW u \in Structs, th'[u].pc = "x_killing"
        PROVE  th'[u].todo = proc'.threads
    BY <1>2, <1>3, <1>4, <2>0, <2>1, <2>3
  <2> QED BY <1>1, <1>4, <2>1, <2>2, <2>3 DEF KillInv
<1> QED BY <1>7, <1>9, <1>10 DEF ThreadInductive, SharedInv

(* It has killed all of them and gives the lock back.                      *)
LEMMA ExitKillDoneKeeps ==
    ASSUME ThreadInductive, NEW c \in Cpus, ExitKillDone(c)
    PROVE  ThreadInductive'
<1> DEFINE t == cur[c]
           r == [th[t] EXCEPT !.pc = "x_wait"]
<1>1. /\ t # None /\ t \in Structs /\ t # Kernel /\ t \in All /\ th[t].pc = "x_killing"
      /\ th[t].state = "RUNNING" /\ th[t].wait = "no" /\ th[t] \in ThreadRec
      /\ Shape(t, th[t]) /\ th \in [All -> ThreadRec]
  BY ExitFacts DEF ExitKillDone, MainPcs
<1>2. Structs \subseteq All
  BY DEF All
<1>3. /\ r \in ThreadRec /\ r.pc = "x_wait" /\ r.todo = th[t].todo
      /\ r.state = th[t].state /\ r.next = th[t].next /\ r.obj = th[t].obj
      /\ r.hashed = th[t].hashed /\ r.stack = th[t].stack /\ r.wait = th[t].wait
      /\ r.proc = th[t].proc /\ r.id = th[t].id /\ r.sig = th[t].sig
  BY <1>1 DEF ThreadRec, Pcs, MainPcs
<1>4. Goes(c, r) /\ th[t].todo = {} /\ plock' = None /\ proc' = proc /\ sems' = sems
      /\ next_id' = next_id /\ UNCHANGED deathVars
  BY DEF ExitKillDone
<1> HIDE DEF r
<1>5. th[t].proc = "kernel"
  BY <1>1 DEF Shape, ProcShape, MainPcs
<1>6. Shape(t, r) /\ Waits(r)
  BY <1>1, <1>3, <1>4, <1>5, ExitShape DEF MainPcs
<1>7. ShapeInv' /\ SchedInv'
  BY <1>1, <1>3, <1>4, <1>6, OneGoes
<1>8. th' = [th EXCEPT ![t] = r]
  BY <1>4 DEF Goes
<1>9. ProcInv' /\ CreateInv' /\ StackInv' /\ IdInv'
  <2>1. ProcRec(th[t], r)
    BY <1>1, <1>3 DEF ProcRec, MainPcs
  <2>2. CreateRec(th[t], r)
    BY <1>1, <1>3 DEF CreateRec
  <2>3. StackRec(th[t], r)
    BY <1>1, <1>3 DEF StackRec
  <2>4. IdRec(th[t], r)
    BY <1>1, <1>3 DEF IdRec, LatePcs
  <2>5. Empty => Empty'
    BY <1>4 DEF Empty
  <2> QED BY <1>1, <1>4, <1>8, <2>1, <2>2, <2>3, <2>4, <2>5, OneFrames
<1>10. KillInv'
  <2>0. th'[t] = r /\ \A u \in All : u # t => th'[u] = th[u]
    BY <1>1, <1>8
  <2>1. \A u \in All : th[u].pc = "x_killing" <=> u = t
    BY <1>1 DEF ThreadInductive, SharedInv, KillInv
  <2>2. \A u \in All : th'[u].pc = "x_killing" <=> plock' = u
    BY <1>1, <1>3, <1>4, <2>0, <2>1, ThreadAssumption DEF All
  <2>3. proc.threads \subseteq All /\ t \notin proc.threads
    BY <1>1, <1>2, <1>5 DEF ThreadInductive, SharedInv, ProcInv, ProcType
  <2>4. \A u \in proc.threads : DoomedThread(th[u])
    BY <1>1, <1>4 DEF ThreadInductive, SharedInv, KillInv
  <2>5. \A u \in proc'.threads : DoomedThread(th'[u])
    BY <1>4, <2>0, <2>3, <2>4
  <2>6. plock' \in All \cup {None} /\ \A u \in Structs : th'[u].pc # "x_killing"
    BY <1>2, <1>3, <1>4, <2>0, <2>1
  <2> QED BY <2>2, <2>5, <2>6 DEF KillInv
<1> QED BY <1>7, <1>9, <1>10 DEF ThreadInductive, SharedInv

(* It waits until the process has no threads.                              *)
LEMMA ExitWaitKeeps ==
    ASSUME ThreadInductive, NEW c \in Cpus, ExitWait(c)
    PROVE  ThreadInductive'
<1> DEFINE t == cur[c]
           r == [th[t] EXCEPT !.pc = "x_free"]
           w == [th[t] EXCEPT !.wait = "snooze"]
           s == [w EXCEPT !.next = "WAITING"]
<1>1. /\ t # None /\ t \in Structs /\ t # Kernel /\ t \in All /\ th[t].pc = "x_wait"
      /\ th[t].state = "RUNNING" /\ th[t].wait = "no" /\ th[t] \in ThreadRec
      /\ Shape(t, th[t]) /\ th \in [All -> ThreadRec]
  BY ExitFacts DEF ExitWait, MainPcs
<1>2. UNCHANGED SharedVars
  BY DEF ExitWait, SharedVars
<1>3. th[t].proc = "kernel" /\ th[t].todo = {}
  BY <1>1 DEF Shape, ProcShape, MainPcs, HandShape
<1>4. CASE proc.threads # {}
  <2>1. Resched(c, [th EXCEPT ![t] = s], runq)
    BY <1>4 DEF ExitWait, Block, Gone
  <2>2. /\ s \in ThreadRec /\ s.pc = "x_wait" /\ s.todo = th[t].todo
        /\ s.state = th[t].state /\ s.next = "WAITING" /\ s.obj = th[t].obj
        /\ s.hashed = th[t].hashed /\ s.stack = th[t].stack /\ s.wait = "snooze"
        /\ s.proc = th[t].proc /\ s.id = th[t].id /\ s.sig = th[t].sig
    BY <1>1 DEF ThreadRec, States
  <2> HIDE DEF s, w
  <2>3. StateShape(s) /\ HandShape(s) /\ ProcShape(s)
    BY <1>1, <2>2 DEF Shape, StateShape, HandShape, ProcShape, UserPcs, PlainPcs
  <2>4. Shape(t, s)
    BY <1>1, <2>2, <2>3 DEF Shape
  <2>5. CalmRec(th[t], s)
    BY <1>1, <2>2 DEF CalmRec, DoomedThread
  <2> QED BY <1>1, <1>2, <2>1, <2>2, <2>4, <2>5, CalmBlock
<1>5. CASE proc.threads = {}
  <2>1. Goes(c, r)
    BY <1>5 DEF ExitWait, Gone
  <2>2. /\ r \in ThreadRec /\ r.pc = "x_free" /\ r.todo = th[t].todo
        /\ r.state = th[t].state /\ r.next = th[t].next /\ r.obj = th[t].obj
        /\ r.hashed = th[t].hashed /\ r.stack = th[t].stack /\ r.wait = th[t].wait
        /\ r.proc = th[t].proc /\ r.id = th[t].id /\ r.sig = th[t].sig
    BY <1>1 DEF ThreadRec, Pcs, MainPcs
  <2> HIDE DEF r
  <2>3. Shape(t, r) /\ Waits(r)
    BY <1>1, <1>3, <2>2, ExitShape DEF MainPcs
  <2>4. ShapeInv' /\ SchedInv'
    BY <1>1, <2>1, <2>2, <2>3, OneGoes
  <2>5. th' = [th EXCEPT ![t] = r]
    BY <2>1 DEF Goes
  <2>6. CreateInv' /\ StackInv' /\ IdInv' /\ KillInv'
    <3>1. CreateRec(th[t], r)
      BY <1>1, <2>2 DEF CreateRec
    <3>2. StackRec(th[t], r)
      BY <1>1, <2>2 DEF StackRec
    <3>3. IdRec(th[t], r)
      BY <1>1, <2>2 DEF IdRec, LatePcs
    <3>4. KillRec(th[t], r)
      BY <1>1, <2>2 DEF KillRec
    <3>5. (Empty => Empty') /\ (DoomedThread(th[t]) => DoomedThread(r))
      BY <1>1, <1>2, <2>2 DEF Empty, SharedVars, procVars, DoomedThread
    <3> QED BY <1>1, <1>2, <2>5, <3>1, <3>2, <3>3, <3>4, <3>5, OneFrames
            DEF SharedVars, procVars
  <2>7. ProcInv'
    <3>0. th'[t] = r /\ (\A u \in All : u # t => th'[u] = th[u]) /\ proc' = proc
      BY <1>1, <1>2, <2>5 DEF SharedVars, procVars
    <3>1. Structs \subseteq All
      BY DEF All
    <3>2. ProcType'
      BY <3>0 DEF ThreadInductive, SharedInv, ProcInv, ProcType
    <3>3. \A u \in Structs : th'[u].proc = "user" <=> u \in proc'.threads
      BY <1>1, <2>2, <3>0, <3>1 DEF ThreadInductive, SharedInv, ProcInv
    <3>4. ASSUME NEW u \in Structs
          PROVE  /\ th'[u].pc \in MainPcs => proc'.state = "death" /\ proc'.main = u
                 /\ th'[u].pc = "x_free" => proc'.threads = {}
                 /\ th'[u].pc = "load" /\ th'[u].proc = "user" =>
                       proc'.main = u /\ proc'.state = "birth"
      <4>1. th[t].pc \in MainPcs
        BY <1>1 DEF MainPcs
      <4> QED BY <1>5, <2>2, <3>0, <3>1, <4>1 DEF ThreadInductive, SharedInv, ProcInv
    <3> QED BY <3>0, <3>2, <3>3, <3>4 DEF ThreadInductive, SharedInv, ProcInv
  <2> QED BY <2>4, <2>6, <2>7 DEF ThreadInductive, SharedInv
<1> QED BY <1>4, <1>5

(* It takes the process out of the table.                                  *)
LEMMA ExitFreeKeeps ==
    ASSUME ThreadInductive, NEW c \in Cpus, ExitFree(c)
    PROVE  ThreadInductive'
<1> DEFINE t == cur[c]
           r == [th[t] EXCEPT !.pc = "x_sem"]
<1>1. /\ t # None /\ t \in Structs /\ t # Kernel /\ t \in All /\ th[t].pc = "x_free"
      /\ th[t].state = "RUNNING" /\ th[t].wait = "no" /\ th[t] \in ThreadRec
      /\ Shape(t, th[t]) /\ th \in [All -> ThreadRec]
  BY ExitFacts DEF ExitFree, MainPcs
<1>2. Structs \subseteq All
  BY DEF All
<1>3. /\ r \in ThreadRec /\ r.pc = "x_sem" /\ r.todo = th[t].todo
      /\ r.state = th[t].state /\ r.next = th[t].next /\ r.obj = th[t].obj
      /\ r.hashed = th[t].hashed /\ r.stack = th[t].stack /\ r.wait = th[t].wait
      /\ r.proc = th[t].proc /\ r.id = th[t].id /\ r.sig = th[t].sig
  BY <1>1 DEF ThreadRec, Pcs
<1>4. Goes(c, r) /\ proc' = NoProc /\ plock' = plock /\ sems' = sems
      /\ next_id' = next_id /\ UNCHANGED deathVars
  BY DEF ExitFree
<1> HIDE DEF r
<1>5. th[t].proc = "kernel" /\ th[t].todo = {}
  BY <1>1 DEF Shape, ProcShape, MainPcs, HandShape
<1>6. Shape(t, r) /\ Waits(r)
  BY <1>1, <1>3, <1>5, ExitShape DEF MainPcs
<1>7. ShapeInv' /\ SchedInv'
  BY <1>1, <1>3, <1>4, <1>6, OneGoes
<1>8. th' = [th EXCEPT ![t] = r]
  BY <1>4 DEF Goes
<1>9. /\ proc'.threads = {} /\ proc'.state = "none" /\ ~proc'.alloc /\ ~proc'.hashed
      /\ proc'.main = None /\ ProcType'
  BY <1>4 DEF NoProc, ProcType
<1>10. proc.threads = {} /\ proc.state = "death" /\ proc.main = t
  BY <1>1 DEF ThreadInductive, SharedInv, ProcInv, MainPcs
<1>11. CreateInv' /\ StackInv' /\ IdInv' /\ KillInv'
  <2>1. CreateRec(th[t], r)
    BY <1>1, <1>3 DEF CreateRec
  <2>2. StackRec(th[t], r)
    BY <1>1, <1>3 DEF StackRec
  <2>3. IdRec(th[t], r)
    BY <1>1, <1>3 DEF IdRec, LatePcs
  <2>4. KillRec(th[t], r)
    BY <1>1, <1>3 DEF KillRec
  <2>5. Empty => Empty'
    BY <1>10 DEF Empty
  <2> QED BY <1>1, <1>4, <1>8, <1>9, <1>10, <2>1, <2>2, <2>3, <2>4, <2>5, OneFrames
<1>12. ProcInv'
  <2>0. th'[t] = r /\ \A u \in All : u # t => th'[u] = th[u]
    BY <1>1, <1>8
  <2>1. \A u \in Structs : th'[u].proc # "user"
    BY <1>2, <1>3, <1>5, <1>10, <2>0 DEF ThreadInductive, SharedInv, ProcInv
  <2>2. \A u \in Structs : th'[u].pc \notin MainPcs
    BY <1>2, <1>3, <1>10, <2>0 DEF ThreadInductive, SharedInv, ProcInv, MainPcs
  <2>3. \A u \in Structs : th'[u].pc # "x_free"
    BY <2>2 DEF MainPcs
  <2> QED BY <1>9, <2>1, <2>2, <2>3 DEF ProcInv
<1> QED BY <1>7, <1>11, <1>12 DEF ThreadInductive, SharedInv

(* thread_exit moves the thread into the kernel's process.                 *)
LEMMA ExitMoveKeeps ==
    ASSUME ThreadInductive, NEW c \in Cpus, ExitMove(c)
    PROVE  ThreadInductive'
<1> DEFINE t == cur[c]
           rest == proc.threads \ {t}
           p == IF proc.main # t THEN "x_sem" ELSE IF rest # {} THEN "x_kill" ELSE "x_free"
           r == [th[t] EXCEPT !.proc = "kernel", !.sig = {}, !.in_kernel = TRUE, !.pc = p]
<1>1. /\ t # None /\ t \in Structs /\ t # Kernel /\ t \in All /\ th[t].pc = "x_move"
      /\ th[t].state = "RUNNING" /\ th[t].wait = "no" /\ th[t] \in ThreadRec
      /\ Shape(t, th[t]) /\ th \in [All -> ThreadRec]
  BY ExitFacts DEF ExitMove
<1>2. Structs \subseteq All
  BY DEF All
<1>3. /\ r \in ThreadRec /\ r.pc = p /\ r.todo = th[t].todo
      /\ r.state = th[t].state /\ r.next = th[t].next /\ r.obj = th[t].obj
      /\ r.hashed = th[t].hashed /\ r.stack = th[t].stack /\ r.wait = th[t].wait
      /\ r.proc = "kernel" /\ r.id = th[t].id
  <2>1. p \in Pcs
    BY DEF Pcs, MainPcs
  <2> HIDE DEF p
  <2> QED BY <1>1, <2>1 DEF ThreadRec
<1>4. /\ Goes(c, r) /\ plock = None /\ plock' = plock /\ sems' = sems
      /\ next_id' = next_id /\ UNCHANGED deathVars
      /\ proc' = IF proc.main = t
                 THEN [proc EXCEPT !.threads = rest, !.hashed = FALSE, !.state = "death"]
                 ELSE [proc EXCEPT !.threads = rest]
  BY DEF ExitMove
<1> HIDE DEF r
<1>5. th[t].proc = "user" /\ th[t].todo = {}
  BY <1>1 DEF Shape, ProcShape, UserPcs, HandShape
<1>6. Shape(t, r) /\ Waits(r)
  BY <1>1, <1>3, <1>5, ExitShape DEF MainPcs
<1>7. ShapeInv' /\ SchedInv'
  BY <1>1, <1>3, <1>4, <1>6, OneGoes
<1>8. th' = [th EXCEPT ![t] = r]
  BY <1>4 DEF Goes
<1>9. ProcInv /\ ProcType /\ t \in proc.threads
  BY <1>1, <1>5 DEF ThreadInductive, SharedInv, ProcInv
<1>10. /\ ProcType' /\ proc'.threads = rest /\ proc'.main = proc.main
       /\ proc'.alloc = proc.alloc
       /\ proc'.hashed = IF proc.main = t THEN FALSE ELSE proc.hashed
       /\ proc'.state = IF proc.main = t THEN "death" ELSE proc.state
  <2>1. rest \in SUBSET Structs
    BY <1>9 DEF ProcType
  <2> HIDE DEF rest
  <2> QED BY <1>4, <1>9, <2>1 DEF ProcType
<1>11. CreateInv' /\ StackInv' /\ IdInv' /\ KillInv'
  <2>1. CreateRec(th[t], r)
    BY <1>1, <1>3 DEF CreateRec
  <2>2. StackRec(th[t], r)
    BY <1>1, <1>3 DEF StackRec
  <2>3. IdRec(th[t], r)
    BY <1>1, <1>3 DEF IdRec, LatePcs
  <2>4. KillRec(th[t], r)
    BY <1>1, <1>3 DEF KillRec
  <2>5. (Empty => Empty') /\ proc'.threads \subseteq proc.threads /\ t \notin proc'.threads
    BY <1>9, <1>10 DEF Empty
  <2> QED BY <1>1, <1>4, <1>8, <2>1, <2>2, <2>3, <2>4, <2>5, OneFrames
<1>12. ProcInv'
  <2>0. th'[t] = r /\ \A u \in All : u # t => th'[u] = th[u]
    BY <1>1, <1>8
  <2>1. \A u \in Structs : th'[u].proc = "user" <=> u \in proc'.threads
    BY <1>2, <1>3, <1>9, <1>10, <2>0 DEF ProcInv
  <2>2. /\ proc'.alloc <=> proc'.state # "none"
        /\ proc'.hashed <=> proc'.state \in {"birth", "normal"}
        /\ proc'.threads # {} => proc'.state # "none"
    BY <1>9, <1>10 DEF ProcInv
  <2>3. proc'.state \in {"birth", "normal"} /\ proc'.main # None => proc'.main \in proc'.threads
    BY <1>9, <1>10 DEF ProcInv
  <2>4. ASSUME NEW u \in Structs, u = t
        PROVE  /\ th'[u].pc \in MainPcs => proc'.state = "death" /\ proc'.main = u
               /\ th'[u].pc = "x_free" => proc'.threads = {}
               /\ th'[u].pc # "load"
    BY <1>3, <1>10, <2>0, <2>4 DEF MainPcs
  <2>5. ASSUME NEW u \in Structs, u # t
        PROVE  /\ th'[u].pc \in MainPcs => proc'.state = "death" /\ proc'.main = u
               /\ th'[u].pc = "x_free" => proc'.threads = {}
               /\ th'[u].pc = "load" /\ th'[u].proc = "user" =>
                     proc'.main = u /\ proc'.state = "birth"
    <3>1. /\ th[u].pc \in MainPcs => proc.state = "death" /\ proc.main = u
          /\ th[u].pc = "x_free" => proc.threads = {}
          /\ th[u].pc = "load" /\ th[u].proc = "user" => proc.main = u /\ proc.state = "birth"
      BY <1>9 DEF ProcInv
    <3> QED BY <1>2, <1>10, <2>0, <2>5, <3>1
  <2> QED BY <1>10, <2>1, <2>2, <2>3, <2>4, <2>5 DEF ProcInv
<1> QED BY <1>7, <1>11, <1>12 DEF ThreadInductive, SharedInv

(* The main thread enters user mode, or gives up.                          *)
LEMMA LoadKeeps ==
    ASSUME ThreadInductive, NEW c \in Cpus, proc_create_proc2(c)
    PROVE  ThreadInductive'
<1> DEFINE t == cur[c]
           r == [th[t] EXCEPT !.pc = "user"]
<1>1. /\ t # None /\ t \in Structs /\ t # Kernel /\ t \in All /\ th[t].pc = "load"
      /\ th[t].state = "RUNNING" /\ th[t].wait = "no" /\ th[t] \in ThreadRec
      /\ Shape(t, th[t]) /\ th \in [All -> ThreadRec]
  BY ExitFacts DEF proc_create_proc2
<1>2. Structs \subseteq All
  BY DEF All
<1>3. CASE proc' = [proc EXCEPT !.state = "normal"] /\ Goes(c, r)
  <2>1. plock' = plock /\ sems' = sems /\ next_id' = next_id /\ UNCHANGED deathVars
    BY DEF proc_create_proc2
  <2>2. SameRec(th[t], r) /\ r.pc = "user" /\ r.next = th[t].next /\ r.wait = "no"
        /\ r.sig = th[t].sig /\ r \in ThreadRec
    BY <1>1 DEF SameRec, ThreadRec, Pcs, UserPcs, PlainPcs
  <2> HIDE DEF r
  <2>3. DoomedThread(th[t]) => DoomedThread(r)
    BY <1>1, <2>2 DEF DoomedThread
  <2>4. r.next \in {"SUSPENDED", "READY", "WAITING"}
    BY <1>1, <2>2 DEF Shape, StateShape
  <2>5. Shape(t, r) /\ Waits(r) /\ r.state = th[t].state
    <3>1. Shape(t, r)
      BY <1>1, <2>2, <2>3, <2>4, PlainMove DEF PlainPcs
    <3> QED BY <2>2, <3>1 DEF Waits, SameRec
  <2>6. ShapeInv' /\ SchedInv'
    BY <1>1, <1>3, <2>2, <2>5, OneGoes
  <2>7. th' = [th EXCEPT ![t] = r]
    BY <1>3 DEF Goes
  <2>8. ProcInv /\ ProcType /\ t \in proc.threads /\ proc.main = t /\ proc.state = "birth"
        /\ th[t].proc = "user"
    <3>1. th[t].proc = "user"
      BY <1>1 DEF Shape, ProcShape, UserPcs
    <3> QED BY <1>1, <3>1 DEF ThreadInductive, SharedInv, ProcInv
  <2>9. /\ ProcType' /\ proc'.threads = proc.threads /\ proc'.main = proc.main
        /\ proc'.alloc = proc.alloc /\ proc'.hashed = proc.hashed /\ proc'.state = "normal"
    BY <1>3, <2>8 DEF ProcType
  <2>10. CreateInv' /\ StackInv' /\ IdInv' /\ KillInv'
    <3>1. CreateRec(th[t], r)
      BY <1>1, <2>2 DEF CreateRec, SameRec
    <3>2. StackRec(th[t], r)
      BY <1>1, <2>2 DEF StackRec, SameRec
    <3>3. IdRec(th[t], r)
      BY <1>1, <2>2 DEF IdRec, LatePcs, SameRec
    <3>4. KillRec(th[t], r)
      BY <1>1, <2>2 DEF KillRec
    <3>5. Empty => Empty'
      BY <2>8 DEF Empty
    <3> QED BY <1>1, <2>1, <2>3, <2>7, <2>9, <3>1, <3>2, <3>3, <3>4, <3>5, OneFrames
  <2>11. ProcInv'
    <3>0. th'[t] = r /\ \A u \in All : u # t => th'[u] = th[u]
      BY <1>1, <2>7
    <3>1. \A u \in Structs : th'[u].proc = "user" <=> u \in proc'.threads
      BY <1>2, <2>2, <2>8, <2>9, <3>0 DEF ProcInv, SameRec
    <3>2. ASSUME NEW u \in Structs
          PROVE  /\ th'[u].pc \notin MainPcs /\ th'[u].pc # "x_free"
                 /\ ~(th'[u].pc = "load" /\ th'[u].proc = "user")
      <4>1. CASE u = t
        BY <2>2, <3>0, <4>1 DEF MainPcs
      <4>2. CASE u # t
        BY <1>2, <2>8, <3>0, <4>2 DEF ProcInv, MainPcs
      <4> QED BY <4>1, <4>2
    <3>3. proc.alloc /\ proc.hashed
      BY <2>8 DEF ProcInv
    <3> QED BY <2>8, <2>9, <3>1, <3>2, <3>3 DEF ProcInv
  <2> QED BY <2>6, <2>10, <2>11 DEF ThreadInductive, SharedInv
<1>4. CASE Goes(c, [th[t] EXCEPT !.pc = "x_move"]) /\ UNCHANGED proc
  <2>1. UNCHANGED SharedVars
    BY <1>4 DEF proc_create_proc2, SharedVars, procVars
  <2> QED BY <1>1, <1>4, <2>1, ExitBegins
<1> QED BY <1>3, <1>4 DEF proc_create_proc2

(* proc_create_proc makes the process.                                     *)
LEMMA ProcCreateKeeps ==
    ASSUME ThreadInductive, NEW c \in Cpus, proc_create_proc(c)
    PROVE  ThreadInductive'
<1> DEFINE t == cur[c]
           r == [th[Kernel] EXCEPT !.pc = "p_create"]
<1>1. /\ t # None /\ t = Kernel /\ t \in All /\ th[t].pc = "kern"
      /\ th[t].state = "RUNNING" /\ th[t].wait = "no" /\ th[t] \in ThreadRec
      /\ Shape(t, th[t]) /\ th \in [All -> ThreadRec]
  BY OnFacts DEF proc_create_proc, On
<1>2. Structs \subseteq All /\ t \notin Structs
  BY <1>1, ThreadAssumption DEF All
<1>3. /\ r \in ThreadRec /\ r.pc = "p_create" /\ r.todo = th[t].todo
      /\ r.state = th[t].state /\ r.next = th[t].next /\ r.obj = th[t].obj
      /\ r.hashed = th[t].hashed /\ r.stack = th[t].stack /\ r.wait = th[t].wait
      /\ r.proc = th[t].proc /\ r.id = th[t].id /\ r.sig = th[t].sig
  BY <1>1 DEF ThreadRec, Pcs, KernelPcs
<1>4. /\ Goes(c, r) /\ plock' = plock /\ sems' = sems /\ ~proc.alloc
      /\ next_id' = next_id /\ UNCHANGED deathVars
      /\ proc' = [NoProc EXCEPT !.alloc = TRUE, !.hashed = TRUE, !.state = "birth"]
  BY DEF proc_create_proc
<1> HIDE DEF r
<1>5. Shape(t, r) /\ Waits(r)
  <2>1. StateShape(r) /\ HandShape(r)
    BY <1>1, <1>3 DEF Shape, StateShape, HandShape
  <2> QED BY <1>1, <1>3, <2>1 DEF Shape, Waits, KernelPcs
<1>6. ShapeInv' /\ SchedInv'
  BY <1>1, <1>3, <1>4, <1>5, OneGoes
<1>7. th' = [th EXCEPT ![t] = r] /\ th'[t] = r /\ \A u \in All : u # t => th'[u] = th[u]
  BY <1>1, <1>4 DEF Goes
<1>8. ProcInv /\ proc.state = "none" /\ proc.threads = {}
  BY <1>4 DEF ThreadInductive, SharedInv, ProcInv
<1>9. /\ proc'.threads = {} /\ proc'.state = "birth" /\ proc'.alloc /\ proc'.hashed
      /\ proc'.main = None /\ ProcType'
  BY <1>4 DEF NoProc, ProcType
<1>10. StackInv' /\ IdInv' /\ KillInv'
  <2>1. StackRec(th[t], r)
    BY <1>1, <1>3 DEF StackRec
  <2>2. IdRec(th[t], r)
    BY <1>1, <1>3 DEF IdRec, LatePcs
  <2>3. KillRec(th[t], r)
    BY <1>1, <1>3 DEF KillRec
  <2>4. DoomedThread(th[t]) => DoomedThread(r)
    BY <1>1, <1>3 DEF DoomedThread
  <2> QED BY <1>1, <1>4, <1>7, <1>8, <1>9, <2>1, <2>2, <2>3, <2>4, OneFrames
<1>11. ProcInv'
  <2>1. \A u \in Structs : th'[u] = th[u]
    BY <1>2, <1>7
  <2>2. \A u \in Structs : th[u].proc # "user" /\ th[u].pc \notin MainPcs /\ th[u].pc # "x_free"
    BY <1>8 DEF ProcInv, MainPcs
  <2> QED BY <1>9, <2>1, <2>2 DEF ProcInv
<1>12. CreateInv'
  <2>1. Empty'
    BY <1>9 DEF Empty
  <2>2. CreateInv
    BY DEF ThreadInductive, SharedInv
  <2>3. th[t].obj = None
    BY <1>1 DEF Shape, HandShape
  <2>4. ASSUME NEW u \in All, NEW s \in Structs, th'[u].obj = s
        PROVE  /\ th'[s].state = "BIRTH"
               /\ th'[s].proc = IF th'[u].pc = "c_insert" THEN "none" ELSE "user"
               /\ th'[s].pc = "load" => u = Kernel /\ th'[u].pc # "c_insert"
    <3>1. u # t
      BY <1>3, <1>7, <2>3, <2>4, ThreadAssumption
    <3>2. th'[u] = th[u] /\ th'[s] = th[s]
      BY <1>2, <1>7, <3>1
    <3> QED BY <1>1, <2>2, <2>4, <3>1, <3>2 DEF CreateInv
  <2>5. \A u, v \in All : th'[u].obj = th'[v].obj /\ th'[u].obj # None => u = v
    BY <1>3, <1>7, <2>2, <2>3 DEF CreateInv
  <2> QED BY <2>1, <2>4, <2>5 DEF CreateInv
<1> QED BY <1>6, <1>10, <1>11, <1>12 DEF ThreadInductive, SharedInv

(* thread_exit2 takes the thread out of its list and the table.            *)
LEMMA ExitUnlistKeeps ==
    ASSUME ThreadInductive, NEW c \in Cpus, ExitUnlist(c)
    PROVE  ThreadInductive'
<1> DEFINE t == cur[c]
           r == [th[t] EXCEPT !.hashed = FALSE, !.next = "FREE", !.proc = "none", !.pc = "x_put"]
<1>1. /\ t # None /\ t \in Structs /\ t # Kernel /\ t \in All /\ th[t].pc = "x_unlist"
      /\ th[t].state = "RUNNING" /\ th[t].wait = "no" /\ th[t] \in ThreadRec
      /\ Shape(t, th[t]) /\ th \in [All -> ThreadRec]
  BY ExitFacts DEF ExitUnlist, LatePcs
<1>2. /\ r \in ThreadRec /\ r.pc = "x_put" /\ r.todo = th[t].todo
      /\ r.state = th[t].state /\ r.next = "FREE" /\ r.obj = th[t].obj
      /\ ~r.hashed /\ r.stack = th[t].stack /\ r.wait = th[t].wait
      /\ r.proc = "none" /\ r.id = th[t].id
  BY <1>1 DEF ThreadRec, Pcs, States
<1>3. Goes(c, r) /\ UNCHANGED SharedVars
  BY DEF ExitUnlist, SharedVars
<1> HIDE DEF r
<1>4. th[t].proc = "kernel" /\ th[t].todo = {} /\ th[t].stack # 0 /\ th[t].obj = None
  BY <1>1 DEF Shape, ProcShape, HandShape, LatePcs
<1>5. Shape(t, r) /\ Waits(r)
  <2>1. StateShape(r) /\ HandShape(r)
    BY <1>1, <1>2, <1>4 DEF StateShape, HandShape
  <2>2. ProcShape(r)
    BY <1>2 DEF ProcShape, UserPcs, PlainPcs, MainPcs, LatePcs
  <2> QED BY <1>1, <1>2, <2>1, <2>2 DEF Shape, Waits
<1>6. ShapeInv' /\ SchedInv'
  BY <1>1, <1>2, <1>3, <1>5, OneGoes
<1>7. SharedInv'
  <2>1. th' = [th EXCEPT ![t] = r]
    BY <1>3 DEF Goes
  <2>2. ProcRec(th[t], r) /\ CreateRec(th[t], r) /\ KillRec(th[t], r)
    BY <1>1, <1>2, <1>4 DEF ProcRec, CreateRec, KillRec, MainPcs
  <2>3. StackRec(th[t], r) /\ IdRec(th[t], r)
    BY <1>1, <1>2 DEF StackRec, IdRec, LatePcs
  <2>4. t \notin proc.threads
    BY <1>1, <1>4 DEF ThreadInductive, SharedInv, ProcInv
  <2>5. Empty => Empty'
    BY <1>3 DEF Empty, SharedVars, procVars
  <2> QED BY <1>1, <1>3, <2>1, <2>2, <2>3, <2>4, <2>5, OneFrames
          DEF SharedVars, procVars, SharedInv
<1> QED BY <1>6, <1>7 DEF ThreadInductive

(* get_death_stack takes a free stack out of the bitmap.                   *)
LEMMA ExitBitKeeps ==
    ASSUME ThreadInductive, NEW c \in Cpus, ExitBit(c)
    PROVE  ThreadInductive'
<1> DEFINE t == cur[c]
<1>1. /\ t # None /\ t \in Structs /\ t # Kernel /\ t \in All /\ th[t].pc = "x_bit"
      /\ th[t].state = "RUNNING" /\ th[t].wait = "no" /\ th[t] \in ThreadRec
      /\ Shape(t, th[t]) /\ th \in [All -> ThreadRec]
  BY ExitFacts DEF ExitBit, LatePcs
<1>2. PICK i \in Stacks \ bitmap :
         /\ bitmap' = bitmap \cup {i}
         /\ Goes(c, [th[t] EXCEPT !.stack = i, !.pc = "x_unlist"])
  BY DEF ExitBit, FreeStack
<1> DEFINE r == [th[t] EXCEPT !.stack = i, !.pc = "x_unlist"]
<1>3. /\ r \in ThreadRec /\ r.pc = "x_unlist" /\ r.todo = th[t].todo
      /\ r.state = th[t].state /\ r.next = th[t].next /\ r.obj = th[t].obj
      /\ r.hashed = th[t].hashed /\ r.stack = i /\ r.wait = th[t].wait
      /\ r.proc = th[t].proc /\ r.id = th[t].id /\ r.sig = th[t].sig
  BY <1>1 DEF ThreadRec, Pcs, LatePcs
<1>4. /\ Goes(c, r) /\ UNCHANGED <<free, jam, next_id, sems, procVars>>
  BY <1>2 DEF ExitBit
<1> HIDE DEF r
<1>5. th[t].proc = "kernel" /\ th[t].todo = {} /\ i # 0 /\ th[t].hashed /\ th[t].obj = None
  <2>1. i # 0
    BY <1>2 DEF Stacks
  <2> QED BY <1>1, <2>1 DEF Shape, ProcShape, HandShape, LatePcs
<1>6. Shape(t, r) /\ Waits(r)
  <2>1. StateShape(r) /\ HandShape(r)
    BY <1>1, <1>3, <1>5 DEF Shape, StateShape, HandShape
  <2>2. ProcShape(r)
    BY <1>3, <1>5 DEF ProcShape, UserPcs, PlainPcs, MainPcs, LatePcs
  <2> QED BY <1>1, <1>3, <2>1, <2>2 DEF Shape, Waits
<1>7. ShapeInv' /\ SchedInv'
  BY <1>1, <1>3, <1>4, <1>6, OneGoes
<1>8. th' = [th EXCEPT ![t] = r] /\ th'[t] = r /\ \A u \in All : u # t => th'[u] = th[u]
  BY <1>1, <1>4 DEF Goes
<1>9. ProcInv' /\ CreateInv' /\ KillInv' /\ IdInv'
  <2>1. ProcRec(th[t], r) /\ CreateRec(th[t], r) /\ KillRec(th[t], r)
    BY <1>1, <1>3, <1>5 DEF ProcRec, CreateRec, KillRec, MainPcs
  <2>2. IdRec(th[t], r)
    BY <1>1, <1>3 DEF IdRec, LatePcs
  <2>3. t \notin proc.threads
    BY <1>1, <1>5 DEF ThreadInductive, SharedInv, ProcInv
  <2>4. Empty => Empty'
    BY <1>4 DEF Empty, procVars
  <2> QED BY <1>1, <1>4, <1>8, <2>1, <2>2, <2>3, <2>4, OneFrames DEF procVars
<1>10. StackInv'
  <2>0. StackInv /\ Structs \subseteq All
    BY DEF ThreadInductive, SharedInv, All
  <2>1. ASSUME NEW u \in Structs
        PROVE  /\ OnStack(u)' <=> OnStack(u) \/ u = t
               /\ u # t => th'[u].stack = th[u].stack
    BY <1>1, <1>3, <1>8, <2>0 DEF OnStack
  <2>2. ~OnStack(t) /\ th'[t].stack = i
    BY <1>1, <1>3, <1>8 DEF OnStack
  <2>3. \A u \in Structs : OnStack(u) => th[u].stack \in bitmap
    <3>1. \A u \in Structs : OnStack(u) => th[u].stack \in Stacks
      BY <1>1, <2>0 DEF OnStack, ThreadInductive, ShapeInv, Shape, HandShape, ThreadRec
    <3> QED BY <2>0, <3>1 DEF StackInv
  <2>4. \A u, v \in Structs : OnStack(u)' /\ OnStack(v)' /\ th'[u].stack = th'[v].stack => u = v
    BY <1>2, <2>0, <2>1, <2>2, <2>3 DEF StackInv
  <2>5. \A j \in Stacks : j \in bitmap' <=> \E u \in Structs : OnStack(u)' /\ th'[u].stack = j
    <3>1. ASSUME NEW j \in Stacks, j \in bitmap'
          PROVE  \E u \in Structs : OnStack(u)' /\ th'[u].stack = j
      <4>1. CASE j = i
        BY <1>1, <2>1, <2>2, <4>1
      <4>2. CASE j # i
        BY <1>2, <2>0, <2>1, <2>2, <3>1, <4>2 DEF StackInv
      <4> QED BY <4>1, <4>2
    <3>2. ASSUME NEW j \in Stacks, NEW u \in Structs, OnStack(u)', th'[u].stack = j
          PROVE  j \in bitmap'
      BY <1>2, <2>1, <2>2, <2>3, <3>2
    <3> QED BY <3>1, <3>2
  <2>6. Bits' = Bits \ {t} /\ t \in Bits
    BY <1>1, <1>3, <1>8, <2>0 DEF Bits
  <2>7. IsFiniteSet(Bits) /\ IsFiniteSet(bitmap)
    <3>1. IsFiniteSet(Bits)
      BY ThreadAssumption, FS_Subset DEF Bits
    <3>2. IsFiniteSet(Stacks)
      BY ThreadAssumption, FS_CardinalityType, FS_Interval DEF Stacks
    <3> QED BY <2>0, <3>1, <3>2, FS_Subset DEF StackInv
  <2>8. Cardinality(Bits') = Cardinality(Bits) - 1 /\ Cardinality(bitmap') = Cardinality(bitmap) + 1
    BY <1>2, <2>6, <2>7, FS_AddElement, FS_RemoveElement
  <2>9. Cardinality(Bits) \in Nat /\ Cardinality(bitmap) \in Nat /\ free' = free /\ jam' = jam
    BY <1>4, <2>7, FS_CardinalityType
  <2>10. free' + Cardinality(bitmap') + Cardinality(Bits') = Cardinality(Stacks)
    BY <2>0, <2>8, <2>9 DEF StackInv
  <2>11. bitmap' \subseteq Stacks /\ free' \in Nat /\ jam' \in BOOLEAN
    BY <1>2, <2>0, <2>9 DEF StackInv
  <2> QED BY <2>4, <2>5, <2>10, <2>11 DEF StackInv
<1> QED BY <1>7, <1>9, <1>10 DEF ThreadInductive, SharedInv

(* A thread that is woken is as before for what is shared; so is one that  *)
(* gets a signal.                                                          *)
LEMMA WokenRest ==
    ASSUME NEW u, NEW r, NEW s, Shape(u, r), WokenRec(r, s), r.state \in {"SUSPENDED", "WAITING"}
    PROVE  /\ ProcRec(r, s) /\ CreateRec(r, s) /\ KillRec(r, s) /\ IdRec(r, s)
           /\ r.wait # "death" => StackRec(r, s)
           /\ DoomedThread(r) => DoomedThread(s)
<1>1. ProcRec(r, s) /\ CreateRec(r, s) /\ KillRec(r, s) /\ IdRec(r, s)
  BY DEF WokenRec, ProcRec, CreateRec, KillRec, IdRec
<1>2. r.wait # "death" => StackRec(r, s)
  BY DEF WokenRec, StackRec, Shape, HandShape
<1>3. DoomedThread(r) => DoomedThread(s)
  BY DEF WokenRec, DoomedThread
<1> QED BY <1>1, <1>2, <1>3

(* A signal leaves all that is shared except the stacks.                   *)
LEMMA SignalledRest ==
    ASSUME NEW r, NEW s, SignalledRec(r, s)
    PROVE  /\ ProcRec(r, s) /\ CreateRec(r, s) /\ KillRec(r, s) /\ IdRec(r, s)
           /\ StackRec(r, s)
           /\ DoomedThread(r) => DoomedThread(s)
<1>1. ProcRec(r, s) /\ CreateRec(r, s) /\ KillRec(r, s) /\ IdRec(r, s)
  BY DEF SignalledRec, SameRec, ProcRec, CreateRec, KillRec, IdRec
<1>2. StackRec(r, s)
  BY DEF SignalledRec, SameRec, StackRec
<1>3. DoomedThread(r) => DoomedThread(s)
  BY DEF SignalledRec, SameRec, DoomedThread
<1> QED BY <1>1, <1>2, <1>3

(* What thread_resched does to a thread is nothing to what is shared.      *)
LEMMA KeptRest ==
    ASSUME NEW r, NEW m, NEW s, StateShape(m), Kept(m, s), s.state = "BIRTH" <=> m.state = "BIRTH"
    PROVE  /\ ProcRec(r, m) => ProcRec(r, s)
           /\ CreateRec(r, m) => CreateRec(r, s)
           /\ KillRec(r, m) => KillRec(r, s)
           /\ IdRec(r, m) => IdRec(r, s)
           /\ (s.state = "FREE" <=> m.state = "FREE") /\ StackRec(r, m) => StackRec(r, s)
           /\ DoomedThread(m) => DoomedThread(s)
<1>1. /\ s.id = m.id /\ s.proc = m.proc /\ s.sig = m.sig /\ s.wait = m.wait /\ s.obj = m.obj
      /\ s.todo = m.todo /\ s.stack = m.stack
      /\ s.pc = m.pc \/ (m.pc = "out" /\ s.pc = "user")
      /\ m.state = "BIRTH" => s.pc = m.pc
  BY DEF Kept, StateShape
<1>2. ProcRec(r, m) => ProcRec(r, s)
  BY <1>1 DEF ProcRec, MainPcs
<1>3. CreateRec(r, m) => CreateRec(r, s)
  BY <1>1 DEF CreateRec
<1>4. KillRec(r, m) => KillRec(r, s)
  BY <1>1 DEF KillRec
<1>5. IdRec(r, m) => IdRec(r, s)
  BY <1>1 DEF IdRec, LatePcs
<1>6. (s.state = "FREE" <=> m.state = "FREE") /\ StackRec(r, m) => StackRec(r, s)
  BY <1>1 DEF StackRec
<1>7. DoomedThread(m) => DoomedThread(s)
  BY <1>1 DEF DoomedThread
<1> QED BY <1>2, <1>3, <1>4, <1>5, <1>6, <1>7

(* Who is born or dead after thread_resched.                               *)
LEMMA SwitchedStates ==
    ASSUME NEW c \in Cpus, NEW f \in [All -> ThreadRec], NEW q, RunOK(f),
           \A v \in All : StateShape(f[v]), NEW n \in All \cup {None}, Switched(c, f, q, n),
           NEW u \in All
    PROVE  /\ Kept(f[u], th'[u])
           /\ th'[u].state = "BIRTH" <=> f[u].state = "BIRTH"
           /\ th'[u].state = "FREE" <=> f[u].state = "FREE" \/ (u = cur[c] /\ f[u].next = "FREE")
<1>0. None \notin All
  BY ThreadAssumption DEF All
<1>1. Kept(f[u], th'[u])
  BY DEF Switched
<1>2. CASE u = n
  <2>1. /\ f[u].state \in {"RUNNING", "READY"} /\ th'[u].state = "RUNNING"
        /\ u = cur[c] => f[u].next # "FREE"
    BY <1>0, <1>2 DEF Switched, RunOK
  <2> QED BY <1>1, <2>1
<1>3. CASE u # n /\ u = cur[c]
  <2>1. f[u].state = "RUNNING" /\ th'[u].state = f[u].next
    BY <1>0, <1>3 DEF Switched, RunOK
  <2> QED BY <1>1, <1>3, <2>1 DEF StateShape
<1>4. CASE u # n /\ u # cur[c]
  BY <1>1, <1>4 DEF Switched
<1> QED BY <1>2, <1>3, <1>4

(* thread_resched in a step of creation or exit; what is shared is as      *)
(* before, but for the death stacks of one that dies.                      *)
LEMMA ReschedKeeps ==
    ASSUME NEW c \in Cpus, NEW f \in [All -> ThreadRec], NEW q, RunOK(f), QueueOK(f, q), DeadOK(f),
           Resched(c, f, q), \A u \in All : Shape(u, f[u]),
           \A u \in All : Waits(f[u]) \/ (u = cur[c] /\ f[u].next = "WAITING"),
           ProcInv /\ CreateInv /\ KillInv /\ IdInv, UNCHANGED <<next_id, sems, procVars>>,
           \A u \in All : /\ ProcRec(th[u], f[u]) /\ CreateRec(th[u], f[u])
                          /\ KillRec(th[u], f[u]) /\ IdRec(th[u], f[u])
                          /\ DoomedThread(th[u]) => DoomedThread(f[u])
    PROVE  /\ ShapeInv' /\ SchedInv' /\ ProcInv' /\ CreateInv' /\ KillInv' /\ IdInv'
           /\ \A u \in All :
                 /\ Kept(f[u], th'[u])
                 /\ th'[u].state = "FREE" <=>
                       f[u].state = "FREE" \/ (u = cur[c] /\ f[u].next = "FREE")
<1>0. Structs \subseteq All /\ Kernel \in All
  BY DEF All
<1>1. PICK n \in All \cup {None} : Switched(c, f, q, n)
  BY ReschedSwitches
<1>2. (\A u \in All : StateShape(f[u])) /\ f[Kernel].next # "FREE"
  BY <1>0 DEF Shape, StateShape, KernelPcs
<1>3. SchedInv'
  BY <1>1, <1>2, ReschedSched
<1>4. ShapeInv'
  BY <1>1, ReschedShape
<1>5. \A u \in All :
         /\ Kept(f[u], th'[u])
         /\ th'[u].state = "BIRTH" <=> f[u].state = "BIRTH"
         /\ th'[u].state = "FREE" <=> f[u].state = "FREE" \/ (u = cur[c] /\ f[u].next = "FREE")
  BY <1>1, <1>2, SwitchedStates
<1>6. \A u \in All : /\ ProcRec(th[u], th'[u]) /\ CreateRec(th[u], th'[u])
                     /\ KillRec(th[u], th'[u]) /\ IdRec(th[u], th'[u])
                     /\ DoomedThread(th[u]) => DoomedThread(th'[u])
  BY <1>2, <1>5, KeptRest
<1>7. ProcInv'
  BY <1>0, <1>6, ProcFrame DEF procVars
<1>8. CreateInv'
  BY <1>6, CreateFrame DEF procVars, Empty
<1>9. KillInv'
  <2>1. proc' = proc /\ plock' = plock /\ proc.threads \subseteq All
    BY <1>0 DEF procVars, ProcInv, ProcType
  <2>2. \A u \in proc'.threads : DoomedThread(th[u]) => DoomedThread(th'[u])
    BY <1>6, <2>1
  <2> QED BY <1>6, <2>1, <2>2, KillFrame
<1>10. IdInv'
  BY <1>6, IdFrame
<1> QED BY <1>3, <1>4, <1>5, <1>7, <1>8, <1>9, <1>10

(* Those in the local queue are linked, all at once, and the thread lets   *)
(* them run.                                                               *)
LEMMA ExitWakeKeeps ==
    ASSUME ThreadInductive, NEW c \in Cpus, ExitWake(c)
    PROVE  ThreadInductive'
<1> DEFINE t == cur[c]
           r == [th[t] EXCEPT !.todo = {}, !.pc = "x_stack"]
           f == [th EXCEPT ![t] = r]
           q == Enqueue(runq, th[t].todo)
<1>1. /\ t # None /\ t \in Structs /\ t # Kernel /\ t \in All /\ th[t].pc = "x_wake"
      /\ th[t].state = "RUNNING" /\ th[t].wait = "no" /\ th[t] \in ThreadRec
      /\ Shape(t, th[t]) /\ th \in [All -> ThreadRec]
  BY ExitFacts DEF ExitWake, LatePcs
<1>2. /\ r \in ThreadRec /\ r.pc = "x_stack" /\ r.todo = {}
      /\ r.state = th[t].state /\ r.next = th[t].next /\ r.obj = th[t].obj
      /\ r.hashed = th[t].hashed /\ r.stack = th[t].stack /\ r.wait = th[t].wait
      /\ r.proc = th[t].proc /\ r.id = th[t].id /\ r.sig = th[t].sig
  BY <1>1 DEF ThreadRec, Pcs, LatePcs
<1>3. Resched(c, f, q) /\ UNCHANGED SharedVars
  <2> DEFINE g == [th EXCEPT ![t].todo = {}, ![t].pc = "x_stack"]
  <2>1. g = f
    BY <1>1
  <2>2. Resched(c, g, q) /\ UNCHANGED SharedVars
    BY DEF ExitWake, SharedVars
  <2> HIDE DEF f, g
  <2> QED BY <2>1, <2>2
<1>4. th[t].proc = "kernel"
  BY <1>1 DEF Shape, ProcShape, LatePcs
<1> HIDE DEF r
<1>5. Shape(t, r) /\ Waits(r)
  BY <1>1, <1>2, <1>4, ExitShape
<1>6. f \in [All -> ThreadRec] /\ f[t] = r /\ \A u \in All : u # t => f[u] = th[u]
  BY <1>1, <1>2
<1> HIDE DEF f
<1>7. th[t].todo \in SUBSET All /\ \A u \in th[t].todo : Hand(th, t, u)
  BY <1>1 DEF ThreadRec, Hand
<1>8. SchedInv /\ runq \in [All -> {0, 1}] /\ \A u \in th[t].todo : runq[u] = 0
  BY <1>1, <1>7 DEF ThreadInductive, SchedInv, QueueOK
<1>9. q \in [All -> {0, 1}] /\ \A u \in All : q[u] = IF u \in th[t].todo THEN 1 ELSE runq[u]
  BY <1>7, <1>8, EnqueueFacts
<1> HIDE DEF q
<1>10. \A u, v \in All : Hand(f, u, v) <=> u # t /\ Hand(th, u, v)
  BY <1>1, <1>2, <1>6 DEF Hand
<1>11. \A u \in All : f[u].state = th[u].state
  BY <1>2, <1>6
<1>12. RunOK(f) /\ DeadOK(f)
  BY <1>8, <1>11, ThreadAssumption DEF SchedInv, RunOK, DeadOK, All
<1>13. QueueOK(f, q)
  <2>1. ASSUME NEW u \in All
        PROVE  /\ f[u].state = "READY" <=> q[u] = 1 \/ \E v \in All : Hand(f, v, u)
               /\ \A v \in All : Hand(f, v, u) => q[u] = 0
    <3>1. /\ th[u].state = "READY" <=> runq[u] = 1 \/ \E v \in All : Hand(th, v, u)
          /\ \A v \in All : Hand(th, v, u) => runq[u] = 0
          /\ \A v, w \in All : Hand(th, v, u) /\ Hand(th, w, u) => v = w
      BY <1>8 DEF SchedInv, QueueOK
    <3>2. CASE u \in th[t].todo
      BY <1>1, <1>7, <1>9, <1>10, <1>11, <3>1, <3>2
    <3>3. CASE u \notin th[t].todo
      <4>1. ~Hand(th, t, u)
        BY <3>3 DEF Hand
      <4> QED BY <1>9, <1>10, <1>11, <3>1, <3>3, <4>1
    <3> QED BY <3>2, <3>3
  <2>2. \A v, u, w \in All : Hand(f, u, v) /\ Hand(f, w, v) => u = w
    BY <1>8, <1>10 DEF SchedInv, QueueOK
  <2> QED BY <1>9, <2>1, <2>2 DEF QueueOK
<1>14. \A u \in All : Shape(u, f[u]) /\ Waits(f[u])
  BY <1>5, <1>6 DEF ThreadInductive, ShapeInv
<1>15. ASSUME NEW u \in All
       PROVE  /\ ProcRec(th[u], f[u]) /\ CreateRec(th[u], f[u]) /\ KillRec(th[u], f[u])
              /\ IdRec(th[u], f[u]) /\ StackRec(th[u], f[u])
              /\ DoomedThread(th[u]) => DoomedThread(f[u])
  <2>1. CASE u = t
    BY <1>1, <1>2, <1>6, <2>1
       DEF ProcRec, CreateRec, KillRec, IdRec, StackRec, DoomedThread, MainPcs, LatePcs
  <2>2. CASE u # t
    BY <1>6, <2>2, Rest
  <2> QED BY <2>1, <2>2
<1>16. ProcInv /\ CreateInv /\ KillInv /\ IdInv /\ StackInv /\ Structs \subseteq All
  BY DEF ThreadInductive, SharedInv, All
<1>17. UNCHANGED <<next_id, sems, procVars>> /\ UNCHANGED deathVars
  BY <1>3 DEF SharedVars
<1>18. /\ ShapeInv' /\ SchedInv' /\ ProcInv' /\ CreateInv' /\ KillInv' /\ IdInv'
       /\ \A u \in All :
             /\ Kept(f[u], th'[u])
             /\ th'[u].state = "FREE" <=>
                   f[u].state = "FREE" \/ (u = cur[c] /\ f[u].next = "FREE")
  BY <1>3, <1>6, <1>12, <1>13, <1>14, <1>15, <1>16, <1>17, ReschedKeeps
<1>19. StackInv'
  <2>1. r.next # "FREE"
    BY <1>2, <1>5 DEF Shape, StateShape
  <2>2. ASSUME NEW u \in Structs
        PROVE  StackRec(th[u], th'[u])
    <3>1. th'[u].state = "FREE" <=> f[u].state = "FREE"
      BY <1>6, <1>16, <1>18, <2>1
    <3>2. Kept(f[u], th'[u]) /\ StackRec(th[u], f[u])
      BY <1>15, <1>16, <1>18
    <3> QED BY <3>1, <3>2 DEF Kept, StackRec
  <2> QED BY <1>16, <1>17, <2>2, StackFrame
<1> QED BY <1>18, <1>19 DEF ThreadInductive, SharedInv

(* get_death_stack takes a unit or waits for one.                          *)
LEMMA ExitStackKeeps ==
    ASSUME ThreadInductive, NEW c \in Cpus, ExitStack(c)
    PROVE  ThreadInductive'
<1> DEFINE t == cur[c]
           r == [th[t] EXCEPT !.pc = "x_bit"]
           w == [r EXCEPT !.wait = "death"]
           s == [w EXCEPT !.next = "WAITING"]
<1>1. /\ t # None /\ t \in Structs /\ t # Kernel /\ t \in All /\ th[t].pc = "x_stack"
      /\ th[t].state = "RUNNING" /\ th[t].wait = "no" /\ th[t] \in ThreadRec
      /\ Shape(t, th[t]) /\ th \in [All -> ThreadRec]
  BY ExitFacts DEF ExitStack, LatePcs
<1>2. /\ r \in ThreadRec /\ r.pc = "x_bit" /\ r.todo = th[t].todo
      /\ r.state = th[t].state /\ r.next = th[t].next /\ r.obj = th[t].obj
      /\ r.hashed = th[t].hashed /\ r.stack = th[t].stack /\ r.wait = th[t].wait
      /\ r.proc = th[t].proc /\ r.id = th[t].id /\ r.sig = th[t].sig
  BY <1>1 DEF ThreadRec, Pcs, LatePcs
<1>3. UNCHANGED <<next_id, sems, procVars>> /\ bitmap' = bitmap /\ jam' = jam
      /\ ((free > 0 /\ free' = free - 1 /\ Goes(c, r)) \/ (Block(c, w) /\ free' = free))
  BY DEF ExitStack
<1>4. th[t].proc = "kernel" /\ th[t].todo = {} /\ th[t].obj = None /\ th[t].hashed
  BY <1>1 DEF Shape, ProcShape, HandShape, LatePcs
<1>5. t \notin proc.threads /\ Structs \subseteq All
  BY <1>1, <1>4 DEF All, ThreadInductive, SharedInv, ProcInv
<1>6. CASE free > 0 /\ free' = free - 1 /\ Goes(c, r)
  <2> HIDE DEF r
  <2>1. Shape(t, r) /\ Waits(r)
    BY <1>1, <1>2, <1>4, ExitShape
  <2>2. ShapeInv' /\ SchedInv'
    BY <1>1, <1>2, <1>6, <2>1, OneGoes
  <2>3. th' = [th EXCEPT ![t] = r] /\ th'[t] = r /\ \A u \in All : u # t => th'[u] = th[u]
    BY <1>1, <1>6 DEF Goes
  <2>4. ProcInv' /\ CreateInv' /\ KillInv' /\ IdInv'
    <3>1. ProcRec(th[t], r) /\ CreateRec(th[t], r) /\ KillRec(th[t], r) /\ IdRec(th[t], r)
      BY <1>1, <1>2 DEF ProcRec, CreateRec, KillRec, IdRec, MainPcs, LatePcs
    <3>2. Empty => Empty'
      BY <1>3 DEF Empty, procVars
    <3> QED BY <1>1, <1>3, <1>5, <2>3, <3>1, <3>2, OneFrames DEF procVars
  <2>5. StackInv'
    <3>0. StackInv
      BY DEF ThreadInductive, SharedInv
    <3>1. ASSUME NEW u \in Structs
          PROVE  (OnStack(u)' <=> OnStack(u)) /\ th'[u].stack = th[u].stack
      BY <1>1, <1>2, <1>5, <2>3 DEF OnStack
    <3>2. Bits' = Bits \cup {t} /\ t \notin Bits
      BY <1>1, <1>2, <1>5, <2>3 DEF Bits
    <3>3. IsFiniteSet(Bits)
      BY ThreadAssumption, FS_Subset DEF Bits
    <3>4. Cardinality(Bits') = Cardinality(Bits) + 1 /\ Cardinality(Bits) \in Nat
      BY <3>2, <3>3, FS_AddElement, FS_CardinalityType
    <3>5. IsFiniteSet(Stacks)
      BY ThreadAssumption, FS_CardinalityType, FS_Interval DEF Stacks
    <3>6. Cardinality(bitmap) \in Nat /\ free \in Nat
      BY <3>0, <3>5, FS_Subset, FS_CardinalityType DEF StackInv
    <3>7. free' + Cardinality(bitmap') + Cardinality(Bits') = Cardinality(Stacks) /\ free' \in Nat
      BY <1>3, <1>6, <3>0, <3>4, <3>6 DEF StackInv
    <3> QED BY <1>3, <3>0, <3>1, <3>7 DEF StackInv
  <2> QED BY <2>2, <2>4, <2>5 DEF ThreadInductive, SharedInv
<1>7. CASE Block(c, w) /\ free' = free
  <2> DEFINE f == [th EXCEPT ![t] = s]
  <2>1. Resched(c, f, runq)
    BY <1>7 DEF Block
  <2>2. /\ s \in ThreadRec /\ s.pc = "x_bit" /\ s.todo = th[t].todo
        /\ s.state = th[t].state /\ s.next = "WAITING" /\ s.obj = th[t].obj
        /\ s.hashed = th[t].hashed /\ s.stack = th[t].stack /\ s.wait = "death"
        /\ s.proc = th[t].proc /\ s.id = th[t].id /\ s.sig = th[t].sig
    <3> HIDE DEF r
    <3>1. w \in ThreadRec /\ "WAITING" \in States
      BY <1>2 DEF ThreadRec, States
    <3> QED BY <1>2, <3>1 DEF ThreadRec
  <2> HIDE DEF s, w, r
  <2>3. Shape(t, s)
    <3>1. StateShape(s) /\ HandShape(s)
      BY <1>1, <1>4, <2>2 DEF StateShape, HandShape
    <3>2. ProcShape(s)
      BY <1>4, <2>2 DEF ProcShape, UserPcs, PlainPcs
    <3> QED BY <1>1, <2>2, <3>1, <3>2 DEF Shape
  <2>4. f \in [All -> ThreadRec] /\ f[t] = s /\ \A u \in All : u # t => f[u] = th[u]
    BY <1>1, <2>2
  <2> HIDE DEF f
  <2>5. \A u \in All : Shape(u, f[u])
    BY <2>3, <2>4 DEF ThreadInductive, ShapeInv
  <2>6. \A u \in All : Waits(f[u]) \/ (u = cur[c] /\ f[u].next = "WAITING")
    BY <2>2, <2>4 DEF ThreadInductive, ShapeInv
  <2>7. RunOK(f) /\ QueueOK(f, runq) /\ DeadOK(f)
    <3>1. \A u, v \in All : Hand(f, u, v) <=> Hand(th, u, v)
      BY <1>1, <2>2, <2>4 DEF Hand
    <3>2. \A u \in All : f[u].state = th[u].state
      BY <2>2, <2>4
    <3> QED BY <3>1, <3>2, SchedSame DEF ThreadInductive
  <2>8. ASSUME NEW u \in All
        PROVE  /\ ProcRec(th[u], f[u]) /\ CreateRec(th[u], f[u]) /\ KillRec(th[u], f[u])
               /\ IdRec(th[u], f[u]) /\ StackRec(th[u], f[u])
               /\ DoomedThread(th[u]) => DoomedThread(f[u])
    <3>1. CASE u = t
      BY <1>1, <2>2, <2>4, <3>1
         DEF ProcRec, CreateRec, KillRec, IdRec, StackRec, DoomedThread, MainPcs, LatePcs
    <3>2. CASE u # t
      BY <2>4, <3>2, Rest
    <3> QED BY <3>1, <3>2
  <2>9. ProcInv /\ CreateInv /\ KillInv /\ IdInv /\ StackInv
    BY DEF ThreadInductive, SharedInv
  <2>10. /\ ShapeInv' /\ SchedInv' /\ ProcInv' /\ CreateInv' /\ KillInv' /\ IdInv'
         /\ \A u \in All :
               /\ Kept(f[u], th'[u])
               /\ th'[u].state = "FREE" <=>
                     f[u].state = "FREE" \/ (u = cur[c] /\ f[u].next = "FREE")
    BY <1>3, <2>1, <2>4, <2>5, <2>6, <2>7, <2>8, <2>9, ReschedKeeps
  <2>11. StackInv'
    <3>1. ASSUME NEW u \in Structs
          PROVE  StackRec(th[u], th'[u])
      <4>1. th'[u].state = "FREE" <=> f[u].state = "FREE"
        BY <1>5, <2>2, <2>4, <2>10
      <4>2. Kept(f[u], th'[u]) /\ StackRec(th[u], f[u])
        BY <1>5, <2>8, <2>10
      <4> QED BY <4>1, <4>2 DEF Kept, StackRec
    <3>2. UNCHANGED deathVars
      BY <1>3, <1>7 DEF deathVars
    <3> QED BY <2>9, <3>1, <3>2, StackFrame
  <2> QED BY <2>10, <2>11 DEF ThreadInductive, SharedInv
<1> QED BY <1>3, <1>6, <1>7

(* The unit of the death stack goes to one who waits or back.              *)
LEMMA ExitPutKeeps ==
    ASSUME ThreadInductive, NEW c \in Cpus, ExitPut(c)
    PROVE  ThreadInductive'
<1> DEFINE t == cur[c]
           W == {u \in All : th[u].wait = "death"}
<1>1. /\ t # None /\ t \in Structs /\ t # Kernel /\ t \in All /\ th[t].pc = "x_put"
      /\ th[t].state = "RUNNING" /\ th[t].wait = "no" /\ th[t] \in ThreadRec
      /\ Shape(t, th[t]) /\ th \in [All -> ThreadRec]
  BY ExitFacts DEF ExitPut
<1>2. UNCHANGED <<next_id, sems, procVars>>
  BY DEF ExitPut
<1>3. CASE jam' = TRUE /\ UNCHANGED <<th, schedVars, bitmap, free>>
  <2>1. ShapeInv' /\ SchedInv'
    BY <1>3 DEF ThreadInductive, ShapeInv, SchedInv, RunOK, QueueOK, DeadOK, Hand, schedVars
  <2>2. ProcInv' /\ CreateInv'
    BY <1>2, <1>3 DEF ThreadInductive, SharedInv, ProcInv, ProcType, CreateInv, Empty, procVars
  <2>3. KillInv' /\ IdInv'
    BY <1>2, <1>3 DEF ThreadInductive, SharedInv, KillInv, IdInv, procVars
  <2>4. StackInv'
    BY <1>3 DEF ThreadInductive, SharedInv, StackInv, OnStack, Bits
  <2> QED BY <2>1, <2>2, <2>3, <2>4 DEF ThreadInductive, SharedInv
<1>4. ASSUME /\ bitmap' = bitmap \ {th[t].stack} /\ free' = FreeAfter(W) /\ jam' = jam
             /\ \E first \in SUBSET W :
                   /\ Cardinality(first) = (IF W = {} THEN 0 ELSE 1)
                   /\ Resched(c, [u \in All |-> IF u \in first THEN WakeUp(th[u]) ELSE th[u]],
                              Enqueue(runq, first))
      PROVE  ThreadInductive'
  <2>1. PICK first \in SUBSET W :
           /\ Cardinality(first) = (IF W = {} THEN 0 ELSE 1)
           /\ Resched(c, [u \in All |-> IF u \in first THEN WakeUp(th[u]) ELSE th[u]],
                      Enqueue(runq, first))
    BY <1>4
  <2> DEFINE f == [u \in All |-> IF u \in first THEN WakeUp(th[u]) ELSE th[u]]
             q == Enqueue(runq, first)
  <2>2. Resched(c, f, q)
    BY <2>1
  <2>3. ASSUME NEW u \in first
        PROVE  /\ u \in All /\ u \in Structs /\ u # t /\ th[u].state = "WAITING"
               /\ th[u].wait = "death" /\ th[u].pc = "x_bit" /\ th[u] \in ThreadRec
               /\ Shape(u, th[u])
    <3>1. u \in All /\ th[u].wait = "death"
      BY <2>1, <2>3
    <3>2. Shape(u, th[u]) /\ Waits(th[u]) /\ th[u] \in ThreadRec
      BY <3>1 DEF ThreadInductive, ShapeInv
    <3>3. th[u].pc = "x_bit" /\ th[u].state = "WAITING"
      BY <3>1, <3>2 DEF Shape, HandShape, Waits
    <3>4. u # Kernel
      BY <3>2, <3>3 DEF Shape, KernelPcs
    <3> QED BY <1>1, <3>1, <3>2, <3>3, <3>4 DEF All
  <2>4. ASSUME NEW u \in first
        PROVE  WokenRec(th[u], WakeUp(th[u]))
    <3>1. th[u] \in ThreadRec
      BY <2>3
    <3> QED BY <3>1 DEF WokenRec, WakeUp, ThreadRec, States
  <2>5. ASSUME NEW u \in All
        PROVE  f[u] = IF u \in first THEN WakeUp(th[u]) ELSE th[u]
    OBVIOUS
  <2>6. f \in [All -> ThreadRec]
    BY <1>1, <2>4 DEF WokenRec
  <2> HIDE DEF f, q
  <2>7. first \in SUBSET All /\ runq \in [All -> {0, 1}] /\ \A u \in first : runq[u] = 0
    BY <2>3 DEF ThreadInductive, SchedInv, QueueOK
  <2>8. q \in [All -> {0, 1}] /\ \A u \in All : q[u] = IF u \in first THEN 1 ELSE runq[u]
    BY <2>7, EnqueueFacts DEF q
  <2>9. RunOK(f) /\ QueueOK(f, q) /\ DeadOK(f)
    <3>1. \A u \in All : f[u].state = IF u \in first THEN "READY" ELSE th[u].state
      BY <2>4, <2>5 DEF WokenRec
    <3>2. \A u, v \in All : Hand(f, u, v) <=> Hand(th, u, v)
      BY <2>4, <2>5 DEF WokenRec, Hand
    <3>3. \A u \in first : th[u].state \notin {"READY", "RUNNING", "FREE"}
      BY <2>3
    <3> QED BY <2>7, <2>8, <3>1, <3>2, <3>3, SchedReady DEF ThreadInductive
  <2>10. ASSUME NEW u \in All
         PROVE  /\ Shape(u, f[u]) /\ Waits(f[u])
                /\ ProcRec(th[u], f[u]) /\ CreateRec(th[u], f[u]) /\ KillRec(th[u], f[u])
                /\ IdRec(th[u], f[u])
                /\ DoomedThread(th[u]) => DoomedThread(f[u])
    <3>1. CASE u \in first
      <4>1. f[u] = WakeUp(th[u])
        BY <2>5, <3>1
      <4>2. WokenRec(th[u], f[u])
        BY <2>4, <3>1, <4>1
      <4>3. Shape(u, f[u]) /\ Waits(f[u])
        BY <2>3, <3>1, <4>2, WokenShape
      <4>4. /\ ProcRec(th[u], f[u]) /\ CreateRec(th[u], f[u]) /\ KillRec(th[u], f[u])
            /\ IdRec(th[u], f[u])
            /\ DoomedThread(th[u]) => DoomedThread(f[u])
        BY <2>3, <3>1, <4>2, WokenRest
      <4> QED BY <4>3, <4>4
    <3>2. CASE u \notin first
      BY <2>5, <3>2, Rest DEF ThreadInductive, ShapeInv
    <3> QED BY <3>1, <3>2
  <2>11. ProcInv /\ CreateInv /\ KillInv /\ IdInv /\ StackInv /\ Structs \subseteq All
    BY DEF ThreadInductive, SharedInv, All
  <2>12. /\ ShapeInv' /\ SchedInv' /\ ProcInv' /\ CreateInv' /\ KillInv' /\ IdInv'
         /\ \A u \in All :
               /\ Kept(f[u], th'[u])
               /\ th'[u].state = "FREE" <=>
                     f[u].state = "FREE" \/ (u = cur[c] /\ f[u].next = "FREE")
    BY <1>2, <2>2, <2>6, <2>9, <2>10, <2>11, ReschedKeeps
  <2>13. f[t] = th[t] /\ th[t].next = "FREE"
    <3>1. t \notin first
      BY <2>3
    <3> QED BY <1>1, <2>5, <3>1 DEF Shape, StateShape
  <2>14. ASSUME NEW u \in Structs
         PROVE  /\ OnStack(u)' <=> OnStack(u) /\ u # t
                /\ th'[u].stack = th[u].stack
                /\ u \in Bits' <=> u \in Bits \/ u \in first
    <3>1. /\ Kept(f[u], th'[u])
          /\ th'[u].state = "FREE" <=> f[u].state = "FREE" \/ u = t
      BY <2>11, <2>12, <2>13
    <3>2. CASE u \in first
      <4>1. f[u] = WakeUp(th[u])
        BY <2>5, <2>11, <3>2
      <4>2. WokenRec(th[u], f[u]) /\ th[u].pc = "x_bit" /\ th[u].wait = "death"
        BY <2>3, <2>4, <3>2, <4>1
      <4> QED BY <3>1, <3>2, <4>2 DEF WokenRec, Kept, OnStack, Bits
    <3>3. CASE u \notin first
      <4>1. f[u] = th[u]
        BY <2>5, <2>11, <3>3
      <4> QED BY <1>1, <3>1, <3>3, <4>1 DEF Kept, OnStack, Bits
    <3> QED BY <3>2, <3>3
  <2>15. StackInv'
    <3>1. Bits' = Bits \cup first /\ Bits \cap first = {}
      <4>1. first \subseteq Structs
        BY <2>3
      <4>2. Bits' \subseteq Structs /\ Bits \subseteq Structs
        BY DEF Bits
      <4>3. \A u \in first : u \notin Bits
        BY <2>3 DEF Bits
      <4> QED BY <2>14, <4>1, <4>2, <4>3
    <3>2. IsFiniteSet(Bits) /\ IsFiniteSet(first) /\ IsFiniteSet(bitmap)
      <4>1. first \subseteq Structs /\ Bits \subseteq Structs
        BY <2>3 DEF Bits
      <4>2. IsFiniteSet(Stacks)
        BY ThreadAssumption, FS_CardinalityType, FS_Interval DEF Stacks
      <4> QED BY <2>11, <4>1, <4>2, ThreadAssumption, FS_Subset DEF StackInv
    <3>3. Cardinality(Bits') = Cardinality(Bits) + Cardinality(first)
      <4>1. Cardinality(Bits \cup first) =
               Cardinality(Bits) + Cardinality(first) - Cardinality(Bits \cap first)
        BY <3>2, FS_Union
      <4>2. Cardinality(Bits \cap first) = 0
        BY <3>1, FS_EmptySet
      <4>3. Cardinality(Bits) \in Nat /\ Cardinality(first) \in Nat
        BY <3>2, FS_CardinalityType
      <4> QED BY <3>1, <4>1, <4>2, <4>3
    <3>4. OnStack(t) /\ th[t].stack \in bitmap
      <4>1. OnStack(t)
        BY <1>1 DEF OnStack
      <4>2. th[t].stack \in Stacks
        BY <1>1 DEF Shape, HandShape, ThreadRec
      <4> QED BY <1>1, <2>11, <4>1, <4>2 DEF StackInv
    <3>5. Cardinality(bitmap') = Cardinality(bitmap) - 1
      <4>1. Cardinality(bitmap \ {th[t].stack}) = Cardinality(bitmap) - 1
        BY ZenonT(30), <3>2, <3>4, FS_RemoveElement
      <4> QED BY <1>4, <4>1
    <3>6. Cardinality(Bits) \in Nat /\ Cardinality(bitmap) \in Nat /\ free \in Nat
      BY <2>11, <3>2, FS_CardinalityType DEF StackInv
    <3>7. free' + Cardinality(first) = free + 1 /\ free' \in Nat
      <4>1. free' = IF W = {} THEN free + 1 ELSE free
        BY <1>4 DEF FreeAfter
      <4>2. Cardinality(first) = IF W = {} THEN 0 ELSE 1
        BY <2>1
      <4> HIDE DEF W
      <4> QED BY <3>6, <4>1, <4>2
    <3>8. Cardinality(first) \in Nat
      BY <3>2, FS_CardinalityType
    <3>9. free' + Cardinality(bitmap') + Cardinality(Bits') = Cardinality(Stacks)
      BY <2>11, <3>3, <3>5, <3>6, <3>7, <3>8 DEF StackInv
    <3>10. \A u, v \in Structs :
              OnStack(u)' /\ OnStack(v)' /\ th'[u].stack = th'[v].stack => u = v
      BY <2>11, <2>14 DEF StackInv
    <3>11. ASSUME NEW j \in Stacks
           PROVE  j \in bitmap' <=> \E u \in Structs : OnStack(u)' /\ th'[u].stack = j
      <4>1. j \in bitmap <=> \E u \in Structs : OnStack(u) /\ th[u].stack = j
        BY <2>11 DEF StackInv
      <4>2. \A u \in Structs : OnStack(u) /\ th[u].stack = th[t].stack => u = t
        BY <1>1, <2>11, <3>4 DEF StackInv
      <4>3. j \in bitmap' <=> j \in bitmap /\ j # th[t].stack
        BY <1>4
      <4> QED BY <2>14, <4>1, <4>2, <4>3
    <3>12. bitmap' \subseteq Stacks /\ jam' \in BOOLEAN
      BY <1>4, <2>11 DEF StackInv
    <3> QED BY <3>7, <3>9, <3>10, <3>11, <3>12 DEF StackInv
  <2> QED BY <2>12, <2>15 DEF ThreadInductive, SharedInv
<1> QED BY <1>3, <1>4 DEF ExitPut

(* return_code_sem is deleted.                                             *)
LEMMA ExitSemKeeps ==
    ASSUME ThreadInductive, NEW c \in Cpus, ExitSem(c)
    PROVE  ThreadInductive'
<1> DEFINE t == cur[c]
           W == {u \in All : th[u].wait = "thread" /\ th[u].tgt = th[t].id}
           p == IF W = {} THEN "x_stack" ELSE "x_wake"
           r == [th[t] EXCEPT !.todo = W, !.pc = p]
<1>1. /\ t # None /\ t \in Structs /\ t # Kernel /\ t \in All /\ th[t].pc = "x_sem"
      /\ th[t].state = "RUNNING" /\ th[t].wait = "no" /\ th[t] \in ThreadRec
      /\ Shape(t, th[t]) /\ th \in [All -> ThreadRec]
  BY ExitFacts DEF ExitSem
<1>2. /\ r \in ThreadRec /\ r.pc = p /\ r.todo = W
      /\ r.state = th[t].state /\ r.next = th[t].next /\ r.obj = th[t].obj
      /\ r.hashed = th[t].hashed /\ r.stack = th[t].stack /\ r.wait = th[t].wait
      /\ r.proc = th[t].proc /\ r.id = th[t].id /\ r.sig = th[t].sig
  <2>1. p \in Pcs /\ W \in SUBSET All
    BY DEF Pcs, LatePcs
  <2> HIDE DEF p, W
  <2> QED BY <1>1, <2>1 DEF ThreadRec
<1>3. /\ sems' = sems \ {th[t].id} /\ UNCHANGED <<schedVars, next_id, procVars, deathVars>>
      /\ th' = [u \in All |-> IF u = t THEN r ELSE IF u \in W THEN WakeUp(th[u]) ELSE th[u]]
  BY DEF ExitSem
<1> HIDE DEF r
<1>4. th[t].proc = "kernel" /\ th[t].obj = None
  BY <1>1 DEF Shape, ProcShape, HandShape
<1>5. ASSUME NEW u \in W
      PROVE  /\ u \in All /\ u # t /\ th[u].state = "WAITING" /\ th[u].wait = "thread"
             /\ Shape(u, th[u]) /\ WokenRec(th[u], WakeUp(th[u]))
  <2>1. u \in All /\ u # t /\ th[u].wait = "thread"
    BY <1>1, <1>5
  <2>2. Shape(u, th[u]) /\ Waits(th[u]) /\ th[u] \in ThreadRec
    BY <2>1 DEF ThreadInductive, ShapeInv
  <2>3. th[u].state = "WAITING"
    BY <2>1, <2>2 DEF Waits
  <2>4. WokenRec(th[u], WakeUp(th[u]))
    BY <2>2 DEF WokenRec, WakeUp, ThreadRec, States
  <2> QED BY <2>1, <2>2, <2>3, <2>4
<1>6. W \subseteq All /\ (r.todo = {} <=> r.pc = "x_stack") /\ r.pc \in {"x_stack", "x_wake"}
  BY <1>2
<1> HIDE DEF W, p
<1>7. /\ th'[t] = r
      /\ \A u \in W : th'[u] = WakeUp(th[u])
      /\ \A u \in All : u # t /\ u \notin W => th'[u] = th[u]
  BY <1>1, <1>3, <1>5, <1>6
<1>8. Shape(t, r) /\ Waits(r)
  BY <1>1, <1>2, <1>4, <1>6, ExitShape
<1>9. th' \in [All -> ThreadRec]
  BY <1>1, <1>2, <1>3, <1>5 DEF WokenRec
<1>10. ASSUME NEW u \in All
       PROVE  /\ Shape(u, th'[u]) /\ Waits(th'[u])
              /\ ProcRec(th[u], th'[u]) /\ CreateRec(th[u], th'[u]) /\ KillRec(th[u], th'[u])
              /\ StackRec(th[u], th'[u])
              /\ DoomedThread(th[u]) => DoomedThread(th'[u]) \/ u = t
  <2>1. CASE u = t
    <3>1. ProcRec(th[t], r) /\ CreateRec(th[t], r) /\ KillRec(th[t], r) /\ StackRec(th[t], r)
      BY <1>1, <1>2, <1>6 DEF ProcRec, CreateRec, KillRec, StackRec, MainPcs
    <3> QED BY <1>7, <1>8, <2>1, <3>1
  <2>2. CASE u \in W
    <3>1. WokenRec(th[u], th'[u]) /\ th[u].state = "WAITING" /\ th[u].wait # "death"
          /\ Shape(u, th[u])
      BY <1>5, <1>7, <2>2
    <3>2. Shape(u, th'[u]) /\ Waits(th'[u])
      BY <3>1, WokenShape
    <3>3. ProcRec(th[u], th'[u]) /\ CreateRec(th[u], th'[u]) /\ KillRec(th[u], th'[u])
          /\ StackRec(th[u], th'[u]) /\ (DoomedThread(th[u]) => DoomedThread(th'[u]))
      BY <3>1, WokenRest
    <3> QED BY <3>2, <3>3
  <2>3. CASE u # t /\ u \notin W
    BY <1>7, <2>3, Rest DEF ThreadInductive, ShapeInv
  <2> QED BY <2>1, <2>2, <2>3
<1>11. ShapeInv'
  BY <1>9, <1>10 DEF ShapeInv
<1>12. ASSUME NEW u \in All
       PROVE  th'[u].state = IF u \in W THEN "READY" ELSE th[u].state
  BY <1>1, <1>2, <1>5, <1>7 DEF WokenRec
<1>13. ASSUME NEW u \in All, NEW v \in All
       PROVE  Hand(th, u, v)' <=> Hand(th, u, v) \/ (u = t /\ v \in W)
  <2>1. CASE u = t
    BY <1>1, <1>2, <1>6, <1>7, <2>1 DEF Hand
  <2>2. CASE u \in W
    BY <1>5, <1>7, <2>2 DEF Hand, WokenRec
  <2>3. CASE u # t /\ u \notin W
    BY <1>7, <2>3 DEF Hand
  <2> QED BY <2>1, <2>2, <2>3
<1>14. SchedInv'
  <2>0. SchedInv /\ cur' = cur /\ runq' = runq /\ dead_q' = dead_q /\ Structs \subseteq All
    BY <1>3 DEF ThreadInductive, schedVars, All
  <2>1. RunOK(th)'
    BY <1>5, <1>12, <2>0, ThreadAssumption DEF SchedInv, RunOK, All
  <2>2. DeadOK(th)'
    BY <1>5, <1>12, <2>0 DEF SchedInv, DeadOK
  <2>3. ASSUME NEW u \in All
        PROVE  /\ th'[u].state = "READY" <=> runq'[u] = 1 \/ \E v \in All : Hand(th, v, u)'
               /\ \A v \in All : Hand(th, v, u)' => runq'[u] = 0
               /\ \A v, w \in All : Hand(th, v, u)' /\ Hand(th, w, u)' => v = w
    <3>1. /\ th[u].state = "READY" <=> runq[u] = 1 \/ \E v \in All : Hand(th, v, u)
          /\ \A v \in All : Hand(th, v, u) => runq[u] = 0
          /\ \A v, w \in All : Hand(th, v, u) /\ Hand(th, w, u) => v = w
          /\ runq[u] \in {0, 1}
      BY <2>0 DEF SchedInv, QueueOK
    <3>2. CASE u \in W
      BY <1>1, <1>5, <1>12, <1>13, <2>0, <3>1, <3>2
    <3>3. CASE u \notin W
      BY <1>12, <1>13, <2>0, <3>1, <3>3
    <3> QED BY <3>2, <3>3
  <2>4. QueueOK(th, runq)'
    BY <2>0, <2>3 DEF SchedInv, QueueOK
  <2> QED BY <2>1, <2>2, <2>4 DEF SchedInv
<1>15. ProcInv /\ CreateInv /\ KillInv /\ IdInv /\ StackInv /\ Structs \subseteq All
  BY DEF ThreadInductive, SharedInv, All
<1>16. ProcInv' /\ CreateInv' /\ StackInv'
  BY <1>3, <1>10, <1>15, ProcFrame, CreateFrame, StackFrame DEF procVars, Empty
<1>17. KillInv'
  <2>1. proc' = proc /\ plock' = plock /\ proc.threads \subseteq All /\ t \notin proc.threads
    BY <1>1, <1>3, <1>4, <1>15 DEF procVars, ProcInv, ProcType
  <2>2. \A u \in proc'.threads : DoomedThread(th[u]) => DoomedThread(th'[u])
    BY <1>10, <2>1
  <2> QED BY <1>10, <1>15, <2>1, <2>2, KillFrame
<1>18. IdInv'
  <2>1. ASSUME NEW u \in All
        PROVE  /\ th'[u].id = th[u].id
               /\ th'[u].pc \in LatePcs \cup {"x_put"} => th[u].pc \in LatePcs \cup {"x_put"} \/ u = t
    <3>1. CASE u = t
      BY <1>2, <1>7, <3>1
    <3>2. CASE u \in W
      BY <1>5, <1>7, <3>2 DEF WokenRec
    <3>3. CASE u # t /\ u \notin W
      BY <1>7, <3>3
    <3> QED BY <3>1, <3>2, <3>3
  <2> QED BY <1>3, <1>15, <2>1 DEF IdInv
<1> QED BY <1>11, <1>14, <1>16, <1>17, <1>18 DEF ThreadInductive, SharedInv

(* The main thread kills one of the others.                                *)
LEMMA ExitKillNextKeeps ==
    ASSUME ThreadInductive, NEW c \in Cpus, ExitKillNext(c)
    PROVE  ThreadInductive'
<1> DEFINE t == cur[c]
<1>1. /\ t # None /\ t \in Structs /\ t # Kernel /\ t \in All /\ th[t].pc = "x_killing"
      /\ th[t].state = "RUNNING" /\ th[t].wait = "no" /\ th[t] \in ThreadRec
      /\ Shape(t, th[t]) /\ th \in [All -> ThreadRec]
  BY ExitFacts DEF ExitKillNext, MainPcs
<1>2. PICK u \in th[t].todo : /\ th' = Killed([th EXCEPT ![t].todo = @ \ {u}], u)
                              /\ runq' = KilledQueue(runq, u)
  BY DEF ExitKillNext
<1> DEFINE r == [th[t] EXCEPT !.todo = th[t].todo \ {u}]
           f == [th EXCEPT ![t] = r]
           s == Killed(f, u)[u]
<1>3. th[t].proc = "kernel" /\ th[t].obj = None
  BY <1>1 DEF Shape, ProcShape, HandShape, MainPcs
<1>4. /\ ProcInv /\ CreateInv /\ KillInv /\ IdInv /\ StackInv /\ Structs \subseteq All
      /\ ProcType
  BY DEF ThreadInductive, SharedInv, ProcInv, All
<1>5. u \in proc.threads /\ u \in Structs /\ u \in All /\ u # t
  BY <1>1, <1>3, <1>4 DEF KillInv, ProcInv, ProcType
<1>6. /\ r \in ThreadRec /\ r.pc = "x_killing" /\ r.todo = th[t].todo \ {u}
      /\ r.state = th[t].state /\ r.next = th[t].next /\ r.obj = th[t].obj
      /\ r.hashed = th[t].hashed /\ r.stack = th[t].stack /\ r.wait = th[t].wait
      /\ r.proc = th[t].proc /\ r.id = th[t].id /\ r.sig = th[t].sig
  <2>1. th[t].todo \ {u} \in SUBSET All
    BY <1>1 DEF ThreadRec
  <2> QED BY <1>1, <2>1 DEF ThreadRec
<1>7. th' = Killed(f, u)
  <2>1. [th EXCEPT ![t].todo = @ \ {u}] = f
    BY <1>1
  <2> QED BY <1>2, <2>1
<1>8. cur' = cur /\ dead_q' = dead_q /\ UNCHANGED <<next_id, sems, procVars, deathVars>>
  BY DEF ExitKillNext
<1> HIDE DEF r
<1>9. Shape(t, r) /\ Waits(r)
  BY <1>1, <1>3, <1>6, ExitShape DEF MainPcs
<1>10. f \in [All -> ThreadRec] /\ f[t] = r /\ \A v \in All : v # t => f[v] = th[v]
  BY <1>1, <1>6
<1> HIDE DEF f
<1>11. f[u] = th[u] /\ th[u] \in ThreadRec /\ Shape(u, th[u]) /\ Waits(th[u])
  BY <1>1, <1>5, <1>10 DEF ThreadInductive, ShapeInv
<1>12. /\ th' \in [All -> ThreadRec] /\ th'[u] = s /\ th'[t] = r
       /\ \A v \in All : v # u /\ v # t => th'[v] = th[v]
       /\ "KILL" \in s.sig
       /\ IF WokenByKill(th[u]) THEN WokenRec(th[u], s)
          ELSE s = [th[u] EXCEPT !.sig = @ \cup {"KILL"}]
  BY <1>1, <1>5, <1>7, <1>10, <1>11, KilledFacts
<1> HIDE DEF s
<1>13. ~WokenByKill(th[u]) => SignalledRec(th[u], s)
  BY <1>11, <1>12 DEF SignalledRec, SameRec, ThreadRec
<1>14. WokenByKill(th[u]) => th[u].state \in {"SUSPENDED", "WAITING"} /\ th[u].wait # "death"
  BY <1>11 DEF WokenByKill, Waits
<1>15. /\ Shape(u, s) /\ Waits(s)
       /\ ProcRec(th[u], s) /\ CreateRec(th[u], s) /\ KillRec(th[u], s) /\ IdRec(th[u], s)
       /\ StackRec(th[u], s)
  <2>1. CASE WokenByKill(th[u])
    <3>1. WokenRec(th[u], s) /\ th[u].state \in {"SUSPENDED", "WAITING"} /\ th[u].wait # "death"
      BY <1>12, <1>14, <2>1
    <3>2. Shape(u, s) /\ Waits(s)
      BY <1>5, <1>11, <3>1, WokenShape
    <3> QED BY <1>11, <3>1, <3>2, WokenRest
  <2>2. CASE ~WokenByKill(th[u])
    <3>1. SignalledRec(th[u], s)
      BY <1>13, <2>2
    <3>2. Shape(u, s) /\ Waits(s)
      BY <1>5, <1>11, <3>1, SignalledShape
    <3> QED BY <3>1, <3>2, SignalledRest
  <2> QED BY <2>1, <2>2
<1>16. ShapeInv'
  BY <1>9, <1>12, <1>15 DEF ThreadInductive, ShapeInv
<1>17. /\ s.pc = th[u].pc /\ s.todo = th[u].todo
       /\ s.state = IF WokenByKill(th[u]) THEN "READY" ELSE th[u].state
  BY <1>12, <1>13 DEF WokenRec, SignalledRec, SameRec
<1>18. SchedInv'
  <2> DEFINE S == IF WokenByKill(th[u]) THEN {u} ELSE {}
  <2>1. S \in SUBSET All /\ \A v \in S : th[v].state \notin {"READY", "RUNNING", "FREE"}
    BY <1>5, <1>14
  <2>2. runq \in [All -> {0, 1}] /\ \A v \in S : runq[v] = 0
    BY <1>5, <1>14 DEF ThreadInductive, SchedInv, QueueOK
  <2>3. /\ runq' \in [All -> {0, 1}]
        /\ \A v \in All : runq'[v] = IF v \in S THEN 1 ELSE runq[v]
    <3>1. CASE WokenByKill(th[u])
      BY <1>2, <2>1, <2>2, <3>1, EnqueueFacts DEF KilledQueue
    <3>2. CASE ~WokenByKill(th[u])
      BY <1>2, <2>2, <3>2 DEF KilledQueue
    <3> QED BY <3>1, <3>2
  <2>4. \A v \in All : th'[v].state = IF v \in S THEN "READY" ELSE th[v].state
    BY <1>5, <1>6, <1>12, <1>17
  <2>5. \A v, w \in All : Hand(th', v, w) <=> Hand(th, v, w)
    BY <1>1, <1>6, <1>12, <1>17 DEF Hand
  <2> HIDE DEF S
  <2>6. RunOK(th') /\ QueueOK(th', runq') /\ DeadOK(th')
    BY <2>1, <2>3, <2>4, <2>5, SchedReady DEF ThreadInductive
  <2> QED BY <1>8, <2>6 DEF SchedInv, RunOK, QueueOK, DeadOK, Hand
<1>19. \A v \in All : v # t =>
          /\ ProcRec(th[v], th'[v]) /\ CreateRec(th[v], th'[v]) /\ KillRec(th[v], th'[v])
          /\ IdRec(th[v], th'[v]) /\ StackRec(th[v], th'[v])
  BY <1>12, <1>15, Rest
<1>20. ProcInv' /\ CreateInv' /\ StackInv' /\ IdInv'
  <2>1. ProcRec(th[t], r) /\ CreateRec(th[t], r) /\ StackRec(th[t], r) /\ IdRec(th[t], r)
    BY <1>1, <1>6 DEF ProcRec, CreateRec, StackRec, IdRec
  <2>2. /\ \A v \in Structs : ProcRec(th[v], th'[v]) /\ StackRec(th[v], th'[v])
        /\ \A v \in All : CreateRec(th[v], th'[v]) /\ IdRec(th[v], th'[v])
    BY <1>4, <1>12, <1>19, <2>1
  <2>3. Empty => Empty'
    BY <1>8 DEF Empty, procVars
  <2> QED BY <1>4, <1>8, <2>2, <2>3, ProcFrame, CreateFrame, StackFrame, IdFrame DEF procVars
<1>21. KillInv'
  <2>1. proc' = proc /\ plock' = plock /\ proc.threads \subseteq Structs
    BY <1>4, <1>8 DEF procVars, ProcType
  <2>2. \A v \in All : th'[v].pc = "x_killing" <=> th[v].pc = "x_killing"
    BY <1>1, <1>6, <1>12, <1>17
  <2>3. \A v \in Structs : th[v].pc = "x_killing" => v = t
    BY <1>1, <1>4 DEF KillInv
  <2>4. \A v \in Structs : th'[v].pc # "x_wait"
    <3>1. \A v \in Structs : th[v].pc \in MainPcs => v = t
      BY <1>1, <1>4 DEF ProcInv, MainPcs
    <3> QED BY <1>4, <1>6, <1>12, <1>17, <3>1 DEF MainPcs
  <2>5. r.todo \subseteq proc.threads
    BY <1>1, <1>4, <1>6 DEF KillInv
  <2>6. \A v \in proc.threads \ r.todo : DoomedThread(th'[v])
    <3>1. \A v \in proc.threads \ th[t].todo : DoomedThread(th[v])
      BY <1>1, <1>4 DEF KillInv
    <3>2. DoomedThread(th'[u])
      BY <1>12 DEF DoomedThread
    <3>3. t \notin proc.threads
      BY <1>1, <1>3, <1>4 DEF ProcInv
    <3> QED BY <1>4, <1>6, <1>12, <2>1, <3>1, <3>2, <3>3
  <2> QED BY <1>4, <1>12, <2>1, <2>2, <2>3, <2>4, <2>5, <2>6 DEF KillInv
<1> QED BY <1>16, <1>18, <1>20, <1>21 DEF ThreadInductive, SharedInv

(* A thread that is created: s is taken for it by t.                       *)
LEMMA StructKeeps ==
    ASSUME ThreadInductive, NEW c \in Cpus, create_thread_struct(c)
    PROVE  ThreadInductive'
<1> DEFINE t == cur[c]
           load == IF On(c, "p_create") THEN "load" ELSE "ret"
<1>1. /\ t # None /\ t \in All /\ th[t].pc \in {"p_create", "kern"}
      /\ th[t].state = "RUNNING" /\ th[t].wait = "no" /\ th[t] \in ThreadRec
      /\ Shape(t, th[t]) /\ th \in [All -> ThreadRec]
      /\ (On(c, "p_create") <=> th[t].pc = "p_create")
  BY OnFacts DEF create_thread_struct, On
<1>2. PICK s \in Blank :
          /\ th' = [th EXCEPT
                      ![s] = [NoThread EXCEPT
                                !.id = next_id, !.hashed = TRUE, !.state = "BIRTH",
                                !.next = "SUSPENDED", !.pc = load],
                      ![t].pc = "c_insert", ![t].obj = s]
          /\ dead_q' = dead_q \ {s}
  BY DEF create_thread_struct
<1> DEFINE m == [NoThread EXCEPT !.id = next_id, !.hashed = TRUE, !.state = "BIRTH",
                                 !.next = "SUSPENDED", !.pc = load]
           r == [th[t] EXCEPT !.pc = "c_insert", !.obj = s]
<1>3. /\ UNCHANGED <<cur, runq, procVars, deathVars>>
      /\ next_id <= MaxId /\ next_id' = next_id + 1 /\ sems' = sems \cup {next_id}
  BY DEF create_thread_struct
<1>4. /\ ProcInv /\ CreateInv /\ KillInv /\ IdInv /\ StackInv /\ Structs \subseteq All
      /\ ProcType /\ SchedInv /\ next_id \in Nat /\ MaxId \in Nat
  BY ThreadAssumption DEF ThreadInductive, SharedInv, ProcInv, All, IdInv
<1>5. s \in Structs /\ s \in All /\ th[s].state \in {"FREE", "NONE"} /\ s # t /\ s # None
      /\ s # Kernel
  BY <1>1, <1>2, <1>4, ThreadAssumption DEF Blank, SchedInv, DeadOK, All
<1>6. /\ th[s].pc \in {"none", "x_put"} /\ th[s].proc = "none" /\ th[s].obj = None
  <2>1. Shape(s, th[s])
    BY <1>5 DEF ThreadInductive, ShapeInv
  <2>2. th[s].pc \in {"none", "x_put"}
    BY <1>5, <2>1 DEF Shape, StateShape
  <2> QED BY <1>5, <2>1, <2>2 DEF Shape, ProcShape, HandShape
<1>7. th[t].obj = None /\ th[t].todo = {}
  BY <1>1 DEF Shape, HandShape
<1>8. /\ r \in ThreadRec /\ r.pc = "c_insert" /\ r.todo = th[t].todo
      /\ r.state = th[t].state /\ r.next = th[t].next /\ r.obj = s
      /\ r.hashed = th[t].hashed /\ r.stack = th[t].stack /\ r.wait = th[t].wait
      /\ r.proc = th[t].proc /\ r.id = th[t].id /\ r.sig = th[t].sig
  BY <1>1, <1>5 DEF ThreadRec, Pcs, UserPcs
<1>9. /\ m \in ThreadRec /\ m.pc = load /\ m.todo = {} /\ m.state = "BIRTH"
      /\ m.next = "SUSPENDED" /\ m.obj = None /\ m.hashed /\ m.stack = 0 /\ m.wait = "no"
      /\ m.proc = "none" /\ m.id = next_id
  <2>1. load \in Pcs
    BY DEF Pcs, UserPcs, PlainPcs
  <2> HIDE DEF load
  <2> QED BY <1>4, <2>1 DEF NoThread, ThreadRec, States
<1>10. load \in {"load", "ret"} /\ (load = "load" <=> th[t].pc = "p_create")
  BY <1>1
<1> HIDE DEF m, r, load
<1>11. /\ th' \in [All -> ThreadRec] /\ th'[t] = r /\ th'[s] = m
       /\ \A u \in All : u # t /\ u # s => th'[u] = th[u]
  <2>1. th' = [th EXCEPT ![s] = m, ![t] = r]
    BY <1>1, <1>2, <1>5 DEF m, r
  <2> QED BY <1>1, <1>5, <1>8, <1>9, <2>1
<1>12. Shape(t, r) /\ Waits(r)
  <2>1. StateShape(r) /\ HandShape(r) /\ Waits(r)
    BY <1>1, <1>5, <1>7, <1>8 DEF Shape, StateShape, HandShape, Waits
  <2>2. t = Kernel => r.pc \in KernelPcs /\ r.proc = "kernel" /\ r.state \notin {"NONE", "BIRTH", "FREE"}
    BY <1>1, <1>8 DEF Shape, KernelPcs
  <2>3. t # Kernel => ProcShape(r)
    BY <1>1, <1>8 DEF Shape, ProcShape, UserPcs, PlainPcs, MainPcs, LatePcs
  <2> QED BY <1>8, <2>1, <2>2, <2>3 DEF Shape
<1>13. Shape(s, m) /\ Waits(m)
  <2>1. StateShape(m) /\ HandShape(m) /\ Waits(m)
    BY <1>9, <1>10 DEF StateShape, HandShape, Waits
  <2>2. ProcShape(m)
    BY <1>9, <1>10 DEF ProcShape, MainPcs, LatePcs
  <2> QED BY <1>5, <1>9, <1>10, <2>1, <2>2 DEF Shape
<1>14. ShapeInv'
  BY <1>11, <1>12, <1>13 DEF ThreadInductive, ShapeInv
<1>15. SchedInv'
  <2>1. \A u \in All : u # s => th'[u].state = th[u].state
    BY <1>8, <1>11
  <2>2. \A u, v \in All : Hand(th, u, v)' <=> Hand(th, u, v)
    BY <1>1, <1>6, <1>8, <1>9, <1>10, <1>11 DEF Hand
  <2>3. cur' = cur /\ runq' = runq
    BY <1>3
  <2>4. RunOK(th)'
    BY <1>4, <1>5, <1>9, <1>11, <2>1, <2>3, ThreadAssumption DEF SchedInv, RunOK, All
  <2>5. QueueOK(th, runq)'
    <3>1. ASSUME NEW u \in All
          PROVE  th'[u].state = "READY" <=> th[u].state = "READY"
      BY <1>5, <1>9, <1>11, <2>1
    <3> QED BY <1>4, <2>2, <2>3, <3>1 DEF SchedInv, QueueOK
  <2>6. DeadOK(th)'
    BY <1>2, <1>4, <1>9, <1>11, <2>1 DEF SchedInv, DeadOK
  <2> QED BY <2>4, <2>5, <2>6 DEF SchedInv
<1>16. proc' = proc /\ plock' = plock /\ (Empty' <=> Empty)
  BY <1>3 DEF procVars, Empty
<1>17. ProcInv' /\ StackInv'
  <2>1. ProcRec(th[t], r) /\ StackRec(th[t], r)
    BY <1>1, <1>8 DEF ProcRec, StackRec, MainPcs
  <2>2. ASSUME NEW u \in Structs
        PROVE  StackRec(th[u], th'[u])
    <3>1. StackRec(th[s], m)
      BY <1>5, <1>6, <1>9, <1>10, ThreadAssumption DEF StackRec, ThreadInductive, ShapeInv, Shape, StateShape
    <3> QED BY <1>4, <1>11, <2>1, <3>1, Rest
  <2>3. StackInv'
    BY <1>3, <1>4, <2>2, StackFrame
  <2>4. ProcType'
    BY <1>4, <1>16 DEF ProcType
  <2>5. \A u \in Structs : th'[u].proc = "user" <=> u \in proc'.threads
    BY <1>4, <1>6, <1>8, <1>9, <1>11, <1>16 DEF ProcInv
  <2>6. ASSUME NEW u \in Structs
        PROVE  /\ th'[u].pc \in MainPcs => proc'.state = "death" /\ proc'.main = u
               /\ th'[u].pc = "x_free" => proc'.threads = {}
               /\ th'[u].pc = "load" /\ th'[u].proc = "user" =>
                     proc'.main = u /\ proc'.state = "birth"
    <3>1. CASE u = s
      BY <1>9, <1>10, <1>11, <3>1 DEF MainPcs
    <3>2. CASE u # s
      BY <1>1, <1>4, <1>8, <1>11, <1>16, <2>1, <3>2 DEF ProcInv, MainPcs
    <3> QED BY <3>1, <3>2
  <2> QED BY <1>4, <1>16, <2>3, <2>4, <2>5, <2>6 DEF ProcInv
<1>18. CreateInv'
  <2>1. th'[Kernel].pc = "p_create" => Empty'
    BY <1>4, <1>5, <1>8, <1>11, <1>16 DEF CreateInv, All
  <2>2. th[t].pc = "p_create" => t = Kernel /\ Empty
    BY <1>1, <1>4 DEF Shape, CreateInv
  <2>3. \A u \in All : th[u].obj # s
    BY <1>4, <1>5 DEF CreateInv
  <2>4. ASSUME NEW u \in All, NEW v \in Structs, th'[u].obj = v
        PROVE  /\ th'[v].state = "BIRTH"
               /\ th'[v].proc = IF th'[u].pc = "c_insert" THEN "none" ELSE "user"
               /\ th'[v].pc = "load" => u = Kernel /\ (th'[u].pc = "c_insert" => Empty')
    <3>1. CASE u = t
      <4>1. v = s
        BY <1>8, <1>11, <2>4, <3>1
      <4> QED BY <1>8, <1>9, <1>10, <1>11, <1>16, <2>2, <3>1, <4>1
    <3>2. CASE u # t
      <4>1. u # s /\ th'[u] = th[u] /\ th[u].obj = v
        BY <1>5, <1>9, <1>11, <2>4, <3>2, ThreadAssumption
      <4>2. v # s /\ v \in All /\ th[v].state = "BIRTH"
        BY <1>4, <2>3, <4>1 DEF CreateInv
      <4>3. v # t /\ th'[v] = th[v]
        BY <1>1, <1>11, <4>2
      <4> QED BY <1>4, <1>16, <4>1, <4>2, <4>3 DEF CreateInv
    <3> QED BY <3>1, <3>2
  <2>5. ASSUME NEW u \in All, NEW v \in All, th'[u].obj = th'[v].obj, th'[u].obj # None
        PROVE  u = v
    <3>1. u # s /\ v # s
      BY <1>9, <1>11, <2>5
    <3>2. u # t => th'[u].obj = th[u].obj
      BY <1>11, <3>1
    <3>3. v # t => th'[v].obj = th[v].obj
      BY <1>11, <3>1
    <3>4. th'[t].obj = s
      BY <1>8, <1>11
    <3> QED BY <1>4, <2>3, <2>5, <3>2, <3>3, <3>4 DEF CreateInv
  <2> QED BY <2>1, <2>4, <2>5 DEF CreateInv
<1>19. KillInv'
  <2>1. KillRec(th[t], r) /\ KillRec(th[s], m)
    BY <1>1, <1>6, <1>8, <1>9, <1>10 DEF KillRec
  <2>2. \A u \in All : KillRec(th[u], th'[u])
    BY <1>11, <2>1, Rest
  <2>3. s \notin proc.threads /\ proc.threads \subseteq All
    BY <1>4, <1>5, <1>6 DEF ProcInv, ProcType
  <2>4. DoomedThread(th[t]) => DoomedThread(r)
    BY <1>1, <1>8 DEF DoomedThread
  <2>5. \A u \in proc'.threads : DoomedThread(th[u]) => DoomedThread(th'[u])
    BY <1>11, <1>16, <2>3, <2>4
  <2> QED BY <1>4, <1>16, <2>2, <2>5, KillFrame
<1>20. IdInv'
  <2>1. next_id' \in 1 .. MaxId + 1 /\ \A i \in sems' : i \in 1 .. next_id' - 1
    BY <1>3, <1>4 DEF IdInv
  <2>2. ASSUME NEW u \in All
        PROVE  /\ th'[u].id < next_id'
               /\ th'[u].pc \in LatePcs \cup {"x_put"} => th'[u].id \notin sems'
    <3>1. th[u].id \in Nat /\ th[u].id < next_id
      BY <1>1, <1>4 DEF ThreadRec, IdInv
    <3>2. CASE u = s
      BY <1>3, <1>4, <1>9, <1>10, <1>11, <3>2 DEF LatePcs
    <3>3. CASE u = t
      BY <1>3, <1>4, <1>8, <1>11, <3>1, <3>3 DEF LatePcs
    <3>4. CASE u # s /\ u # t
      BY <1>3, <1>4, <1>11, <3>1, <3>4 DEF IdInv
    <3> QED BY <3>2, <3>3, <3>4
  <2> QED BY <2>1, <2>2 DEF IdInv
<1> QED BY <1>14, <1>15, <1>17, <1>18, <1>19, <1>20 DEF ThreadInductive, SharedInv

(* The two of a creation: who creates, and whom.                           *)
LEMMA CreateFacts ==
    ASSUME ThreadInductive, NEW c \in Cpus, NEW p \in {"c_insert", "c_done"}, On(c, p)
    PROVE  LET t == cur[c]  s == th[t].obj
           IN  /\ t # None /\ t \in All /\ th[t].pc = p /\ th[t].state = "RUNNING"
               /\ th[t].wait = "no" /\ th[t] \in ThreadRec /\ Shape(t, th[t])
               /\ th \in [All -> ThreadRec] /\ th[t].todo = {}
               /\ s \in Structs /\ s \in All /\ s # t /\ s # Kernel /\ s # None
               /\ th[s].state = "BIRTH" /\ th[s].pc \in {"load", "ret"} /\ th[s].obj = None
               /\ th[s].wait = "no" /\ th[s].todo = {} /\ th[s] \in ThreadRec /\ Shape(s, th[s])
               /\ th[s].proc = IF p = "c_insert" THEN "none" ELSE "user"
               /\ th[s].pc = "load" => t = Kernel /\ (p = "c_insert" => Empty)
               /\ \A u \in All : th[u].obj = s => u = t
<1> DEFINE t == cur[c]
           s == th[t].obj
<1>1. /\ t # None /\ t \in All /\ th[t].pc = p /\ th[t].state = "RUNNING"
      /\ th[t].wait = "no" /\ th[t] \in ThreadRec /\ Shape(t, th[t]) /\ th \in [All -> ThreadRec]
  BY OnFacts DEF On
<1>2. th[t].todo = {} /\ s # None /\ s \in Structs
  BY <1>1 DEF Shape, HandShape, ThreadRec
<1>3. s \in All /\ s # Kernel
  BY <1>2, ThreadAssumption DEF All
<1>4. /\ th[s].state = "BIRTH" /\ th[s].proc = IF p = "c_insert" THEN "none" ELSE "user"
      /\ th[s].pc = "load" => t = Kernel /\ (p = "c_insert" => Empty)
      /\ \A u \in All : th[u].obj = s => u = t
  BY <1>1, <1>2, <1>3 DEF ThreadInductive, SharedInv, CreateInv
<1>5. Shape(s, th[s]) /\ Waits(th[s]) /\ th[s] \in ThreadRec /\ s # t
  BY <1>1, <1>3, <1>4 DEF ThreadInductive, ShapeInv
<1>6. th[s].pc \in {"load", "ret"} /\ th[s].wait = "no"
  BY <1>4, <1>5 DEF Shape, StateShape, Waits
<1>7. th[s].obj = None /\ th[s].todo = {}
  BY <1>5, <1>6 DEF Shape, HandShape
<1> QED BY <1>1, <1>2, <1>3, <1>4, <1>5, <1>6, <1>7

(* The one who creates goes on from c_insert or c_done.                    *)
LEMMA CreatorShape ==
    ASSUME NEW t \in All, NEW r, NEW x \in ThreadRec, Shape(t, r),
           r.pc \in {"c_insert", "c_done"}, r.state = "RUNNING", r.wait = "no", r.todo = {},
           x.state = r.state, x.next = r.next, x.wait = r.wait, x.todo = r.todo,
           x.hashed = r.hashed, x.stack = r.stack, x.proc = r.proc,
           x.pc \in {"c_done", After(t), "p_resume"}, x.pc = "p_resume" => t = Kernel,
           IF x.pc = "c_done" THEN x.obj # None ELSE x.obj = None
    PROVE  Shape(t, x) /\ Waits(x)
<1>1. After(t) \in {"kern", "ret"} /\ (t = Kernel => After(t) = "kern")
  BY DEF After
<1>2. StateShape(x) /\ HandShape(x)
  BY <1>1 DEF Shape, StateShape, HandShape
<1>3. t = Kernel => x.pc \in KernelPcs /\ x.proc = "kernel" /\ x.state \notin {"NONE", "BIRTH", "FREE"}
  BY <1>1 DEF Shape, KernelPcs
<1>4. t # Kernel => x.pc \notin {"p_create", "p_resume"} /\ ProcShape(x)
  BY <1>1 DEF Shape, ProcShape, UserPcs, PlainPcs, MainPcs, LatePcs
<1> QED BY <1>2, <1>3, <1>4 DEF Shape, Waits

(* What the one who creates leaves as it is.                               *)
LEMMA CreatorRest ==
    ASSUME NEW t, NEW r, NEW x, r.pc \in {"c_insert", "c_done"},
           x.pc \in {"c_done", After(t), "p_resume"}, x.id = r.id, x.proc = r.proc, x.sig = r.sig
    PROVE  /\ ProcRec(r, x) /\ KillRec(r, x) /\ StackRec(r, x) /\ IdRec(r, x)
           /\ DoomedThread(r) => DoomedThread(x)
<1>1. After(t) \in {"kern", "ret"}
  BY DEF After
<1> QED BY <1>1 DEF ProcRec, KillRec, StackRec, IdRec, DoomedThread, MainPcs, LatePcs

(* The new thread joins its process.                                       *)
LEMMA InsertKeeps ==
    ASSUME ThreadInductive, NEW c \in Cpus, CreateInsert(c)
    PROVE  ThreadInductive'
<1> DEFINE t == cur[c]
           s == th[t].obj
           r == [th[t] EXCEPT !.pc = "c_done"]
           m == [th[s] EXCEPT !.proc = "user"]
<1>1. /\ t # None /\ t \in All /\ th[t].pc = "c_insert" /\ th[t].state = "RUNNING"
      /\ th[t].wait = "no" /\ th[t] \in ThreadRec /\ Shape(t, th[t])
      /\ th \in [All -> ThreadRec] /\ th[t].todo = {}
      /\ s \in Structs /\ s \in All /\ s # t /\ s # Kernel /\ s # None
      /\ th[s].state = "BIRTH" /\ th[s].pc \in {"load", "ret"} /\ th[s].obj = None
      /\ th[s].wait = "no" /\ th[s].todo = {} /\ th[s] \in ThreadRec /\ Shape(s, th[s])
      /\ th[s].proc = "none" /\ (th[s].pc = "load" => t = Kernel /\ Empty)
      /\ \A u \in All : th[u].obj = s => u = t
  BY CreateFacts DEF CreateInsert
<1>2. /\ plock = None /\ plock' = plock /\ Open
      /\ proc' = [proc EXCEPT !.threads = @ \cup {s},
                              !.main = IF proc.threads = {} THEN s ELSE @]
      /\ UNCHANGED <<schedVars, next_id, sems, deathVars>>
  BY DEF CreateInsert
<1>3. /\ r \in ThreadRec /\ r.pc = "c_done" /\ r.todo = th[t].todo
      /\ r.state = th[t].state /\ r.next = th[t].next /\ r.obj = s
      /\ r.hashed = th[t].hashed /\ r.stack = th[t].stack /\ r.wait = th[t].wait
      /\ r.proc = th[t].proc /\ r.id = th[t].id /\ r.sig = th[t].sig
  BY <1>1 DEF ThreadRec, Pcs, UserPcs
<1>4. /\ m \in ThreadRec /\ m.pc = th[s].pc /\ m.todo = th[s].todo
      /\ m.state = th[s].state /\ m.next = th[s].next /\ m.obj = th[s].obj
      /\ m.hashed = th[s].hashed /\ m.stack = th[s].stack /\ m.wait = th[s].wait
      /\ m.proc = "user" /\ m.id = th[s].id /\ m.sig = th[s].sig
  BY <1>1 DEF ThreadRec
<1>5. /\ th' \in [All -> ThreadRec] /\ th'[t] = r /\ th'[s] = m
      /\ \A u \in All : u # t /\ u # s => th'[u] = th[u]
  <2>1. th' = [th EXCEPT ![s] = m, ![t] = r]
    BY <1>1 DEF CreateInsert
  <2> HIDE DEF m, r
  <2> QED BY <1>1, <1>3, <1>4, <2>1
<1> HIDE DEF m, r, s
<1>6. Shape(t, r) /\ Waits(r)
  BY <1>1, <1>3, CreatorShape
<1>7. Shape(s, m) /\ Waits(m)
  <2>1. StateShape(m) /\ HandShape(m)
    BY <1>1, <1>4 DEF Shape, StateShape, HandShape
  <2>2. ProcShape(m)
    BY <1>1, <1>4 DEF Shape, ProcShape, MainPcs, LatePcs
  <2> QED BY <1>1, <1>4, <2>1, <2>2 DEF Shape, Waits
<1>8. ShapeInv'
  BY <1>5, <1>6, <1>7 DEF ThreadInductive, ShapeInv
<1>9. \A u \in All : th'[u].state = th[u].state
  BY <1>3, <1>4, <1>5
<1>10. SchedInv'
  <2>1. \A u, v \in All : Hand(th', u, v) <=> Hand(th, u, v)
    BY <1>1, <1>3, <1>4, <1>5 DEF Hand
  <2>2. RunOK(th') /\ QueueOK(th', runq) /\ DeadOK(th')
    BY <1>9, <2>1, SchedSame DEF ThreadInductive
  <2> QED BY <1>2, <2>2 DEF SchedInv, RunOK, QueueOK, DeadOK, Hand, schedVars
<1>11. /\ ProcInv /\ CreateInv /\ KillInv /\ IdInv /\ StackInv /\ Structs \subseteq All
       /\ ProcType /\ None \notin All
  BY ThreadAssumption DEF ThreadInductive, SharedInv, ProcInv, All
<1>12. /\ proc.state \in {"birth", "normal"} /\ proc.hashed /\ proc.alloc
       /\ proc.threads # {} /\ proc.main # None => proc.main \in proc.threads
  BY <1>2, <1>11 DEF Open, ProcInv, ProcType
<1>13. /\ ProcType' /\ proc'.threads = proc.threads \cup {s} /\ proc'.alloc = proc.alloc
       /\ proc'.main = (IF proc.threads = {} THEN s ELSE proc.main)
       /\ proc'.hashed = proc.hashed /\ proc'.state = proc.state
  BY <1>1, <1>2, <1>11 DEF ProcType
<1>14. ASSUME NEW u \in All
       PROVE  KillRec(th[u], th'[u]) /\ StackRec(th[u], th'[u]) /\ IdRec(th[u], th'[u])
  <2>1. CASE u = t
    BY <1>1, <1>3, <1>5, <2>1, CreatorRest
  <2>2. CASE u = s
    BY <1>1, <1>4, <1>5, <2>2 DEF KillRec, StackRec, IdRec
  <2>3. CASE u # t /\ u # s
    BY <1>5, <2>3, Rest
  <2> QED BY <2>1, <2>2, <2>3
<1>15. StackInv' /\ IdInv'
  BY <1>2, <1>11, <1>14, StackFrame, IdFrame
<1>16. \A u \in Structs : th'[u].pc \notin MainPcs
  <2>1. \A u \in Structs : th[u].pc \notin MainPcs
    BY <1>11, <1>12 DEF ProcInv
  <2> QED BY <1>1, <1>3, <1>4, <1>5, <1>11, <2>1 DEF MainPcs
<1>17. KillInv'
  <2>1. \A u \in All : th'[u].pc = "x_killing" <=> plock' = u
    BY <1>2, <1>11, <1>14 DEF KillInv, KillRec
  <2>2. \A u \in Structs : th'[u].pc # "x_killing" /\ th'[u].pc # "x_wait"
    BY <1>16 DEF MainPcs
  <2> QED BY <1>2, <2>1, <2>2 DEF KillInv
<1>18. ProcInv'
  <2>1. \A u \in Structs : th'[u].proc = "user" <=> u \in proc'.threads
    BY <1>1, <1>3, <1>4, <1>5, <1>11, <1>13 DEF ProcInv
  <2>2. ASSUME NEW u \in Structs, th'[u].pc = "load", th'[u].proc = "user"
        PROVE  proc'.main = u /\ proc'.state = "birth"
    <3>1. CASE u = s
      BY <1>1, <1>4, <1>5, <1>13, <2>2, <3>1 DEF Empty
    <3>2. CASE u # s
      <4>1. u # t
        BY <1>3, <1>5, <2>2
      <4>2. th[u].pc = "load" /\ th[u].proc = "user"
        BY <1>5, <1>11, <2>2, <3>2, <4>1
      <4>3. u \in proc.threads /\ proc.main = u /\ proc.state = "birth"
        BY <1>11, <4>2 DEF ProcInv
      <4> QED BY <1>13, <4>3
    <3> QED BY <3>1, <3>2
  <2>3. \A u \in Structs : th'[u].pc # "x_free"
    BY <1>16 DEF MainPcs
  <2>4. proc'.main # None => proc'.main \in proc'.threads
    BY <1>12, <1>13
  <2> QED BY <1>12, <1>13, <1>16, <2>1, <2>2, <2>3, <2>4 DEF ProcInv
<1>19. CreateInv'
  <2>1. t # Kernel => ~Empty
    <3>1. ASSUME t # Kernel
          PROVE  t \in proc.threads
      <4>1. th[t].proc = "user" /\ t \in Structs
        BY <1>1, <3>1 DEF Shape, ProcShape, UserPcs, All
      <4> QED BY <1>11, <4>1 DEF ProcInv
    <3> QED BY <3>1 DEF Empty
  <2>2. th'[Kernel].pc # "p_create"
    <3>1. CASE t = Kernel
      BY <1>3, <1>5, <3>1
    <3>2. CASE t # Kernel
      <4>1. th'[Kernel] = th[Kernel]
        BY <1>1, <1>5, <3>2 DEF All
      <4> QED BY <1>11, <2>1, <3>2, <4>1 DEF CreateInv
    <3> QED BY <3>1, <3>2
  <2>3. ASSUME NEW u \in All, NEW v \in Structs, th'[u].obj = v
        PROVE  /\ th'[v].state = "BIRTH"
               /\ th'[v].proc = IF th'[u].pc = "c_insert" THEN "none" ELSE "user"
               /\ th'[v].pc = "load" => u = Kernel /\ (th'[u].pc = "c_insert" => Empty')
    <3>1. CASE u = t
      <4>1. v = s
        BY <1>3, <1>5, <2>3, <3>1
      <4> QED BY <1>1, <1>3, <1>4, <1>5, <3>1, <4>1
    <3>2. CASE u # t
      <4>1. u # s /\ th'[u] = th[u] /\ th[u].obj = v
        BY <1>1, <1>4, <1>5, <1>11, <2>3, <3>2
      <4>2. v # s /\ v # t /\ v \in All /\ th[v].state = "BIRTH"
        BY <1>1, <1>11, <3>2, <4>1 DEF CreateInv
      <4>3. th'[v] = th[v]
        BY <1>5, <4>2
      <4>4. /\ th[v].proc = IF th[u].pc = "c_insert" THEN "none" ELSE "user"
            /\ th[v].pc = "load" => u = Kernel /\ (th[u].pc = "c_insert" => Empty)
        BY <1>11, <4>1 DEF CreateInv
      <4> QED BY <2>1, <3>2, <4>1, <4>2, <4>3, <4>4
    <3> QED BY <3>1, <3>2
  <2>4. \A u \in All : th'[u].obj = th[u].obj
    BY <1>3, <1>4, <1>5 DEF s
  <2>5. \A u, v \in All : th'[u].obj = th'[v].obj /\ th'[u].obj # None => u = v
    BY <1>11, <2>4 DEF CreateInv
  <2> QED BY <2>2, <2>3, <2>5 DEF CreateInv
<1> QED BY <1>8, <1>10, <1>15, <1>17, <1>18, <1>19 DEF ThreadInductive, SharedInv

(* The new thread can be resumed.                                          *)
LEMMA DoneKeeps ==
    ASSUME ThreadInductive, NEW c \in Cpus, CreateDone(c)
    PROVE  ThreadInductive'
<1> DEFINE t == cur[c]
           s == th[t].obj
           p == IF th[s].pc = "load" THEN "p_resume" ELSE After(t)
           i == IF th[s].pc = "load" THEN th[s].id ELSE 0
           r == [th[t] EXCEPT !.obj = None, !.tgt = i, !.pc = p]
           m == [th[s] EXCEPT !.state = "SUSPENDED"]
<1>1. /\ t # None /\ t \in All /\ th[t].pc = "c_done" /\ th[t].state = "RUNNING"
      /\ th[t].wait = "no" /\ th[t] \in ThreadRec /\ Shape(t, th[t])
      /\ th \in [All -> ThreadRec] /\ th[t].todo = {}
      /\ s \in Structs /\ s \in All /\ s # t /\ s # Kernel /\ s # None
      /\ th[s].state = "BIRTH" /\ th[s].pc \in {"load", "ret"} /\ th[s].obj = None
      /\ th[s].wait = "no" /\ th[s].todo = {} /\ th[s] \in ThreadRec /\ Shape(s, th[s])
      /\ th[s].proc = "user" /\ (th[s].pc = "load" => t = Kernel)
      /\ \A u \in All : th[u].obj = s => u = t
  BY CreateFacts DEF CreateDone
<1>2. UNCHANGED <<schedVars, next_id, sems, procVars, deathVars>>
  BY DEF CreateDone
<1>3. /\ r \in ThreadRec /\ r.pc = p /\ r.todo = th[t].todo
      /\ r.state = th[t].state /\ r.next = th[t].next /\ r.obj = None
      /\ r.hashed = th[t].hashed /\ r.stack = th[t].stack /\ r.wait = th[t].wait
      /\ r.proc = th[t].proc /\ r.id = th[t].id /\ r.sig = th[t].sig
  <2>1. p \in Pcs /\ i \in Nat
    BY <1>1 DEF After, Pcs, UserPcs, PlainPcs, KernelPcs, ThreadRec
  <2> HIDE DEF p, i
  <2> QED BY <1>1, <2>1 DEF ThreadRec
<1>4. /\ m \in ThreadRec /\ m.pc = th[s].pc /\ m.todo = th[s].todo
      /\ m.state = "SUSPENDED" /\ m.next = th[s].next /\ m.obj = th[s].obj
      /\ m.hashed = th[s].hashed /\ m.stack = th[s].stack /\ m.wait = th[s].wait
      /\ m.proc = th[s].proc /\ m.id = th[s].id /\ m.sig = th[s].sig
  BY <1>1 DEF ThreadRec, States
<1>5. /\ th' \in [All -> ThreadRec] /\ th'[t] = r /\ th'[s] = m
      /\ \A u \in All : u # t /\ u # s => th'[u] = th[u]
  <2>1. th' = [th EXCEPT ![s] = m, ![t] = r]
    BY <1>1 DEF CreateDone
  <2> HIDE DEF m, r
  <2> QED BY <1>1, <1>3, <1>4, <2>1
<1>6. p \in {"p_resume", After(t)} /\ (p = "p_resume" => t = Kernel) /\ p # "c_done"
      /\ p # "c_insert" /\ p # "p_create" /\ p # "x_wake"
  BY <1>1 DEF After
<1> HIDE DEF m, r, p, s
<1>7. Shape(t, r) /\ Waits(r)
  BY <1>1, <1>3, <1>6, CreatorShape
<1>8. Shape(s, m) /\ Waits(m)
  <2>1. StateShape(m) /\ HandShape(m)
    BY <1>1, <1>4 DEF Shape, StateShape, HandShape
  <2>2. ProcShape(m)
    BY <1>1, <1>4 DEF Shape, ProcShape, MainPcs, LatePcs
  <2> QED BY <1>1, <1>4, <2>1, <2>2 DEF Shape, Waits
<1>9. ShapeInv'
  BY <1>5, <1>7, <1>8 DEF ThreadInductive, ShapeInv
<1>10. \A u \in All : u # s => th'[u].state = th[u].state
  BY <1>3, <1>5
<1>11. /\ ProcInv /\ CreateInv /\ KillInv /\ IdInv /\ StackInv /\ Structs \subseteq All
       /\ ProcType /\ SchedInv /\ None \notin All
  BY ThreadAssumption DEF ThreadInductive, SharedInv, ProcInv, All
<1>12. SchedInv'
  <2>1. \A u, v \in All : Hand(th, u, v)' <=> Hand(th, u, v)
    BY <1>1, <1>3, <1>4, <1>5, <1>6 DEF Hand
  <2>2. cur' = cur /\ runq' = runq /\ dead_q' = dead_q
    BY <1>2 DEF schedVars
  <2>3. RunOK(th)'
    BY <1>1, <1>4, <1>5, <1>10, <1>11, <2>2 DEF SchedInv, RunOK
  <2>4. QueueOK(th, runq)'
    <3>1. ASSUME NEW u \in All
          PROVE  th'[u].state = "READY" <=> th[u].state = "READY"
      BY <1>1, <1>4, <1>5, <1>10
    <3> QED BY <1>11, <2>1, <2>2, <3>1 DEF SchedInv, QueueOK
  <2>5. DeadOK(th)'
    BY <1>1, <1>4, <1>5, <1>10, <1>11, <2>2 DEF SchedInv, DeadOK
  <2> QED BY <2>3, <2>4, <2>5 DEF SchedInv
<1>13. ASSUME NEW u \in All
       PROVE  /\ ProcRec(th[u], th'[u]) /\ KillRec(th[u], th'[u]) /\ StackRec(th[u], th'[u])
              /\ IdRec(th[u], th'[u])
              /\ DoomedThread(th[u]) => DoomedThread(th'[u])
  <2>1. CASE u = t
    BY <1>1, <1>3, <1>5, <1>6, <2>1, CreatorRest
  <2>2. CASE u = s
    BY <1>1, <1>4, <1>5, <2>2 DEF ProcRec, KillRec, StackRec, IdRec, DoomedThread
  <2>3. CASE u # t /\ u # s
    BY <1>5, <2>3, Rest
  <2> QED BY <2>1, <2>2, <2>3
<1>14. ProcInv' /\ StackInv' /\ IdInv' /\ KillInv'
  <2>1. proc' = proc /\ plock' = plock /\ proc.threads \subseteq All
    BY <1>2, <1>11 DEF procVars, ProcType
  <2>2. \A u \in proc'.threads : DoomedThread(th[u]) => DoomedThread(th'[u])
    BY <1>13, <2>1
  <2>3. ProcInv' /\ StackInv' /\ IdInv'
    BY <1>2, <1>11, <1>13, <2>1, ProcFrame, StackFrame, IdFrame
  <2>4. KillInv'
    BY <1>11, <1>13, <2>1, <2>2, KillFrame
  <2> QED BY <2>3, <2>4
<1>15. CreateInv'
  <2>0. Empty' <=> Empty
    BY <1>2 DEF Empty, procVars
  <2>1. th'[Kernel].pc = "p_create" => Empty'
    BY <1>1, <1>3, <1>5, <1>6, <1>11, <2>0 DEF CreateInv, All
  <2>2. ASSUME NEW u \in All, NEW v \in Structs, th'[u].obj = v
        PROVE  /\ th'[v].state = "BIRTH"
               /\ th'[v].proc = IF th'[u].pc = "c_insert" THEN "none" ELSE "user"
               /\ th'[v].pc = "load" => u = Kernel /\ (th'[u].pc = "c_insert" => Empty')
    <3>1. u # t /\ u # s
      BY <1>1, <1>3, <1>4, <1>5, <1>11, <2>2
    <3>2. th'[u] = th[u] /\ th[u].obj = v
      BY <1>5, <2>2, <3>1
    <3>3. v # s /\ v # t /\ v \in All /\ th[v].state = "BIRTH"
      BY <1>1, <1>11, <3>1, <3>2 DEF CreateInv
    <3>4. th'[v] = th[v]
      BY <1>5, <3>3
    <3> QED BY <1>11, <2>0, <3>2, <3>3, <3>4 DEF CreateInv
  <2>3. \A u \in All : u # t => th'[u].obj = th[u].obj
    BY <1>1, <1>4, <1>5
  <2>4. \A u, v \in All : th'[u].obj = th'[v].obj /\ th'[u].obj # None => u = v
    BY <1>3, <1>5, <1>11, <2>3 DEF CreateInv
  <2> QED BY <2>1, <2>2, <2>4 DEF CreateInv
<1> QED BY <1>9, <1>12, <1>14, <1>15 DEF ThreadInductive, SharedInv

(* The process is gone: the new thread goes, and who waited for it runs.   *)
LEMMA AbortKeeps ==
    ASSUME ThreadInductive, NEW c \in Cpus, CreateAbort(c)
    PROVE  ThreadInductive'
<1> DEFINE t == cur[c]
           s == th[t].obj
           W == {u \in All : th[u].wait = "thread" /\ th[u].tgt = th[s].id}
           r == [th[t] EXCEPT !.obj = None, !.pc = After(t)]
<1>1. /\ t # None /\ t \in All /\ th[t].pc = "c_insert" /\ th[t].state = "RUNNING"
      /\ th[t].wait = "no" /\ th[t] \in ThreadRec /\ Shape(t, th[t])
      /\ th \in [All -> ThreadRec] /\ th[t].todo = {}
      /\ s \in Structs /\ s \in All /\ s # t /\ s # Kernel /\ s # None
      /\ th[s].state = "BIRTH" /\ th[s].pc \in {"load", "ret"} /\ th[s].obj = None
      /\ th[s].wait = "no" /\ th[s].todo = {} /\ th[s] \in ThreadRec /\ Shape(s, th[s])
      /\ th[s].proc = "none"
      /\ \A u \in All : th[u].obj = s => u = t
  BY CreateFacts DEF CreateAbort
<1>2. /\ UNCHANGED <<cur, dead_q, next_id, procVars, deathVars>>
      /\ sems' = sems \ {th[s].id} /\ runq' = Enqueue(runq, W)
      /\ th' = [u \in All |-> IF u = s THEN NoThread
                              ELSE IF u \in W THEN WakeUp(th[u])
                              ELSE IF u = t THEN [th[u] EXCEPT !.obj = None, !.pc = After(t)]
                              ELSE th[u]]
  BY DEF CreateAbort
<1>3. /\ r \in ThreadRec /\ r.pc = After(t) /\ r.todo = th[t].todo
      /\ r.state = th[t].state /\ r.next = th[t].next /\ r.obj = None
      /\ r.hashed = th[t].hashed /\ r.stack = th[t].stack /\ r.wait = th[t].wait
      /\ r.proc = th[t].proc /\ r.id = th[t].id /\ r.sig = th[t].sig
  <2>1. After(t) \in Pcs
    BY DEF After, Pcs, UserPcs, PlainPcs
  <2> QED BY <1>1, <2>1 DEF ThreadRec
<1>4. /\ NoThread \in ThreadRec /\ NoThread.pc = "none" /\ NoThread.todo = {}
      /\ NoThread.state = "NONE" /\ NoThread.next = "NONE" /\ NoThread.obj = None
      /\ ~NoThread.hashed /\ NoThread.stack = 0 /\ NoThread.wait = "no"
      /\ NoThread.proc = "none" /\ NoThread.id = 0
  BY DEF NoThread, ThreadRec, States, Pcs
<1>5. ASSUME NEW u \in W
      PROVE  /\ u \in All /\ u # t /\ u # s /\ th[u].state = "WAITING" /\ th[u].wait = "thread"
             /\ Shape(u, th[u]) /\ WokenRec(th[u], WakeUp(th[u]))
  <2>1. u \in All /\ u # t /\ u # s /\ th[u].wait = "thread"
    BY <1>1, <1>5
  <2>2. Shape(u, th[u]) /\ Waits(th[u]) /\ th[u] \in ThreadRec
    BY <2>1 DEF ThreadInductive, ShapeInv
  <2>3. th[u].state = "WAITING"
    BY <2>1, <2>2 DEF Waits
  <2>4. WokenRec(th[u], WakeUp(th[u]))
    BY <2>2 DEF WokenRec, WakeUp, ThreadRec, States
  <2> QED BY <2>1, <2>2, <2>3, <2>4
<1>6. W \in SUBSET All /\ s \notin W /\ t \notin W
  BY <1>5
<1>7. /\ th'[t] = r /\ th'[s] = NoThread
      /\ \A u \in W : th'[u] = WakeUp(th[u])
      /\ \A u \in All : u # t /\ u # s /\ u \notin W => th'[u] = th[u]
  <2> HIDE DEF W
  <2> QED BY <1>1, <1>2, <1>5, <1>6
<1>8. th' \in [All -> ThreadRec]
  <2>1. ASSUME NEW u \in All
        PROVE  th'[u] \in ThreadRec
    <3>1. CASE u \in W
      BY <1>5, <1>7, <3>1 DEF WokenRec
    <3>2. CASE u \notin W
      <4> HIDE DEF W, r, s
      <4> QED BY <1>1, <1>3, <1>4, <1>7, <3>2
    <3> QED BY <3>1, <3>2
  <2> HIDE DEF W, s
  <2>2. DOMAIN th' = All /\ th' = [u \in All |-> th'[u]]
    BY <1>2
  <2> QED BY <2>1, <2>2
<1> HIDE DEF r, s, W
<1>9. Shape(t, r) /\ Waits(r)
  <2>1. r.pc \notin {"c_done", "p_resume"}
    BY <1>3 DEF After
  <2> QED BY <1>1, <1>3, <2>1, CreatorShape
<1>10. Shape(s, NoThread) /\ Waits(NoThread)
  <2>1. StateShape(NoThread) /\ HandShape(NoThread) /\ Waits(NoThread)
    BY <1>4 DEF StateShape, HandShape, Waits
  <2>2. ProcShape(NoThread)
    BY <1>4 DEF ProcShape, MainPcs, LatePcs, UserPcs, PlainPcs
  <2> QED BY <1>1, <1>4, <2>1, <2>2 DEF Shape
<1>11. ASSUME NEW u \in All
       PROVE  /\ Shape(u, th'[u]) /\ Waits(th'[u])
              /\ ProcRec(th[u], th'[u]) /\ KillRec(th[u], th'[u]) /\ StackRec(th[u], th'[u])
              /\ u # s => IdRec(th[u], th'[u])
              /\ DoomedThread(th[u]) => DoomedThread(th'[u]) \/ u = s
  <2>1. CASE u = t
    BY <1>1, <1>3, <1>7, <1>9, <2>1, CreatorRest
  <2>2. CASE u = s
    <3>1. ProcRec(th[s], NoThread) /\ KillRec(th[s], NoThread) /\ StackRec(th[s], NoThread)
      BY <1>1, <1>4 DEF ProcRec, KillRec, StackRec, MainPcs
    <3> QED BY <1>7, <1>10, <2>2, <3>1
  <2>3. CASE u \in W
    <3>1. WokenRec(th[u], th'[u]) /\ th[u].state = "WAITING" /\ th[u].wait # "death"
          /\ Shape(u, th[u])
      BY <1>5, <1>7, <2>3
    <3>2. Shape(u, th'[u]) /\ Waits(th'[u])
      BY <3>1, WokenShape
    <3>3. ProcRec(th[u], th'[u]) /\ KillRec(th[u], th'[u]) /\ StackRec(th[u], th'[u])
          /\ IdRec(th[u], th'[u]) /\ (DoomedThread(th[u]) => DoomedThread(th'[u]))
      BY <3>1, WokenRest
    <3> QED BY <3>2, <3>3
  <2>4. CASE u # t /\ u # s /\ u \notin W
    BY <1>7, <2>4, Rest DEF ThreadInductive, ShapeInv
  <2> QED BY <2>1, <2>2, <2>3, <2>4
<1>12. ShapeInv'
  BY <1>8, <1>11 DEF ShapeInv
<1>13. /\ ProcInv /\ CreateInv /\ KillInv /\ IdInv /\ StackInv /\ Structs \subseteq All
       /\ ProcType /\ SchedInv /\ None \notin All
  BY ThreadAssumption DEF ThreadInductive, SharedInv, ProcInv, All
<1>14. \A u \in All : u # s => th'[u].state = IF u \in W THEN "READY" ELSE th[u].state
  BY <1>1, <1>3, <1>5, <1>7 DEF WokenRec
<1>15. SchedInv'
  <2>1. \A u, v \in All : Hand(th, u, v)' <=> Hand(th, u, v)
    <3>1. ASSUME NEW u \in All, NEW v \in All
          PROVE  Hand(th, u, v)' <=> Hand(th, u, v)
      <4>1. CASE u = t
        BY <1>1, <1>3, <1>7, <4>1 DEF Hand
      <4>2. CASE u = s
        BY <1>1, <1>4, <1>7, <4>2 DEF Hand
      <4>3. CASE u \in W
        BY <1>5, <1>7, <4>3 DEF Hand, WokenRec
      <4>4. CASE u # t /\ u # s /\ u \notin W
        BY <1>7, <4>4 DEF Hand
      <4> QED BY <4>1, <4>2, <4>3, <4>4
    <3> QED BY <3>1
  <2>2. cur' = cur /\ dead_q' = dead_q
    BY <1>2
  <2>3. runq \in [All -> {0, 1}] /\ \A u \in W : runq[u] = 0
    BY <1>5, <1>13 DEF SchedInv, QueueOK
  <2>4. /\ runq' \in [All -> {0, 1}]
        /\ \A u \in All : runq'[u] = IF u \in W THEN 1 ELSE runq[u]
    <3>1. runq' = Enqueue(runq, W)
      BY <1>2
    <3> QED BY <1>6, <2>3, <3>1, EnqueueFacts
  <2>5. RunOK(th)'
    BY <1>1, <1>4, <1>5, <1>7, <1>13, <1>14, <2>2 DEF SchedInv, RunOK
  <2>6. QueueOK(th, runq)'
    <3>1. ASSUME NEW u \in All
          PROVE  /\ th'[u].state = "READY" <=> runq'[u] = 1 \/ \E v \in All : Hand(th, v, u)'
                 /\ \A v \in All : Hand(th, v, u)' => runq'[u] = 0
      <4>1. /\ th[u].state = "READY" <=> runq[u] = 1 \/ \E v \in All : Hand(th, v, u)
            /\ \A v \in All : Hand(th, v, u) => runq[u] = 0
        BY <1>13 DEF SchedInv, QueueOK
      <4>2. CASE u \in W
        BY <1>5, <1>14, <2>1, <2>4, <4>1, <4>2
      <4>3. CASE u = s
        BY <1>1, <1>4, <1>6, <1>7, <2>1, <2>4, <4>1, <4>3
      <4>4. CASE u # s /\ u \notin W
        BY <1>14, <2>1, <2>4, <4>1, <4>4
      <4> QED BY <4>2, <4>3, <4>4
    <3>2. \A v, u, w \in All : Hand(th, u, v)' /\ Hand(th, w, v)' => u = w
      BY <1>13, <2>1 DEF SchedInv, QueueOK
    <3> QED BY <2>4, <3>1, <3>2 DEF QueueOK
  <2>7. DeadOK(th)'
    BY <1>1, <1>4, <1>5, <1>7, <1>13, <1>14, <2>2 DEF SchedInv, DeadOK
  <2> QED BY <2>5, <2>6, <2>7 DEF SchedInv
<1>16. proc' = proc /\ plock' = plock /\ (Empty' <=> Empty)
  BY <1>2 DEF procVars, Empty
<1>17. ProcInv' /\ StackInv'
  BY <1>2, <1>11, <1>13, <1>16, ProcFrame, StackFrame
<1>18. KillInv'
  <2>1. proc.threads \subseteq All /\ s \notin proc.threads
    BY <1>1, <1>13 DEF ProcInv, ProcType
  <2>2. \A u \in proc'.threads : DoomedThread(th[u]) => DoomedThread(th'[u])
    BY <1>11, <1>16, <2>1
  <2> QED BY <1>11, <1>13, <1>16, <2>2, KillFrame
<1>19. IdInv'
  <2>1. ASSUME NEW u \in All
        PROVE  /\ th'[u].id < next_id
               /\ th'[u].pc \in LatePcs \cup {"x_put"} => th'[u].id \notin sems'
    <3>1. CASE u = s
      <4>1. th'[u].id = 0 /\ th'[u].pc = "none"
        BY <1>4, <1>7, <3>1
      <4>2. next_id \in 1 .. MaxId + 1
        BY <1>13 DEF IdInv
      <4> QED BY <4>1, <4>2, ThreadAssumption DEF LatePcs
    <3>2. CASE u # s
      <4>1. IdRec(th[u], th'[u]) /\ sems' \subseteq sems
        BY <1>2, <1>11, <3>2
      <4>2. /\ th[u].id < next_id
            /\ th[u].pc \in LatePcs \cup {"x_put"} => th[u].id \notin sems
        BY <1>13 DEF IdInv
      <4> QED BY <4>1, <4>2 DEF IdRec
    <3> QED BY <3>1, <3>2
  <2> QED BY <1>2, <1>13, <2>1 DEF IdInv
<1>20. CreateInv'
  <2>1. ASSUME NEW u \in All, u # s
        PROVE  /\ th'[u].obj = IF u = t THEN None ELSE th[u].obj
               /\ th'[u].pc = IF u = t THEN After(t) ELSE th[u].pc
               /\ th'[u].proc = th[u].proc
    <3>1. CASE u = t
      BY <1>3, <1>7, <3>1
    <3>2. CASE u \in W
      BY <1>5, <1>7, <3>2 DEF WokenRec
    <3>3. CASE u # t /\ u \notin W
      BY <1>7, <2>1, <3>3
    <3> QED BY <3>1, <3>2, <3>3
  <2>2. After(t) # "p_create" /\ After(t) # "load"
    BY DEF After
  <2>3. th'[Kernel].pc = "p_create" => Empty'
    BY <1>1, <1>13, <1>16, <2>1, <2>2 DEF CreateInv, All
  <2>4. ASSUME NEW u \in All, NEW v \in Structs, th'[u].obj = v
        PROVE  /\ th'[v].state = "BIRTH"
               /\ th'[v].proc = IF th'[u].pc = "c_insert" THEN "none" ELSE "user"
               /\ th'[v].pc = "load" => u = Kernel /\ (th'[u].pc = "c_insert" => Empty')
    <3>1. u # t /\ u # s
      BY <1>1, <1>3, <1>4, <1>7, <1>13, <2>4
    <3>2. th'[u].pc = th[u].pc /\ th[u].obj = v
      BY <2>1, <2>4, <3>1
    <3>3. v # s /\ v # t /\ v \in All /\ th[v].state = "BIRTH"
      BY <1>1, <1>13, <3>1, <3>2 DEF CreateInv
    <3>4. v \notin W
      BY <1>5, <3>3
    <3>5. th'[v] = th[v]
      BY <1>7, <3>3, <3>4
    <3> QED BY <1>13, <1>16, <3>2, <3>3, <3>5 DEF CreateInv
  <2>5. \A u, v \in All : th'[u].obj = th'[v].obj /\ th'[u].obj # None => u = v
    <3>1. \A u \in All : th'[u].obj # None => u # s /\ th'[u].obj = th[u].obj
      BY <1>1, <1>4, <1>7, <2>1
    <3> QED BY <1>13, <3>1 DEF CreateInv
  <2> QED BY <2>3, <2>4, <2>5 DEF CreateInv
<1> QED BY <1>12, <1>15, <1>17, <1>18, <1>19, <1>20 DEF ThreadInductive, SharedInv

-----------------------------------------------------------------------------
(* The invariant holds at the start.                                       *)
LEMMA InitInductive ==
    Init => ThreadInductive
<1> SUFFICES ASSUME Init PROVE ThreadInductive
  OBVIOUS
<1> DEFINE k == [NoThread EXCEPT !.state = "READY", !.next = "READY", !.hashed = TRUE,
                                 !.proc = "kernel", !.pc = "kern"]
<1>0. Structs \subseteq All /\ Kernel \in All /\ Kernel \notin Structs /\ None \notin All
      /\ \A t \in All : t # Kernel => t \in Structs
  BY ThreadAssumption DEF All
<1>1. /\ NoThread \in ThreadRec /\ NoThread.pc = "none" /\ NoThread.todo = {}
      /\ NoThread.state = "NONE" /\ NoThread.next = "NONE" /\ NoThread.obj = None
      /\ ~NoThread.hashed /\ NoThread.wait = "no" /\ NoThread.proc = "none" /\ NoThread.id = 0
  BY DEF NoThread, ThreadRec, States, Pcs
<1>2. /\ k \in ThreadRec /\ k.pc = "kern" /\ k.todo = {} /\ k.state = "READY"
      /\ k.next = "READY" /\ k.obj = None /\ k.wait = "no" /\ k.proc = "kernel" /\ k.id = 0
  BY DEF NoThread, ThreadRec, States, Pcs, KernelPcs
<1>3. th = [t \in All |-> IF t = Kernel THEN k ELSE NoThread]
  BY DEF Init
<1> HIDE DEF k
<1>4. th \in [All -> ThreadRec] /\ th[Kernel] = k /\ \A t \in Structs : th[t] = NoThread
  BY <1>0, <1>1, <1>2, <1>3
<1>5. ShapeInv
  <2>1. Shape(Kernel, k) /\ Waits(k)
    <3>1. StateShape(k) /\ HandShape(k) /\ Waits(k)
      BY <1>2 DEF StateShape, HandShape, Waits
    <3> QED BY <1>2, <3>1 DEF Shape, KernelPcs
  <2>2. ASSUME NEW t \in Structs
        PROVE  Shape(t, NoThread) /\ Waits(NoThread)
    <3>1. StateShape(NoThread) /\ HandShape(NoThread) /\ Waits(NoThread)
      BY <1>1 DEF StateShape, HandShape, Waits
    <3>2. ProcShape(NoThread)
      BY <1>1 DEF ProcShape, MainPcs, LatePcs, UserPcs, PlainPcs
    <3> QED BY <1>0, <1>1, <3>1, <3>2 DEF Shape
  <2> QED BY <1>0, <1>4, <2>1, <2>2 DEF ShapeInv
<1>6. \A t \in All : /\ th[t].state # "RUNNING" /\ th[t].state # "FREE" /\ th[t].todo = {}
                     /\ th[t].state = "READY" <=> t = Kernel
                     /\ th[t].obj = None /\ th[t].id = 0
                     /\ th[t].pc \in {"kern", "none"} /\ th[t].proc \in {"kernel", "none"}
  BY <1>0, <1>1, <1>2, <1>4
<1>7. SchedInv
  <2>1. cur = [c \in Cpus |-> None] /\ dead_q = {}
        /\ runq = [t \in All |-> IF t = Kernel THEN 1 ELSE 0]
    BY DEF Init
  <2>2. \A u, v \in All : ~Hand(th, u, v)
    BY <1>6 DEF Hand
  <2>3. RunOK(th)
    BY <1>6, <2>1 DEF RunOK
  <2>4. QueueOK(th, runq)
    BY <1>6, <2>1, <2>2 DEF QueueOK
  <2>5. DeadOK(th)
    BY <1>0, <1>6, <2>1 DEF DeadOK
  <2> QED BY <2>3, <2>4, <2>5 DEF SchedInv
<1>8. /\ proc.threads = {} /\ proc.state = "none" /\ ~proc.alloc /\ ~proc.hashed
      /\ proc.main = None /\ ProcType
  BY DEF Init, NoProc, ProcType
<1>9. ProcInv /\ CreateInv
  <2>1. ProcInv
    BY <1>0, <1>6, <1>8 DEF ProcInv, MainPcs
  <2>2. CreateInv
    BY <1>0, <1>6 DEF CreateInv
  <2> QED BY <2>1, <2>2
<1>10. KillInv
  BY <1>0, <1>6 DEF Init, KillInv
<1>11. StackInv
  <2>1. bitmap = {} /\ free = Cardinality(Stacks) /\ jam = FALSE
    BY DEF Init
  <2>2. Bits = {} /\ \A t \in Structs : ~OnStack(t)
    BY <1>0, <1>6 DEF Bits, OnStack
  <2>3. Cardinality(Stacks) \in Nat /\ Cardinality({}) = 0
    <3>1. IsFiniteSet(Stacks)
      BY ThreadAssumption, FS_CardinalityType, FS_Interval DEF Stacks
    <3> QED BY <3>1, FS_CardinalityType, FS_EmptySet
  <2>4. Cardinality(bitmap) = 0 /\ Cardinality(Bits) = 0 /\ free \in Nat
    BY <2>1, <2>2, <2>3
  <2>5. free + Cardinality(bitmap) + Cardinality(Bits) = Cardinality(Stacks)
    BY <2>1, <2>3, <2>4
  <2>6. \A i \in Stacks : i \in bitmap <=> \E t \in Structs : OnStack(t) /\ th[t].stack = i
    BY <2>1, <2>2
  <2> QED BY <2>1, <2>2, <2>4, <2>5, <2>6 DEF StackInv
<1>12. IdInv
  BY <1>6, ThreadAssumption DEF Init, IdInv, LatePcs
<1> QED BY <1>5, <1>7, <1>9, <1>10, <1>11, <1>12 DEF ThreadInductive, SharedInv

(* Every step keeps it.                                                    *)
LEMMA CallKeeps ==
    ASSUME ThreadInductive, NEW c \in Cpus, Call(c), PriorityLate
    PROVE  ThreadInductive'
<1>1. On(c, "kern") /\ cur[c] # None /\ th[cur[c]].pc = "kern"
  BY DEF Call, On
<1>2. ASSUME NEW u \in Structs, thread_suspend_thread(c, u)
      PROVE  ThreadInductive'
  BY <1>1, <1>2, SuspendKeeps
<1>3. ASSUME NEW u \in Structs, thread_resume_thread(c, u)
      PROVE  ThreadInductive'
  BY <1>1, <1>3, ResumeKeeps
<1>4. ASSUME NEW u \in Structs, thread_set_priority(c, u)
      PROVE  ThreadInductive'
  BY <1>1, <1>4, PriorityKeeps
<1>5. ASSUME NEW u \in Structs, NEW wait \in BOOLEAN, Kill(c, u, wait)
      PROVE  ThreadInductive'
  BY <1>1, <1>5, KillKeeps
<1>6. ASSUME NEW u \in Structs, thread_wait_on_thread(c, u)
      PROVE  ThreadInductive'
  BY <1>1, <1>6, WaitCallKeeps
<1>7. ASSUME ProcCall(c, "w_look") \/ ProcCall(c, "k_main")
      PROVE  ThreadInductive'
  BY <1>1, <1>7, ProcCallKeeps
<1>8. ASSUME thread_snooze(c) \/ InterruptibleWait(c) \/ exit(c)
      PROVE  ThreadInductive'
  BY <1>1, <1>8, SnoozeKeeps, InterruptibleKeeps, ExitCallKeeps
<1> QED BY <1>2, <1>3, <1>4, <1>5, <1>6, <1>7, <1>8 DEF Call

(* A thread goes on inside the kernel.                                     *)
LEMMA StepKeeps ==
    ASSUME ThreadInductive, NEW c \in Cpus, Step(c)
    PROVE  ThreadInductive'
<1>1. CASE thread_atkernel_exit(c) \/ CreateInsert(c) \/ CreateAbort(c) \/ CreateDone(c)
  BY <1>1, LeaveKeeps, InsertKeeps, AbortKeeps, DoneKeeps
<1>2. CASE ProcResume(c) \/ proc_create_proc2(c) \/ WaitLook(c) \/ WaitAcquire(c) \/ KillMain(c)
  BY <1>2, ProcResumeKeeps, LoadKeeps, WaitLookKeeps, WaitAcquireKeeps, KillMainKeeps
<1>3. CASE ExitMove(c) \/ ExitKill(c) \/ ExitKillNext(c) \/ ExitKillDone(c) \/ ExitWait(c)
  BY <1>3, ExitMoveKeeps, ExitKillKeeps, ExitKillNextKeeps, ExitKillDoneKeeps, ExitWaitKeeps
<1>4. CASE ExitFree(c) \/ ExitSem(c) \/ ExitWake(c) \/ ExitStack(c)
  BY <1>4, ExitFreeKeeps, ExitSemKeeps, ExitWakeKeeps, ExitStackKeeps
<1>5. CASE ExitBit(c) \/ ExitUnlist(c) \/ ExitPut(c)
  BY <1>5, ExitBitKeeps, ExitUnlistKeeps, ExitPutKeeps
<1> QED BY <1>1, <1>2, <1>3, <1>4, <1>5 DEF Step

(* Every step of thread.c keeps the invariant.                             *)
LEMMA NextKeeps ==
    ThreadInductive /\ [NextLate]_vars => ThreadInductive'
<1> SUFFICES ASSUME ThreadInductive, [NextLate]_vars PROVE ThreadInductive'
  OBVIOUS
<1>1. CASE NextLate
  <2>1. ASSUME NEW c \in Cpus, Preempt(c) \/ Interrupt(c) \/ thread_atkernel_entry(c)
        PROVE  ThreadInductive'
    BY <2>1, PreemptKeeps, InterruptKeeps, EntryKeeps
  <2>2. ASSUME NEW c \in Cpus, Step(c)
        PROVE  ThreadInductive'
    BY <2>2, StepKeeps
  <2>3. ASSUME NEW c \in Cpus, Call(c)
        PROVE  ThreadInductive'
    BY <1>1, <2>3, CallKeeps DEF NextLate
  <2>4. ASSUME NEW c \in Cpus, proc_create_proc(c) \/ create_thread_struct(c)
        PROVE  ThreadInductive'
    BY <2>4, ProcCreateKeeps, StructKeeps
  <2>5. ASSUME NEW t \in All, Wake(t)
        PROVE  ThreadInductive'
    BY <2>5, WakeKeeps
  <2> QED BY <1>1, <2>1, <2>2, <2>3, <2>4, <2>5 DEF NextLate, Next
<1>2. CASE UNCHANGED vars
  <2>1. ShapeInv' /\ SchedInv'
    BY <1>2 DEF vars, ThreadInductive, ShapeInv, SchedInv, RunOK, QueueOK, DeadOK, Hand
  <2>2. ProcInv' /\ CreateInv'
    BY <1>2 DEF vars, ThreadInductive, SharedInv, ProcInv, ProcType, CreateInv, Empty
  <2>3. KillInv' /\ IdInv'
    BY <1>2 DEF vars, ThreadInductive, SharedInv, KillInv, IdInv
  <2>4. StackInv'
    BY <1>2 DEF vars, ThreadInductive, SharedInv, StackInv, OnStack, Bits
  <2> QED BY <2>1, <2>2, <2>3, <2>4 DEF ThreadInductive, SharedInv
<1> QED BY <1>1, <1>2

(* The inductive invariant of all threads, their process and their death   *)
(* stacks.                                                                 *)
THEOREM ThreadInvariant ==
    SpecLate => []ThreadInductive
<1>1. Init => ThreadInductive
  BY InitInductive
<1>2. ThreadInductive /\ [NextLate]_vars => ThreadInductive'
  BY NextKeeps
<1> QED BY <1>1, <1>2, PTL DEF SpecLate

(* Through every resume, kill, wakeup, wait, thread_resched and exit a     *)
(* struct thread is in one place; what create_thread_struct takes from     *)
(* dead_q is in no other list.                                             *)
THEOREM InOnePlace ==
    SpecLate => []ThreadInOnePlace
<1>1. ThreadInductive => ThreadInOnePlace
  <2> SUFFICES ASSUME ThreadInductive PROVE ThreadInOnePlace
    OBVIOUS
  <2>0. Structs \subseteq All /\ None \notin All
    BY ThreadAssumption DEF All
  <2>1. ASSUME NEW t \in All
        PROVE  th[t] \in ThreadRec /\ Shape(t, th[t]) /\ Waits(th[t])
    BY DEF ThreadInductive, ShapeInv
  <2>2. /\ SchedInv /\ RunOK(th) /\ QueueOK(th, runq) /\ DeadOK(th) /\ ProcInv /\ CreateInv
        /\ KillInv /\ StackInv /\ IdInv
    BY DEF ThreadInductive, SchedInv, SharedInv
  <2>3. ThreadTypeOK
    <3>1. \A t \in All : /\ th[t].state \in States /\ th[t].next \in States
                         /\ th[t].sig \subseteq {"KILL", "SUSPEND"}
                         /\ th[t].todo \subseteq All /\ th[t].stack \in {0} \cup Stacks
      BY <2>1 DEF ThreadRec
    <3>2. cur \in [Cpus -> All \cup {None}] /\ runq \in [All -> {0, 1}] /\ dead_q \subseteq Structs
      BY <2>2 DEF RunOK, QueueOK, DeadOK
    <3>3. proc.threads \subseteq Structs /\ proc.main \in Structs \cup {None}
      BY <2>2 DEF ProcInv, ProcType
    <3>4. plock \in All \cup {None}
      BY <2>2 DEF KillInv
    <3>5. sems \subseteq 1 .. MaxId /\ next_id \in 1 .. MaxId + 1
      BY <2>2, ThreadAssumption DEF IdInv
    <3>6. bitmap \subseteq Stacks /\ free \in Nat /\ jam \in BOOLEAN
      BY <2>2 DEF StackInv
    <3> QED BY <3>1, <3>2, <3>3, <3>4, <3>5, <3>6 DEF ThreadTypeOK
  <2>4. \A t \in All : t \in Woken <=> \E u \in All : Hand(th, u, t)
    BY DEF Woken, Hand
  <2>5. OnePlace
    <3>1. ASSUME NEW t \in All
          PROVE  runq[t] + (IF t \in Woken THEN 1 ELSE 0) =
                     (IF th[t].state = "READY" THEN 1 ELSE 0)
      <4>1. /\ th[t].state = "READY" <=> runq[t] = 1 \/ t \in Woken
            /\ t \in Woken => runq[t] = 0
            /\ runq[t] \in {0, 1}
        BY <2>2, <2>4 DEF QueueOK
      <4> QED BY <4>1
    <3>2. ASSUME NEW t \in All
          PROVE  Cardinality({c \in Cpus : cur[c] = t}) =
                     (IF th[t].state = "RUNNING" THEN 1 ELSE 0)
      <4>1. CASE th[t].state = "RUNNING"
        <5>1. PICK c \in Cpus : cur[c] = t
          BY <2>2, <4>1 DEF RunOK
        <5>2. {d \in Cpus : cur[d] = t} = {c}
          BY <2>0, <2>2, <5>1 DEF RunOK
        <5> QED BY <4>1, <5>2, FS_Singleton
      <4>2. CASE th[t].state # "RUNNING"
        <5>1. {d \in Cpus : cur[d] = t} = {}
          BY <2>0, <2>2, <4>2 DEF RunOK
        <5> QED BY <4>2, <5>1, FS_EmptySet
      <4> QED BY <4>1, <4>2
    <3> QED BY <3>1, <3>2 DEF OnePlace
  <2>6. DeadIsDead
    <3>1. ASSUME NEW t \in dead_q
          PROVE  /\ th[t].state = "FREE" /\ ~th[t].hashed /\ runq[t] = 0
                 /\ th[t].id \notin sems /\ t \notin proc.threads
                 /\ \A u \in All : t \notin th[u].todo /\ th[u].obj # t
      <4>1. t \in Structs /\ t \in All /\ t # Kernel /\ th[t].state = "FREE"
        BY <2>0, <2>2, <3>1, ThreadAssumption DEF DeadOK
      <4>2. th[t].pc = "x_put"
        BY <2>1, <4>1 DEF Shape, StateShape
      <4>3. ~th[t].hashed /\ th[t].proc = "none"
        BY <2>1, <4>1, <4>2 DEF Shape, ProcShape
      <4>4. runq[t] = 0
        BY <2>2, <4>1 DEF QueueOK
      <4>5. th[t].id \notin sems /\ t \notin proc.threads
        BY <2>2, <4>1, <4>2, <4>3 DEF IdInv, ProcInv
      <4>6. ASSUME NEW u \in All, t \in th[u].todo
            PROVE  FALSE
        <5>1. th[u].pc \in {"x_killing", "x_wake"}
          BY <2>1, <4>6 DEF Shape, HandShape
        <5>2. u # Kernel
          BY <2>1, <5>1 DEF Shape, KernelPcs
        <5>3. u \in Structs
          BY <5>2 DEF All
        <5>4. CASE th[u].pc = "x_killing"
          BY <2>2, <4>5, <4>6, <5>3, <5>4 DEF KillInv
        <5>5. CASE th[u].pc = "x_wake"
          BY <2>2, <4>1, <4>6, <5>5 DEF QueueOK, Hand
        <5> QED BY <5>1, <5>4, <5>5
      <4>7. \A u \in All : th[u].obj # t
        BY <2>2, <4>1 DEF CreateInv
      <4> QED BY <4>1, <4>3, <4>4, <4>5, <4>6, <4>7
    <3> QED BY <3>1 DEF DeadIsDead
  <2> QED BY <2>3, <2>5, <2>6 DEF ThreadInOnePlace
<1> QED BY <1>1, ThreadInvariant, PTL

(* A main thread frees its process only after every other thread of it,    *)
(* and from the moment it has killed them nobody is missed or joins.       *)
THEOREM EndsLast ==
    SpecLate => []ProcessEndsLast
<1>1. ThreadInductive => ProcessEndsLast
  <2> SUFFICES ASSUME ThreadInductive PROVE ProcessEndsLast
    OBVIOUS
  <2>1. ProcInv /\ ProcType /\ KillInv /\ Structs \subseteq All
    BY DEF ThreadInductive, SharedInv, ProcInv, All
  <2>2. ASSUME NEW t \in All, th[t].pc \in {"x_kill", "x_killing", "x_wait", "x_free"}
        PROVE  proc.alloc /\ proc.main = t
    <3>1. t # Kernel
      BY <2>2 DEF ThreadInductive, ShapeInv, Shape, KernelPcs
    <3>2. t \in Structs /\ th[t].pc \in MainPcs
      BY <2>2, <3>1 DEF All, MainPcs
    <3> QED BY <2>1, <3>2 DEF ProcInv
  <2>3. ProcKept
    BY <2>1, <2>2 DEF ProcKept, ProcInv
  <2>4. Doomed
    <3>1. ASSUME NEW t \in Structs, th[t].pc \in {"x_wait", "x_free"}, NEW u \in proc.threads
          PROVE  DoomedThread(th[u])
      BY <2>1, <3>1 DEF KillInv, ProcInv
    <3> QED BY <3>1 DEF Doomed, DoomedThread
  <2> QED BY <2>3, <2>4 DEF ProcessEndsLast
<1> QED BY <1>1, ThreadInvariant, PTL

(* A death stack has one user from get_death_stack to                      *)
(* put_death_stack_and_reschedule, and the units of the semaphore, the     *)
(* bitmap and the threads agree.                                           *)
THEOREM DeathStacksAgree ==
    SpecLate => []DeathStacks
<1>1. ThreadInductive => DeathStacks
  <2> SUFFICES ASSUME ThreadInductive PROVE DeathStacks
    OBVIOUS
  <2>1. StackInv /\ DeadOK(th) /\ Structs \subseteq All
    BY DEF ThreadInductive, SharedInv, SchedInv, All
  <2>2. \A t \in Structs : t \in Dying <=> OnStack(t)
    BY <2>1 DEF Dying, OnStack, DeadOK
  <2>3. \A t, u \in Dying : th[t].stack = th[u].stack => t = u
    BY <2>1, <2>2 DEF StackInv, Dying
  <2>4. \A t \in Dying : th[t].stack \in Stacks
    BY <2>1, <2>2 DEF OnStack, ThreadInductive, ShapeInv, Shape, HandShape, ThreadRec, Dying
  <2>5. bitmap = {th[t].stack : t \in Dying}
    <3>1. ASSUME NEW i \in bitmap
          PROVE  i \in {th[t].stack : t \in Dying}
      BY <2>1, <2>2, <3>1 DEF StackInv, Dying
    <3>2. ASSUME NEW t \in Dying
          PROVE  th[t].stack \in bitmap
      BY <2>1, <2>2, <2>4, <3>2 DEF StackInv, Dying
    <3> QED BY <3>1, <3>2
  <2>6. free + Cardinality(bitmap) +
           Cardinality({t \in Structs : th[t].pc = "x_bit" /\ th[t].wait = "no"})
             = Cardinality(Stacks)
    BY <2>1 DEF StackInv, Bits
  <2> QED BY <2>3, <2>5, <2>6 DEF DeathStacks
<1> QED BY <1>1, ThreadInvariant, PTL
=============================================================================
