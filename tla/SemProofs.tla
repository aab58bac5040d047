----------------------------- MODULE SemProofs -----------------------------
(***************************************************************************)
(* Theorems about Sem for any numbers of threads, CPUs and semaphores: no  *)
(* thread is lost, and sem.c implements the counting semaphores of SemSpec *)
(* when every acquire takes one unit and keeps the books of the units when *)
(* acquires take several and every wait ends in a release or a deletion.   *)
(***************************************************************************)
EXTENDS SemRefinement, SemInv, ListLemmas

(* Facts about the wait queues as sequences.                               *)

(* The elements of a queue of threads are threads, each at some place.     *)
LEMMA ElemsFacts ==
    ASSUME NEW S, NEW q \in Seq(S)
    PROVE  /\ Elems(q) \subseteq S
           /\ \A i \in 1 .. Len(q) : q[i] \in Elems(q)
           /\ q = <<>> <=> Elems(q) = {}
           /\ q # <<>> => Len(q) > 0 /\ Head(q) \in Elems(q)
<1>1. Len(q) \in Nat /\ \A i \in 1 .. Len(q) : q[i] \in S
  OBVIOUS
<1>2. Elems(q) \subseteq S /\ \A i \in 1 .. Len(q) : q[i] \in Elems(q)
  BY <1>1 DEF Elems
<1>3. q # <<>> => Len(q) > 0 /\ Head(q) = q[1]
  OBVIOUS
<1>4. q = <<>> => Elems(q) = {}
  BY DEF Elems
<1> QED BY <1>1, <1>2, <1>3, <1>4

(* thread_enqueue adds the thread at the end.                              *)
LEMMA AppendFacts ==
    ASSUME NEW S, NEW q \in Seq(S), NEW t \in S, t \notin Elems(q)
    PROVE  /\ Append(q, t) \in Seq(S)
           /\ Elems(Append(q, t)) = Elems(q) \cup {t}
           /\ Len(Append(q, t)) = Len(q) + 1
           /\ NoRepeats(q) => NoRepeats(Append(q, t))
BY DEF Elems, NoRepeats

(* thread_dequeue takes the first thread.                                  *)
LEMMA TailFacts ==
    ASSUME NEW S, NEW q \in Seq(S), q # <<>>, NoRepeats(q)
    PROVE  /\ Tail(q) \in Seq(S)
           /\ Head(q) \in S
           /\ Elems(Tail(q)) = Elems(q) \ {Head(q)}
           /\ Len(Tail(q)) = Len(q) - 1
           /\ NoRepeats(Tail(q))
<1>1. /\ Tail(q) \in Seq(S) /\ Len(Tail(q)) = Len(q) - 1 /\ Len(q) \in Nat \ {0}
      /\ Head(q) = q[1] /\ q[1] \in S
      /\ \A i \in 1 .. Len(q) - 1 : Tail(q)[i] = q[i + 1]
  OBVIOUS
<1>2. NoRepeats(Tail(q))
  BY <1>1 DEF NoRepeats
<1>3. Elems(Tail(q)) \subseteq Elems(q) \ {Head(q)}
  BY <1>1 DEF Elems, NoRepeats
<1>4. ASSUME NEW x \in Elems(q) \ {Head(q)} PROVE x \in Elems(Tail(q))
  <2>1. PICK i \in 2 .. Len(q) : q[i] = x
    BY <1>1 DEF Elems
  <2>2. i - 1 \in 1 .. Len(q) - 1 /\ Tail(q)[i - 1] = x
    BY <1>1, <2>1
  <2> QED BY <1>1, <2>2 DEF Elems
<1> QED BY <1>1, <1>2, <1>3, <1>4

(* thread_dequeue_id takes the named thread and keeps the order.           *)
LEMMA WithoutFacts ==
    ASSUME NEW S, NEW q \in Seq(S), NEW t \in Elems(q), NoRepeats(q)
    PROVE  /\ Without(q, t) \in Seq(S)
           /\ Elems(Without(q, t)) = Elems(q) \ {t}
           /\ Len(Without(q, t)) = Len(q) - 1
           /\ NoRepeats(Without(q, t))
<1> DEFINE k == CHOOSE i \in 1 .. Len(q) : q[i] = t
           w == [j \in 1 .. Len(q) - 1 |-> IF j < k THEN q[j] ELSE q[j + 1]]
<1>1. k \in 1 .. Len(q) /\ q[k] = t
  BY DEF Elems
<1>2. Len(q) \in Nat /\ Len(q) - 1 \in Nat /\ \A i \in 1 .. Len(q) : q[i] \in S
  BY <1>1
<1> HIDE DEF k
<1>3. w \in Seq(S) /\ Len(w) = Len(q) - 1
  BY <1>1, <1>2
<1>4. ASSUME NEW j \in 1 .. Len(q) - 1
      PROVE  /\ j < k => w[j] = q[j] /\ j \in 1 .. Len(q)
             /\ ~(j < k) => w[j] = q[j + 1] /\ j + 1 \in 1 .. Len(q)
  BY <1>1, <1>2
<1>5. NoRepeats(w)
  BY <1>1, <1>2, <1>3, <1>4 DEF NoRepeats
<1>6. Elems(w) \subseteq Elems(q) \ {t}
  BY <1>1, <1>2, <1>3, <1>4 DEF Elems, NoRepeats
<1>7. ASSUME NEW x \in Elems(q) \ {t} PROVE x \in Elems(w)
  <2>1. PICK i \in 1 .. Len(q) : q[i] = x /\ i # k
    BY <1>1 DEF Elems
  <2>2. CASE i < k
    BY <1>1, <1>2, <1>3, <2>1, <2>2 DEF Elems
  <2>3. CASE i > k
    <3>1. i - 1 \in 1 .. Len(q) - 1 /\ ~(i - 1 < k) /\ (i - 1) + 1 = i
      BY <1>1, <1>2, <2>1, <2>3
    <3> QED BY <3>1, <1>3, <2>1 DEF Elems
  <2> QED BY <1>1, <2>1, <2>2, <2>3
<1> QED BY <1>3, <1>5, <1>6, <1>7 DEF Without, k

-----------------------------------------------------------------------------
(* Types.                                                                  *)

(* thread_resched leaves well-typed scheduler state.                       *)
LEMMA ReschedTypes ==
    ASSUME TypeOK, NEW c \in Cpus, NEW ready \in SUBSET Threads,
           Resched(c, ready)
    PROVE  /\ runq' \in SUBSET Threads
           /\ state' \in [Threads -> States]
           /\ nstate' \in [Threads -> {"READY", "WAITING"}]
           /\ cur' \in [Cpus -> Threads \cup {NoThread}]
           /\ cpc' \in [Cpus -> Points]
           /\ fault' \in {"none", "panic", "null", "twice", "dangling"}
BY SemAssumption DEF TypeOK, Resched, Pool, States, Points

(* The slot of an id is an index of the table.                             *)
LEMMA SlotOfType ==
    ASSUME NEW i \in Int PROVE SlotOf(i) \in Slots
BY SemAssumption DEF SlotOf, Slots

(* The id that create_sem_etc computes is not smaller than next_sem, so    *)
(* that no id is handed out twice.                                         *)
LEMMA NextIdType ==
    ASSUME next_sem \in Nat, NEW i \in Slots
    PROVE  NextIdFor(i) \in Nat /\ NextIdFor(i) >= next_sem
<1> DEFINE r == next_sem % MaxSems
<1>1. MaxSems \in Nat /\ MaxSems > 0 /\ i \in Nat /\ i < MaxSems
  BY SemAssumption DEF Slots
<1>2. r \in Nat /\ r < MaxSems
  BY <1>1
<1>3. NextIdFor(i) = IF i >= r THEN next_sem + (i - r)
                     ELSE next_sem + (MaxSems - (r - i))
  BY DEF NextIdFor
<1> HIDE DEF r
<1> QED BY <1>1, <1>2, <1>3

(* Every operation of sem.c keeps the types of the state.                  *)
LEMMA TypeStep ==
    ASSUME TypeOK, OneList, LocalsInv, Next PROVE TypeOK'
<1> USE DEF TypeOK, threadVars, schedVars, cpuVars, semVars
<1> PICK c \in Cpus : Call(c) \/ KernelStep(c) \/ Interrupt(c)
  BY DEF Next
<1>1. ASSUME NEW i \in Slots, NEW n \in InitCounts, create_sem_etc(c, i, n)
      PROVE  TypeOK'
  <2>1. n \in Int
    BY SemAssumption
  <2>2. NextIdFor(i) \in Nat /\ NextIdFor(i) + 1 \in Nat
    BY SMTT(30), NextIdType
  <2>3. sid' \in [Slots -> Int] /\ scount' \in [Slots -> Int] /\ next_sem' \in Nat
    BY SMTT(30), <1>1, <2>1, <2>2 DEF create_sem_etc
  <2>4. sq' \in [Slots -> Seq(Threads)]
    BY <1>1 DEF create_sem_etc
  <2> QED BY <1>1, <2>3, <2>4 DEF create_sem_etc
<1>2. ASSUME NEW s \in Slots, DeleteEnter(c, s)
      PROVE  TypeOK'
  BY <1>2 DEF DeleteEnter, Points
<1>3. ASSUME NEW s \in Slots, NEW n \in AcquireCounts, AcquireTake(c, s, n)
      PROVE  TypeOK'
  <2>1. scount[s] - n \in Int
    BY SemAssumption
  <2> QED BY <1>3, <2>1 DEF AcquireTake
<1>4. ASSUME NEW s \in Slots, NEW n \in AcquireCounts, NEW f \in FlagSets,
             AcquireBlock(c, s, n, f)
      PROVE  TypeOK'
  <2>1. n \in Nat /\ f \in SUBSET AcquireFlags /\ scount[s] \in Int
    BY SemAssumption
  <2>2. cur[c] \in Threads /\ Append(sq[s], cur[c]) \in Seq(Threads)
    BY <1>4 DEF AcquireBlock
  <2>3. Need(s, n) \in Int /\ scount[s] - n \in Int
    BY <2>1 DEF Need, MinOf
  <2> QED BY <1>4, <2>1, <2>2, <2>3 DEF AcquireBlock, Points, Errors
<1>5. ASSUME NEW s \in Slots, NEW n \in ReleaseCounts, ReleaseEnter(c, s, n)
      PROVE  TypeOK'
  <2>1. n \in Int
    BY SemAssumption
  <2> QED BY <1>5, <2>1 DEF ReleaseEnter, Points
<1>6. ASSUME NEW t \in Threads, KillPending(c, t)
      PROVE  TypeOK'
  BY <1>6 DEF KillPending
<1>7. ASSUME NEW t \in Threads, KillWaiting(c, t)
      PROVE  TypeOK'
  BY <1>7, SlotOfType DEF KillWaiting, Points
<1>8. ASSUME NEW t \in Threads, TimerInterrupt(c, t)
      PROVE  TypeOK'
  BY <1>8, SlotOfType DEF TimerInterrupt, Points
<1>9. CASE Preempt(c)
  BY <1>9, ReschedTypes DEF Preempt
<1>10. CASE DeleteWaiter(c)
  <2>1. Head(sq[lslot[c]]) \in Threads /\ Tail(sq[lslot[c]]) \in Seq(Threads)
    BY <1>10 DEF DeleteWaiter
  <2>2. sq' \in [Slots -> Seq(Threads)] /\ lq' \in [Cpus -> SUBSET Threads]
    BY <1>10, <2>1 DEF DeleteWaiter
  <2>3. /\ state' \in [Threads -> States] /\ err' \in [Threads -> Errors]
        /\ need' \in [Threads -> Int]
    BY SMTT(30), <1>10, <2>1 DEF DeleteWaiter, States, Errors
  <2> QED BY <1>10, <2>2, <2>3 DEF DeleteWaiter
<1>11. CASE DeleteEntry(c)
  BY SMTT(30), <1>11 DEF DeleteEntry, Points
<1>12. CASE DeleteWake(c)
  BY <1>12, ReschedTypes DEF DeleteWake
<1>13. CASE AcquireResched(c)
  BY <1>13, ReschedTypes DEF AcquireResched
<1>14. CASE AcquireSeesKill(c)
  <2>1. cur[c] \in Threads /\ SlotOf(blk[cur[c]]) \in Slots
    BY <1>14, SlotOfType DEF AcquireSeesKill, LocalsInv, AcquirePoints
  <2> QED BY <1>14, <2>1 DEF AcquireSeesKill, Points
<1>15. CASE AcquireReturn(c)
  <2>1. cur[c] \in Threads /\ TimerLeft(cur[c]) \in Cpus \cup {NoCpu}
    BY <1>15 DEF AcquireReturn, LocalsInv, TimerLeft
  <2> QED BY <1>15, <2>1 DEF AcquireReturn, Points
<1>16. CASE AcquireNull(c)
  BY <1>16 DEF AcquireNull
<1>17. CASE AcquireKilled(c)
  <2>1. lt[c] \in Threads /\ lslot[c] \in Slots
    BY <1>17 DEF AcquireKilled, LocalsInv, TargetPoints
  <2>2. Without(sq[lslot[c]], lt[c]) \in Seq(Threads)
    BY <1>17, <2>1, WithoutFacts DEF AcquireKilled, OneList
  <2>3. sq' \in [Slots -> Seq(Threads)] /\ lq' \in [Cpus -> SUBSET Threads]
    BY <1>17, <2>1, <2>2 DEF AcquireKilled, RemoveThread
  <2>4. /\ state' \in [Threads -> States] /\ err' \in [Threads -> Errors]
        /\ scount' \in [Slots -> Int]
    BY <1>17, <2>1 DEF AcquireKilled, RemoveThread, GivenBack, States, Errors
  <2> QED BY <1>17, <2>1, <2>3, <2>4 DEF AcquireKilled, RemoveThread, Points
<1>18. CASE AcquireKilledLate(c)
  <2>1. lt[c] \in Threads
    BY <1>18 DEF AcquireKilledLate, LocalsInv, TargetPoints
  <2> QED BY <1>18, <2>1 DEF AcquireKilledLate, Points
<1>19. CASE AcquireKilledWake(c)
  BY <1>19, ReschedTypes DEF AcquireKilledWake
<1>20. CASE ReleaseAdd(c)
  BY <1>20 DEF ReleaseAdd
<1>21. CASE ReleaseWaiter(c)
  <2>1. Head(sq[lslot[c]]) \in Threads /\ Tail(sq[lslot[c]]) \in Seq(Threads)
    BY <1>21 DEF ReleaseWaiter
  <2>2. sq' \in [Slots -> Seq(Threads)] /\ lq' \in [Cpus -> SUBSET Threads]
    BY <1>21, <2>1 DEF ReleaseWaiter
  <2>3. state' \in [Threads -> States] /\ need' \in [Threads -> Int]
    BY SMTT(30), <1>21, <2>1 DEF ReleaseWaiter, States
  <2>4. scount' \in [Slots -> Int] /\ ln' \in [Cpus -> Int]
    <3>1. /\ scount[lslot[c]] + need[Head(sq[lslot[c]])] \in Int
          /\ ln[c] - need[Head(sq[lslot[c]])] \in Int
      BY SMTT(30), <2>1
    <3> QED BY <1>21, <3>1 DEF ReleaseWaiter
  <2> QED BY <1>21, <2>2, <2>3, <2>4 DEF ReleaseWaiter
<1>22. CASE ReleasePart(c)
  <2>1. Head(sq[lslot[c]]) \in Threads
    BY <1>22 DEF ReleasePart
  <2> QED BY SMTT(30), <1>22, <2>1 DEF ReleasePart
<1>23. CASE ReleaseNobody(c)
  BY <1>23 DEF ReleaseNobody
<1>24. CASE ReleaseUnlock(c)
  BY <1>24 DEF ReleaseUnlock, Points
<1>25. CASE ReleaseWake(c)
  BY <1>25, ReschedTypes DEF ReleaseWake
<1>26. CASE ReleaseWakeOnly(c)
  BY <1>26 DEF ReleaseWakeOnly, Points
<1>27. CASE RemoveWakeFirst(c)
  <2>1. /\ Head(sq[lslot[c]]) \in Threads /\ Tail(sq[lslot[c]]) \in Seq(Threads)
        /\ lt[c] \in Threads
    BY <1>27 DEF RemoveWakeFirst, WakeLoop, LocalsInv, TargetPoints
  <2>2. sq' \in [Slots -> Seq(Threads)] /\ lq' \in [Cpus -> SUBSET Threads]
    BY <1>27, <2>1 DEF RemoveWakeFirst
  <2>3. /\ state' \in [Threads -> States]
        /\ need' \in [Threads -> Int]
        /\ lt' \in [Cpus -> Threads \cup {NoThread}]
    <3>1. state' \in [Threads -> States]
      BY <1>27, <2>1 DEF RemoveWakeFirst, States
    <3>2. need' \in [Threads -> Int]
      BY <1>27, <2>1 DEF RemoveWakeFirst
    <3>3. lt' \in [Cpus -> Threads \cup {NoThread}]
      BY <1>27, <2>1 DEF RemoveWakeFirst
    <3> QED BY <3>1, <3>2, <3>3
  <2>4. scount' \in [Slots -> Int]
    <3>1. scount[lslot[c]] - need[lt[c]] \in Int
      BY <2>1
    <3> QED BY <1>27, <3>1 DEF RemoveWakeFirst
  <2> QED BY <1>27, <2>2, <2>3, <2>4 DEF RemoveWakeFirst
<1>28. CASE RemovePart(c)
  <2>1. lt[c] \in Threads
    BY <1>28 DEF RemovePart, WakeLoop, LocalsInv, TargetPoints
  <2> QED BY SMTT(30), <1>28, <2>1 DEF RemovePart
<1>29. CASE RemoveUnlock(c)
  BY <1>29 DEF RemoveUnlock, Points
<1>30. CASE TimeoutRemove(c)
  <2>1. lt[c] \in Threads /\ lslot[c] \in Slots
    BY <1>30 DEF TimeoutRemove, LocalsInv, TargetPoints
  <2>2. Without(sq[lslot[c]], lt[c]) \in Seq(Threads)
    BY <1>30, <2>1, WithoutFacts DEF TimeoutRemove, OneList
  <2>3. sq' \in [Slots -> Seq(Threads)] /\ lq' \in [Cpus -> SUBSET Threads]
    BY <1>30, <2>1, <2>2 DEF TimeoutRemove, RemoveThread
  <2>4. /\ state' \in [Threads -> States] /\ err' \in [Threads -> Errors]
        /\ scount' \in [Slots -> Int]
    BY <1>30, <2>1 DEF TimeoutRemove, RemoveThread, GivenBack, States, Errors
  <2> QED BY <1>30, <2>1, <2>3, <2>4 DEF TimeoutRemove, RemoveThread, Points
<1>31. CASE TimeoutLate(c)
  BY <1>31 DEF TimeoutLate, Points
<1>32. CASE TimeoutPanic(c)
  BY <1>32 DEF TimeoutPanic
<1>33. CASE TimeoutWake(c)
  BY <1>33, ReschedTypes DEF TimeoutWake
<1>34. CASE KillRemove(c)
  <2>1. lt[c] \in Threads /\ lslot[c] \in Slots
    BY <1>34 DEF KillRemove, LocalsInv, TargetPoints
  <2>2. Without(sq[lslot[c]], lt[c]) \in Seq(Threads)
    BY <1>34, <2>1, WithoutFacts DEF KillRemove, OneList
  <2>3. sq' \in [Slots -> Seq(Threads)] /\ lq' \in [Cpus -> SUBSET Threads]
    BY <1>34, <2>1, <2>2 DEF KillRemove, RemoveThread
  <2>4. /\ state' \in [Threads -> States] /\ err' \in [Threads -> Errors]
        /\ scount' \in [Slots -> Int]
    BY <1>34, <2>1 DEF KillRemove, RemoveThread, GivenBack, States, Errors
  <2> QED BY <1>34, <2>1, <2>3, <2>4 DEF KillRemove, RemoveThread, Points
<1>35. CASE KillPanic(c)
  BY <1>35 DEF KillPanic
<1>36. CASE KillWake(c)
  BY <1>36 DEF KillWake, Points
<1> QED
  BY <1>1, <1>2, <1>3, <1>4, <1>5, <1>6, <1>7, <1>8, <1>9, <1>10, <1>11, <1>12,
     <1>13, <1>14, <1>15, <1>16, <1>17, <1>18, <1>19, <1>20, <1>21, <1>22, <1>23, <1>24,
     <1>25, <1>26, <1>27, <1>28, <1>29, <1>30, <1>31, <1>32, <1>33, <1>34, <1>35, <1>36
     DEF Call, KernelStep, Interrupt

-----------------------------------------------------------------------------
(* Locals of the kernel paths and spinlocks.                               *)

(* After thread_resched the CPU runs a thread or the idle loop, at the     *)
(* place where that thread continues.                                      *)
LEMMA ReschedPoint ==
    ASSUME TypeOK, NEW c \in Cpus, NEW ready \in SUBSET Threads,
           Resched(c, ready)
    PROVE  /\ cur' = [cur EXCEPT ![c] = cur'[c]]
           /\ cpc' = [cpc EXCEPT ![c] = cpc'[c]]
           /\ cpc'[c] \in {"run", "woken", "null"}
           /\ cpc'[c] # "run" => cur'[c] \in Threads
BY DEF TypeOK, Resched, Pool

(* The local queues are empty, and the targets are threads, where the code  *)
(* relies on it.                                                           *)
LEMMA LocalsStep ==
    ASSUME TypeOK, LocalsInv, Next
    PROVE  LocalsInv'
<1> USE DEF TypeOK, LocalsInv, QueuePoints, TargetPoints, AcquirePoints,
            threadVars, schedVars, cpuVars, semVars
<1> PICK c \in Cpus : Call(c) \/ KernelStep(c) \/ Interrupt(c)
  BY DEF Next
<1>1. ASSUME NEW i \in Slots, NEW n \in InitCounts, create_sem_etc(c, i, n)
      PROVE  LocalsInv'
  BY <1>1 DEF create_sem_etc
<1>2. ASSUME NEW s \in Slots, DeleteEnter(c, s)
      PROVE  LocalsInv'
  BY <1>2 DEF DeleteEnter
<1>3. ASSUME NEW s \in Slots, NEW n \in AcquireCounts, AcquireTake(c, s, n)
      PROVE  LocalsInv'
  BY <1>3 DEF AcquireTake
<1>4. ASSUME NEW s \in Slots, NEW n \in AcquireCounts, NEW f \in FlagSets,
             AcquireBlock(c, s, n, f)
      PROVE  LocalsInv'
  BY <1>4 DEF AcquireBlock
<1>5. ASSUME NEW s \in Slots, NEW n \in ReleaseCounts, ReleaseEnter(c, s, n)
      PROVE  LocalsInv'
  BY <1>5 DEF ReleaseEnter
<1>6. ASSUME NEW t \in Threads, KillPending(c, t)
      PROVE  LocalsInv'
  BY <1>6 DEF KillPending
<1>7. ASSUME NEW t \in Threads, KillWaiting(c, t)
      PROVE  LocalsInv'
  BY <1>7 DEF KillWaiting
<1>8. ASSUME NEW t \in Threads, TimerInterrupt(c, t)
      PROVE  LocalsInv'
  BY <1>8 DEF TimerInterrupt
<1>9. CASE Preempt(c)
  <2>1. /\ cur' = [cur EXCEPT ![c] = cur'[c]] /\ cpc' = [cpc EXCEPT ![c] = cpc'[c]]
        /\ cpc'[c] \in {"run", "woken", "null"}
        /\ cpc'[c] # "run" => cur'[c] \in Threads
    BY <1>9, ReschedPoint DEF Preempt
  <2>2. lq'[c] = {} /\ lt' = lt /\ \A d \in Cpus \ {c} : lq'[d] = lq[d]
    BY <1>9 DEF Preempt
  <2> QED BY <2>1, <2>2
<1>10. CASE DeleteWaiter(c)
  BY <1>10 DEF DeleteWaiter
<1>11. CASE DeleteEntry(c)
  BY <1>11 DEF DeleteEntry
<1>12. CASE DeleteWake(c)
  <2>1. /\ cur' = [cur EXCEPT ![c] = cur'[c]] /\ cpc' = [cpc EXCEPT ![c] = cpc'[c]]
        /\ cpc'[c] \in {"run", "woken", "null"}
        /\ cpc'[c] # "run" => cur'[c] \in Threads
    BY <1>12, ReschedPoint DEF DeleteWake
  <2>2. lq'[c] = {} /\ lt' = lt /\ \A d \in Cpus \ {c} : lq'[d] = lq[d]
    BY <1>12 DEF DeleteWake
  <2> QED BY <2>1, <2>2
<1>13. CASE AcquireResched(c)
  <2>1. /\ cur' = [cur EXCEPT ![c] = cur'[c]] /\ cpc' = [cpc EXCEPT ![c] = cpc'[c]]
        /\ cpc'[c] \in {"run", "woken", "null"}
        /\ cpc'[c] # "run" => cur'[c] \in Threads
    BY <1>13, ReschedPoint DEF AcquireResched
  <2>2. lq'[c] = {} /\ lt' = lt /\ \A d \in Cpus \ {c} : lq'[d] = lq[d]
    BY <1>13 DEF AcquireResched
  <2> QED BY <2>1, <2>2
<1>14. CASE AcquireSeesKill(c)
  BY <1>14 DEF AcquireSeesKill
<1>15. CASE AcquireReturn(c)
  BY <1>15 DEF AcquireReturn
<1>16. CASE AcquireNull(c)
  BY <1>16 DEF AcquireNull
<1>17. CASE AcquireKilled(c)
  BY <1>17 DEF AcquireKilled, RemoveThread
<1>18. CASE AcquireKilledLate(c)
  BY <1>18 DEF AcquireKilledLate
<1>19. CASE AcquireKilledWake(c)
  <2>1. /\ cur' = [cur EXCEPT ![c] = cur'[c]] /\ cpc' = [cpc EXCEPT ![c] = cpc'[c]]
        /\ cpc'[c] \in {"run", "woken", "null"}
        /\ cpc'[c] # "run" => cur'[c] \in Threads
    BY <1>19, ReschedPoint DEF AcquireKilledWake
  <2>2. lq'[c] = {} /\ lt' = lt /\ \A d \in Cpus \ {c} : lq'[d] = lq[d]
    BY <1>19 DEF AcquireKilledWake
  <2> QED BY <2>1, <2>2
<1>20. CASE ReleaseAdd(c)
  BY <1>20 DEF ReleaseAdd
<1>21. CASE ReleaseWaiter(c)
  BY <1>21 DEF ReleaseWaiter
<1>22. CASE ReleasePart(c)
  BY <1>22 DEF ReleasePart
<1>23. CASE ReleaseNobody(c)
  BY <1>23 DEF ReleaseNobody
<1>24. CASE ReleaseUnlock(c)
  BY <1>24 DEF ReleaseUnlock
<1>25. CASE ReleaseWake(c)
  <2>1. /\ cur' = [cur EXCEPT ![c] = cur'[c]] /\ cpc' = [cpc EXCEPT ![c] = cpc'[c]]
        /\ cpc'[c] \in {"run", "woken", "null"}
        /\ cpc'[c] # "run" => cur'[c] \in Threads
    BY <1>25, ReschedPoint DEF ReleaseWake
  <2>2. lq'[c] = {} /\ lt' = lt /\ \A d \in Cpus \ {c} : lq'[d] = lq[d]
    BY <1>25 DEF ReleaseWake
  <2> QED BY <2>1, <2>2
<1>26. CASE ReleaseWakeOnly(c)
  BY <1>26 DEF ReleaseWakeOnly
<1>27. CASE RemoveWakeFirst(c)
  <2>1. Head(sq[lslot[c]]) \in Threads
    BY <1>27 DEF RemoveWakeFirst, WakeLoop
  <2> QED BY <1>27, <2>1 DEF RemoveWakeFirst, WakeLoop
<1>28. CASE RemovePart(c)
  BY <1>28 DEF RemovePart
<1>29. CASE RemoveUnlock(c)
  BY <1>29 DEF RemoveUnlock
<1>30. CASE TimeoutRemove(c)
  BY <1>30 DEF TimeoutRemove, RemoveThread
<1>31. CASE TimeoutLate(c)
  BY <1>31 DEF TimeoutLate
<1>32. CASE TimeoutPanic(c)
  BY <1>32 DEF TimeoutPanic
<1>33. CASE TimeoutWake(c)
  <2>1. /\ cur' = [cur EXCEPT ![c] = cur'[c]] /\ cpc' = [cpc EXCEPT ![c] = cpc'[c]]
        /\ cpc'[c] \in {"run", "woken", "null"}
        /\ cpc'[c] # "run" => cur'[c] \in Threads
    BY <1>33, ReschedPoint DEF TimeoutWake
  <2>2. lq'[c] = {} /\ lt' = lt /\ \A d \in Cpus \ {c} : lq'[d] = lq[d]
    BY <1>33 DEF TimeoutWake
  <2> QED BY <2>1, <2>2
<1>34. CASE KillRemove(c)
  BY <1>34 DEF KillRemove, RemoveThread
<1>35. CASE KillPanic(c)
  BY <1>35 DEF KillPanic
<1>36. CASE KillWake(c)
  BY <1>36 DEF KillWake
<1> QED
  BY <1>1, <1>2, <1>3, <1>4, <1>5, <1>6, <1>7, <1>8, <1>9, <1>10, <1>11, <1>12,
     <1>13, <1>14, <1>15, <1>16, <1>17, <1>18, <1>19, <1>20, <1>21, <1>22, <1>23, <1>24,
     <1>25, <1>26, <1>27, <1>28, <1>29, <1>30, <1>31, <1>32, <1>33, <1>34, <1>35, <1>36
     DEF Call, KernelStep, Interrupt

(* What the steps do to a semaphore's spinlock: take it, drop it, or leave *)
(* it alone.                                                               *)
LEMMA LockFrame ==
    ASSUME TypeOK, LockInv, NEW c \in Cpus,
           \A d \in Cpus \ {c} : cpc'[d] = cpc[d] /\ lslot'[d] = lslot[d],
           \/ /\ slock' = slock
              /\ cpc[c] \notin HoldPoints /\ cpc'[c] \notin HoldPoints
           \/ /\ slock' = slock
              /\ cpc[c] \in HoldPoints /\ cpc'[c] \in HoldPoints
              /\ lslot'[c] = lslot[c]
           \/ /\ slock[lslot'[c]] = NoCpu /\ lslot'[c] \in Slots
              /\ slock' = [slock EXCEPT ![lslot'[c]] = c]
              /\ cpc[c] \notin HoldPoints /\ cpc'[c] \in HoldPoints
           \/ /\ slock' = [slock EXCEPT ![lslot[c]] = NoCpu]
              /\ cpc[c] \in HoldPoints /\ cpc'[c] \notin HoldPoints
    PROVE  LockInv'
<1> SUFFICES ASSUME NEW s \in Slots, NEW d \in Cpus
             PROVE  slock'[s] = d <=> cpc'[d] \in HoldPoints /\ lslot'[d] = s
  BY DEF LockInv
<1>1. /\ \A r \in Slots, e \in Cpus :
            slock[r] = e <=> cpc[e] \in HoldPoints /\ lslot[e] = r
      /\ slock \in [Slots -> Cpus \cup {NoCpu}] /\ lslot \in [Cpus -> Slots]
      /\ NoCpu \notin Cpus
  BY SemAssumption DEF LockInv, TypeOK
<1>2. CASE d = c
  BY <1>1, <1>2
<1>3. CASE d # c
  BY <1>1, <1>3
<1> QED BY <1>2, <1>3

(* A semaphore's spinlock is held exactly by the CPU that works in its     *)
(* slot, so that two CPUs are never inside the same wait queue.            *)
LEMMA LockStep ==
    ASSUME TypeOK, LocalsInv, LockInv, Next
    PROVE  LockInv'
<1> USE DEF TypeOK, HoldPoints, threadVars, schedVars, cpuVars, semVars
<1> PICK c \in Cpus : Call(c) \/ KernelStep(c) \/ Interrupt(c)
  BY DEF Next
<1>1. ASSUME NEW i \in Slots, NEW n \in InitCounts, create_sem_etc(c, i, n)
      PROVE  LockInv'
  <2>1. slock' = slock /\ cpc' = cpc /\ lslot' = lslot
    BY <1>1 DEF create_sem_etc
  <2> QED BY <2>1, LockFrame
<1>2. ASSUME NEW s \in Slots, DeleteEnter(c, s)
      PROVE  LockInv'
  BY <1>2, LockFrame DEF DeleteEnter
<1>3. ASSUME NEW s \in Slots, NEW n \in AcquireCounts, AcquireTake(c, s, n)
      PROVE  LockInv'
  <2>1. slock' = slock /\ cpc' = cpc /\ lslot' = lslot
    BY <1>3 DEF AcquireTake
  <2> QED BY <2>1, LockFrame
<1>4. ASSUME NEW s \in Slots, NEW n \in AcquireCounts, NEW f \in FlagSets,
             AcquireBlock(c, s, n, f)
      PROVE  LockInv'
  BY <1>4, LockFrame DEF AcquireBlock
<1>5. ASSUME NEW s \in Slots, NEW n \in ReleaseCounts, ReleaseEnter(c, s, n)
      PROVE  LockInv'
  BY <1>5, LockFrame DEF ReleaseEnter
<1>6. ASSUME NEW t \in Threads, KillPending(c, t)
      PROVE  LockInv'
  <2>1. slock' = slock /\ cpc' = cpc /\ lslot' = lslot
    BY <1>6 DEF KillPending
  <2> QED BY <2>1, LockFrame
<1>7. ASSUME NEW t \in Threads, KillWaiting(c, t)
      PROVE  LockInv'
  BY <1>7, LockFrame DEF KillWaiting
<1>8. ASSUME NEW t \in Threads, TimerInterrupt(c, t)
      PROVE  LockInv'
  BY <1>8, LockFrame DEF TimerInterrupt
<1>9. CASE Preempt(c)
  <2>1. /\ cpc' = [cpc EXCEPT ![c] = cpc'[c]]
        /\ cpc'[c] \in {"run", "woken", "null"}
    BY <1>9, ReschedPoint DEF Preempt
  <2>2. slock' = slock /\ lslot' = lslot /\ cpc[c] \notin HoldPoints
    BY <1>9 DEF Preempt
  <2> QED BY <2>1, <2>2, LockFrame
<1>10. CASE DeleteWaiter(c)
  <2>1. slock' = slock /\ cpc' = cpc /\ lslot' = lslot
    BY <1>10 DEF DeleteWaiter
  <2> QED BY <2>1, LockFrame
<1>11. CASE DeleteEntry(c)
  BY <1>11, LockFrame DEF DeleteEntry
<1>12. CASE DeleteWake(c)
  <2>1. /\ cpc' = [cpc EXCEPT ![c] = cpc'[c]]
        /\ cpc'[c] \in {"run", "woken", "null"}
    BY <1>12, ReschedPoint DEF DeleteWake
  <2>2. slock' = slock /\ lslot' = lslot /\ cpc[c] \notin HoldPoints
    BY <1>12 DEF DeleteWake
  <2> QED BY <2>1, <2>2, LockFrame
<1>13. CASE AcquireResched(c)
  <2>1. /\ cpc' = [cpc EXCEPT ![c] = cpc'[c]]
        /\ cpc'[c] \in {"run", "woken", "null"}
    BY <1>13, ReschedPoint DEF AcquireResched
  <2>2. slock' = slock /\ lslot' = lslot /\ cpc[c] \notin HoldPoints
    BY <1>13 DEF AcquireResched
  <2> QED BY <2>1, <2>2, LockFrame
<1>14. CASE AcquireSeesKill(c)
  BY <1>14, LockFrame DEF AcquireSeesKill
<1>15. CASE AcquireReturn(c)
  BY <1>15, LockFrame DEF AcquireReturn
<1>16. CASE AcquireNull(c)
  <2>1. slock' = slock /\ cpc' = cpc /\ lslot' = lslot
    BY <1>16 DEF AcquireNull
  <2> QED BY <2>1, LockFrame
<1>17. CASE AcquireKilled(c)
  BY <1>17, LockFrame DEF AcquireKilled, RemoveThread
<1>18. CASE AcquireKilledLate(c)
  BY <1>18, LockFrame DEF AcquireKilledLate
<1>19. CASE AcquireKilledWake(c)
  <2>1. /\ cpc' = [cpc EXCEPT ![c] = cpc'[c]]
        /\ cpc'[c] \in {"run", "woken", "null"}
    BY <1>19, ReschedPoint DEF AcquireKilledWake
  <2>2. slock' = slock /\ lslot' = lslot /\ cpc[c] \notin HoldPoints
    BY <1>19 DEF AcquireKilledWake
  <2> QED BY <2>1, <2>2, LockFrame
<1>20. CASE ReleaseAdd(c)
  <2>1. slock' = slock /\ cpc' = cpc /\ lslot' = lslot
    BY <1>20 DEF ReleaseAdd
  <2> QED BY <2>1, LockFrame
<1>21. CASE ReleaseWaiter(c)
  <2>1. slock' = slock /\ cpc' = cpc /\ lslot' = lslot
    BY <1>21 DEF ReleaseWaiter
  <2> QED BY <2>1, LockFrame
<1>22. CASE ReleasePart(c)
  <2>1. slock' = slock /\ cpc' = cpc /\ lslot' = lslot
    BY <1>22 DEF ReleasePart
  <2> QED BY <2>1, LockFrame
<1>23. CASE ReleaseNobody(c)
  <2>1. slock' = slock /\ cpc' = cpc /\ lslot' = lslot
    BY <1>23 DEF ReleaseNobody
  <2> QED BY <2>1, LockFrame
<1>24. CASE ReleaseUnlock(c)
  BY <1>24, LockFrame DEF ReleaseUnlock
<1>25. CASE ReleaseWake(c)
  <2>1. /\ cpc' = [cpc EXCEPT ![c] = cpc'[c]]
        /\ cpc'[c] \in {"run", "woken", "null"}
    BY <1>25, ReschedPoint DEF ReleaseWake
  <2>2. slock' = slock /\ lslot' = lslot /\ cpc[c] \notin HoldPoints
    BY <1>25 DEF ReleaseWake
  <2> QED BY <2>1, <2>2, LockFrame
<1>26. CASE ReleaseWakeOnly(c)
  BY <1>26, LockFrame DEF ReleaseWakeOnly
<1>27. CASE RemoveWakeFirst(c)
  <2>1. slock' = slock /\ cpc' = cpc /\ lslot' = lslot
    BY <1>27 DEF RemoveWakeFirst
  <2> QED BY <2>1, LockFrame
<1>28. CASE RemovePart(c)
  <2>1. slock' = slock /\ cpc' = cpc /\ lslot' = lslot
    BY <1>28 DEF RemovePart
  <2> QED BY <2>1, LockFrame
<1>29. CASE RemoveUnlock(c)
  BY ZenonT(30), <1>29, LockFrame DEF RemoveUnlock
<1>30. CASE TimeoutRemove(c)
  BY <1>30, LockFrame DEF TimeoutRemove, RemoveThread
<1>31. CASE TimeoutLate(c)
  BY <1>31, LockFrame DEF TimeoutLate
<1>32. CASE TimeoutPanic(c)
  <2>1. slock' = slock /\ cpc' = cpc /\ lslot' = lslot
    BY <1>32 DEF TimeoutPanic
  <2> QED BY <2>1, LockFrame
<1>33. CASE TimeoutWake(c)
  <2>1. /\ cpc' = [cpc EXCEPT ![c] = cpc'[c]]
        /\ cpc'[c] \in {"run", "woken", "null"}
    BY <1>33, ReschedPoint DEF TimeoutWake
  <2>2. slock' = slock /\ lslot' = lslot /\ cpc[c] \notin HoldPoints
    BY <1>33 DEF TimeoutWake
  <2> QED BY <2>1, <2>2, LockFrame
<1>34. CASE KillRemove(c)
  BY <1>34, LockFrame DEF KillRemove, RemoveThread
<1>35. CASE KillPanic(c)
  <2>1. slock' = slock /\ cpc' = cpc /\ lslot' = lslot
    BY <1>35 DEF KillPanic
  <2> QED BY <2>1, LockFrame
<1>36. CASE KillWake(c)
  BY <1>36, LockFrame DEF KillWake
<1> QED
  BY <1>1, <1>2, <1>3, <1>4, <1>5, <1>6, <1>7, <1>8, <1>9, <1>10, <1>11, <1>12,
     <1>13, <1>14, <1>15, <1>16, <1>17, <1>18, <1>19, <1>20, <1>21, <1>22, <1>23, <1>24,
     <1>25, <1>26, <1>27, <1>28, <1>29, <1>30, <1>31, <1>32, <1>33, <1>34, <1>35, <1>36
     DEF Call, KernelStep, Interrupt

-----------------------------------------------------------------------------
(* The lists a thread can be on.                                           *)

(* NoThreadLost in terms of OnList.                                        *)
LEMMA LostFacts ==
    NoThreadLost <=> \A t \in Threads : OnList(t) \/ \E c \in Cpus : cur[c] = t
BY DEF NoThreadLost, OnList, Queued

(* A step that touches no list and no current thread.                      *)
LEMMA ListsSame ==
    ASSUME OneList, NoThreadLost, RunningInv, fault = "none",
           sq' = sq, lq' = lq, runq' = runq, cur' = cur, nstate' = nstate,
           \A d \in Cpus : cpc'[d] \in AcquirePoints <=> cpc[d] \in AcquirePoints
    PROVE  OneList' /\ NoThreadLost' /\ RunningInv'
<1>1. OneList' /\ NoThreadLost'
  BY DEF OneList, NoThreadLost
<1>2. \A x : OnList(x)' <=> OnList(x)
  BY DEF OnList, Queued
<1> QED BY <1>1, <1>2 DEF RunningInv

(* A thread moves from a wait queue to the local queue of a CPU.           *)
LEMMA ListsMove ==
    ASSUME TypeOK, OneList, NoThreadLost, RunningInv, fault = "none",
           NEW c \in Cpus, NEW s \in Slots, NEW t \in Elems(sq[s]),
           NEW q \in Seq(Threads), Elems(q) = Elems(sq[s]) \ {t}, NoRepeats(q),
           sq' = [sq EXCEPT ![s] = q], lq' = [lq EXCEPT ![c] = lq[c] \cup {t}],
           runq' = runq, cur' = cur, nstate' = nstate,
           \A d \in Cpus : cpc'[d] \in AcquirePoints <=> cpc[d] \in AcquirePoints
    PROVE  OneList' /\ NoThreadLost' /\ RunningInv'
<1>1. /\ \A r \in Slots : r # s => sq'[r] = sq[r]
      /\ sq'[s] = q
      /\ \A d \in Cpus : d # c => lq'[d] = lq[d]
      /\ lq'[c] = lq[c] \cup {t}
  BY DEF TypeOK
<1>2. \A r \in Slots : Elems(sq'[r]) = Elems(sq[r]) \ {t}
  BY <1>1 DEF OneList
<1>3. \A d \in Cpus : t \notin lq[d]
  BY DEF OneList
<1>4. t \notin runq
  BY DEF OneList
<1>5. OneList'
  <2>1. \A r \in Slots : NoRepeats(sq'[r])
    BY <1>1 DEF OneList
  <2>2. \A r \in Slots : Elems(sq'[r]) \cap runq' = {}
    BY <1>2 DEF OneList
  <2>3. \A r, w \in Slots : r # w => Elems(sq'[r]) \cap Elems(sq'[w]) = {}
    BY <1>2 DEF OneList
  <2>4. \A d \in Cpus : lq'[d] \cap runq' = {}
    BY <1>1, <1>4 DEF OneList
  <2>5. \A d \in Cpus, r \in Slots : lq'[d] \cap Elems(sq'[r]) = {}
    <3> SUFFICES ASSUME NEW d \in Cpus, NEW r \in Slots
                 PROVE  lq'[d] \cap Elems(sq'[r]) = {}
      OBVIOUS
    <3>1. lq[d] \cap Elems(sq[r]) = {}
      BY DEF OneList
    <3>2. lq'[d] \subseteq lq[d] \cup {t}
      BY <1>1
    <3> QED BY <1>2, <3>1, <3>2
  <2>6. \A d, e \in Cpus : d # e => lq'[d] \cap lq'[e] = {}
    <3> SUFFICES ASSUME NEW d \in Cpus, NEW e \in Cpus, d # e
                 PROVE  lq'[d] \cap lq'[e] = {}
      OBVIOUS
    <3>1. lq[d] \cap lq[e] = {} /\ t \notin lq[d] /\ t \notin lq[e]
      BY <1>3 DEF OneList
    <3> QED BY <1>1, <3>1
  <2> QED BY <2>1, <2>2, <2>3, <2>4, <2>5, <2>6 DEF OneList
<1>6. ASSUME NEW x PROVE OnList(x)' <=> OnList(x)
  <2>1. Queued(x)' <=> Queued(x) /\ x # t
    BY <1>2 DEF Queued
  <2>2. (\E d \in Cpus : x \in lq'[d]) <=> (\E d \in Cpus : x \in lq[d]) \/ x = t
    BY <1>1
  <2>3. Queued(t)
    BY DEF Queued
  <2> QED BY <2>1, <2>2, <2>3 DEF OnList
<1>7. NoThreadLost'
  BY <1>6, LostFacts DEF NoThreadLost, OnList, Queued
<1>8. RunningInv'
  BY <1>6 DEF RunningInv
<1> QED BY <1>5, <1>7, <1>8

(* The running thread enters a wait queue (acquire_sem_etc).               *)
LEMMA ListsEnqueue ==
    ASSUME TypeOK, OneList, NoThreadLost, RunningInv, fault = "none",
           NEW c \in Cpus, NEW s \in Slots, NEW t \in Threads,
           t = cur[c], cpc[c] = "run",
           sq' = [sq EXCEPT ![s] = Append(@, t)],
           lq' = lq, runq' = runq, cur' = cur,
           nstate' = [nstate EXCEPT ![t] = "WAITING"],
           cpc' = [cpc EXCEPT ![c] = "acq"]
    PROVE  OneList' /\ NoThreadLost' /\ RunningInv'
<1>1. /\ ~OnList(t)
      /\ \A d \in Cpus : d # c => cur[d] # t
  BY SemAssumption DEF RunningInv, AcquirePoints
<1>2. /\ \A r \in Slots : t \notin Elems(sq[r])
      /\ \A d \in Cpus : t \notin lq[d]
      /\ t \notin runq
  BY <1>1 DEF OnList, Queued
<1>3. sq[s] \in Seq(Threads) /\ NoRepeats(sq[s])
  BY DEF TypeOK, OneList
<1>4. /\ Elems(Append(sq[s], t)) = Elems(sq[s]) \cup {t}
      /\ NoRepeats(Append(sq[s], t))
  BY <1>2, <1>3, AppendFacts
<1>5. /\ \A r \in Slots : r # s => sq'[r] = sq[r]
      /\ sq'[s] = Append(sq[s], t)
  BY DEF TypeOK
<1>6. OneList'
  <2>1. \A r \in Slots : NoRepeats(sq'[r])
    BY <1>4, <1>5 DEF OneList
  <2>2. \A r \in Slots : Elems(sq'[r]) \cap runq' = {}
    BY <1>2, <1>4, <1>5 DEF OneList
  <2>3. \A r, w \in Slots : r # w => Elems(sq'[r]) \cap Elems(sq'[w]) = {}
    BY <1>2, <1>4, <1>5 DEF OneList
  <2>4. \A d \in Cpus, r \in Slots : lq'[d] \cap Elems(sq'[r]) = {}
    BY <1>2, <1>4, <1>5 DEF OneList
  <2> QED BY <2>1, <2>2, <2>3, <2>4 DEF OneList
<1>7. ASSUME NEW x PROVE OnList(x)' <=> OnList(x) \/ x = t
  <2>1. Queued(x)' <=> Queued(x) \/ x = t
    BY <1>4, <1>5 DEF Queued
  <2> QED BY <2>1 DEF OnList
<1>8. NoThreadLost'
  BY <1>7, LostFacts DEF NoThreadLost, OnList, Queued
<1>9. RunningInv'
  <2> SUFFICES ASSUME NEW d \in Cpus, cur[d] \in Threads
               PROVE  /\ OnList(cur[d])' <=> cpc'[d] \in AcquirePoints
                      /\ nstate'[cur[d]] = "WAITING" <=> cpc'[d] \in AcquirePoints
    BY DEF RunningInv
  <2>1. CASE d = c
    BY <1>7, <2>1 DEF TypeOK, AcquirePoints
  <2>2. CASE d # c
    BY <1>1, <1>7, <2>2 DEF TypeOK, RunningInv
  <2> QED BY <2>1, <2>2
<1> QED BY <1>6, <1>8, <1>9

(* The threads of a local queue go to the run queues, and the CPU goes on  *)
(* with the thread it has.                                                 *)
LEMMA ListsWake ==
    ASSUME TypeOK, OneList, NoThreadLost, RunningInv, fault = "none",
           NEW c \in Cpus,
           runq' = runq \cup lq[c], lq' = [lq EXCEPT ![c] = {}],
           sq' = sq, cur' = cur, nstate' = nstate,
           \A d \in Cpus : cpc'[d] \in AcquirePoints <=> cpc[d] \in AcquirePoints
    PROVE  OneList' /\ NoThreadLost' /\ RunningInv'
<1>1. lq'[c] = {} /\ \A d \in Cpus : d # c => lq'[d] = lq[d]
  BY DEF TypeOK
<1>2. OneList'
  BY <1>1 DEF OneList
<1>3. ASSUME NEW x PROVE OnList(x)' <=> OnList(x)
  BY <1>1 DEF OnList, Queued
<1>4. NoThreadLost'
  BY <1>3, LostFacts DEF NoThreadLost, OnList, Queued
<1>5. RunningInv'
  BY <1>3 DEF RunningInv
<1> QED BY <1>2, <1>4, <1>5

(* thread_resched after the threads of the local queue went to the run     *)
(* queues.                                                                 *)
LEMMA ListsResched ==
    ASSUME TypeOK, OneList, NoThreadLost, RunningInv, fault = "none",
           NEW c \in Cpus, Resched(c, lq[c]),
           lq' = [lq EXCEPT ![c] = {}], sq' = sq
    PROVE  OneList' /\ NoThreadLost' /\ RunningInv'
<1> DEFINE old == {t \in Threads : t = cur[c] /\ nstate[t] = "READY"}
           pool == runq \cup lq[c] \cup old
<1>1. PICK next \in pool \cup {NoThread} :
        /\ runq' = pool \ {next}
        /\ nstate' = [t \in Threads |-> IF t = next THEN "READY" ELSE nstate[t]]
        /\ cur' = [cur EXCEPT ![c] = next]
        /\ cpc' = [cpc EXCEPT ![c] = IF next = NoThread THEN "run" ELSE tpc[next]]
        /\ fault' = IF next # NoThread /\ \E d \in Cpus \ {c} : cur[d] = next
                    THEN "twice" ELSE fault
  BY DEF Resched, Pool
<1>2. lq'[c] = {} /\ \A d \in Cpus : d # c => lq'[d] = lq[d]
  BY DEF TypeOK
<1>3. ASSUME NEW t \in old PROVE ~OnList(t)
  BY DEF RunningInv
<1>4. /\ \A r \in Slots : Elems(sq[r]) \cap pool = {}
      /\ \A d \in Cpus : d # c => lq[d] \cap pool = {}
  <2>1. /\ \A r \in Slots : Elems(sq[r]) \cap old = {}
        /\ \A d \in Cpus : lq[d] \cap old = {}
    BY <1>3 DEF OnList, Queued
  <2> QED BY <2>1 DEF OneList
<1>5. OneList'
  BY <1>1, <1>2, <1>4 DEF OneList
<1>6. pool \subseteq Threads /\ next \in Threads \cup {NoThread}
  BY <1>1 DEF TypeOK
<1>7. ASSUME NEW x \in Threads
      PROVE  OnList(x)' <=> (OnList(x) \/ x \in old) /\ x # next
  <2>1. x \in pool => \A d \in Cpus : d # c => x \notin lq[d]
    BY <1>4
  <2>2. Queued(x)' <=> Queued(x)
    BY DEF Queued
  <2>3. x \in pool => ~Queued(x)
    BY <1>4 DEF Queued
  <2>4. OnList(x)' <=> x \in pool \ {next} \/ Queued(x)
                         \/ \E d \in Cpus : d # c /\ x \in lq[d]
    BY <1>1, <1>2, <2>2 DEF OnList
  <2>5. OnList(x) \/ x \in old <=> x \in pool \/ Queued(x)
                         \/ \E d \in Cpus : d # c /\ x \in lq[d]
    BY DEF OnList
  <2>6. x = next => x \in pool
    BY <1>1, SemAssumption
  <2> QED BY <2>1, <2>3, <2>4, <2>5, <2>6
<1>8. cur'[c] = next /\ \A d \in Cpus : d # c => cur'[d] = cur[d]
  BY <1>1 DEF TypeOK
<1>9. ASSUME NEW x \in Threads PROVE OnList(x)' \/ \E d \in Cpus : cur'[d] = x
  <2>1. CASE x = next
    BY <1>8, <2>1
  <2>2. CASE x # next /\ x = cur[c]
    <3>1. x \in old \/ OnList(x)
      BY <2>2 DEF RunningInv, TypeOK
    <3> QED BY <1>7, <2>2, <3>1
  <2>3. CASE x # next /\ x # cur[c]
    BY <1>7, <1>8, <2>3, LostFacts
  <2> QED BY <2>1, <2>2, <2>3
<1>10. NoThreadLost'
  BY <1>9 DEF NoThreadLost, OnList, Queued
<1>11. ASSUME fault' = "none", NEW d \in Cpus, NEW x \in Threads, cur'[d] = x
       PROVE  /\ OnList(x)' <=> cpc'[d] \in AcquirePoints
              /\ nstate'[x] = "WAITING" <=> cpc'[d] \in AcquirePoints
              /\ \A e \in Cpus : d # e => x # cur'[e]
  <2>1. next # NoThread => \A e \in Cpus \ {c} : cur[e] # next
    BY <1>1, <1>11
  <2>2. CASE d = c
    <3>1. x = next
      BY <1>8, <1>11, <2>2
    <3>2. cpc'[d] \notin AcquirePoints
      <4>1. cpc'[d] = tpc[next] /\ tpc[next] \in {"run", "woken", "null"}
        BY <1>1, <1>11, <2>2, <3>1, SemAssumption DEF TypeOK
      <4> QED BY <4>1 DEF AcquirePoints
    <3>3. ~OnList(x)' /\ nstate'[x] = "READY"
      BY <1>1, <1>7, <3>1
    <3>4. \A e \in Cpus : d # e => x # cur'[e]
      BY <1>8, <2>1, <2>2, <3>1, SemAssumption
    <3> QED BY <3>2, <3>3, <3>4
  <2>3. CASE d # c
    <3>1. x = cur[d] /\ cpc'[d] = cpc[d] /\ x # next /\ nstate'[x] = nstate[x]
      BY <1>1, <1>8, <1>11, <2>1, <2>3, SemAssumption DEF TypeOK
    <3>2. /\ OnList(x) <=> cpc[d] \in AcquirePoints
          /\ nstate[x] = "WAITING" <=> cpc[d] \in AcquirePoints
          /\ \A e \in Cpus : d # e => x # cur[e]
      BY <3>1, SemAssumption DEF RunningInv
    <3>3. x \notin old
      BY <2>3, <3>2
    <3>4. \A e \in Cpus : d # e => x # cur'[e]
      BY <1>8, <3>1, <3>2
    <3> QED BY <1>7, <3>1, <3>2, <3>3, <3>4
  <2> QED BY <2>2, <2>3
<1>12. RunningInv'
  <2>1. cur' \in [Cpus -> Threads \cup {NoThread}]
    BY <1>1, <1>6 DEF TypeOK
  <2>2. ASSUME fault' = "none", NEW d \in Cpus, cur'[d] \in Threads
        PROVE  /\ (OnList(cur[d]))' <=> cpc'[d] \in AcquirePoints
               /\ nstate'[cur'[d]] = "WAITING" <=> cpc'[d] \in AcquirePoints
    <3>1. PICK x \in Threads : x = cur'[d]
      BY <2>2
    <3>2. /\ OnList(x)' <=> cpc'[d] \in AcquirePoints
          /\ nstate'[x] = "WAITING" <=> cpc'[d] \in AcquirePoints
      BY <1>11, <2>2, <3>1
    <3> QED BY <3>1, <3>2 DEF OnList, Queued
  <2>3. ASSUME fault' = "none", NEW d \in Cpus, NEW e \in Cpus, d # e,
               cur'[d] = cur'[e]
        PROVE  cur'[d] = NoThread
    BY <1>11, <2>1, <2>3
  <2> QED BY <2>2, <2>3 DEF RunningInv
<1> QED BY <1>5, <1>10, <1>12

(* Every step keeps every thread on exactly one list or on a CPU: each     *)
(* action is one of the five kinds of list operation above.                *)
LEMMA ListStep ==
    ASSUME TypeOK, ListInv, LocalsInv, RunningInv, Next
    PROVE  OneList' /\ NoThreadLost' /\ RunningInv'
<1> USE DEF threadVars, schedVars, cpuVars, semVars
<1>0. OneList /\ NoThreadLost /\ WaitsForLiveSem /\ fault = "none"
  BY DEF ListInv, Next
<1> USE <1>0
<1> PICK c \in Cpus : Call(c) \/ KernelStep(c) \/ Interrupt(c)
  BY DEF Next
<1>1. ASSUME NEW i \in Slots, NEW n \in InitCounts, create_sem_etc(c, i, n)
      PROVE  OneList' /\ NoThreadLost' /\ RunningInv'
  <2>1. sq[i] = <<>>
    <3>1. Elems(sq[i]) = {}
      BY <1>1 DEF create_sem_etc, WaitsForLiveSem
    <3> QED BY <3>1, ElemsFacts DEF TypeOK
  <2>2. /\ sq' = sq /\ lq' = lq /\ runq' = runq /\ cur' = cur /\ nstate' = nstate
        /\ cpc' = cpc
    BY <1>1, <2>1 DEF create_sem_etc, TypeOK
  <2> QED BY <2>2, ListsSame
<1>2. ASSUME NEW s \in Slots, DeleteEnter(c, s)
      PROVE  OneList' /\ NoThreadLost' /\ RunningInv'
  <2>1. /\ sq' = sq /\ lq' = lq /\ runq' = runq /\ cur' = cur /\ nstate' = nstate
        /\ \A d \in Cpus : cpc'[d] \in AcquirePoints <=> cpc[d] \in AcquirePoints
    BY <1>2 DEF DeleteEnter, TypeOK, AcquirePoints
  <2> QED BY <2>1, ListsSame
<1>3. ASSUME NEW s \in Slots, NEW n \in AcquireCounts, AcquireTake(c, s, n)
      PROVE  OneList' /\ NoThreadLost' /\ RunningInv'
  <2>1. /\ sq' = sq /\ lq' = lq /\ runq' = runq /\ cur' = cur /\ nstate' = nstate
        /\ \A d \in Cpus : cpc'[d] \in AcquirePoints <=> cpc[d] \in AcquirePoints
    BY <1>3 DEF AcquireTake, TypeOK, AcquirePoints
  <2> QED BY <2>1, ListsSame
<1>4. ASSUME NEW s \in Slots, NEW n \in AcquireCounts, NEW f \in FlagSets,
             AcquireBlock(c, s, n, f)
      PROVE  OneList' /\ NoThreadLost' /\ RunningInv'
  <2>1. cur[c] \in Threads
    BY <1>4 DEF AcquireBlock, TypeOK
  <2> QED BY <1>4, <2>1, ListsEnqueue DEF AcquireBlock
<1>5. ASSUME NEW s \in Slots, NEW n \in ReleaseCounts, ReleaseEnter(c, s, n)
      PROVE  OneList' /\ NoThreadLost' /\ RunningInv'
  <2>1. /\ sq' = sq /\ lq' = lq /\ runq' = runq /\ cur' = cur /\ nstate' = nstate
        /\ \A d \in Cpus : cpc'[d] \in AcquirePoints <=> cpc[d] \in AcquirePoints
    BY <1>5 DEF ReleaseEnter, TypeOK, AcquirePoints
  <2> QED BY <2>1, ListsSame
<1>6. ASSUME NEW t \in Threads, KillPending(c, t)
      PROVE  OneList' /\ NoThreadLost' /\ RunningInv'
  <2>1. /\ sq' = sq /\ lq' = lq /\ runq' = runq /\ cur' = cur /\ nstate' = nstate
        /\ \A d \in Cpus : cpc'[d] \in AcquirePoints <=> cpc[d] \in AcquirePoints
    BY <1>6 DEF KillPending, TypeOK, AcquirePoints
  <2> QED BY <2>1, ListsSame
<1>7. ASSUME NEW t \in Threads, KillWaiting(c, t)
      PROVE  OneList' /\ NoThreadLost' /\ RunningInv'
  <2>1. /\ sq' = sq /\ lq' = lq /\ runq' = runq /\ cur' = cur /\ nstate' = nstate
        /\ \A d \in Cpus : cpc'[d] \in AcquirePoints <=> cpc[d] \in AcquirePoints
    BY <1>7 DEF KillWaiting, TypeOK, AcquirePoints
  <2> QED BY <2>1, ListsSame
<1>8. ASSUME NEW t \in Threads, TimerInterrupt(c, t)
      PROVE  OneList' /\ NoThreadLost' /\ RunningInv'
  <2>1. /\ sq' = sq /\ lq' = lq /\ runq' = runq /\ cur' = cur /\ nstate' = nstate
        /\ \A d \in Cpus : cpc'[d] \in AcquirePoints <=> cpc[d] \in AcquirePoints
    BY <1>8 DEF TimerInterrupt, TypeOK, AcquirePoints
  <2> QED BY <2>1, ListsSame
<1>9. CASE Preempt(c)
  <2>1. lq[c] = {}
    BY <1>9 DEF Preempt, LocalsInv, QueuePoints
  <2>2. Resched(c, lq[c]) /\ lq' = [lq EXCEPT ![c] = {}] /\ sq' = sq
    BY <1>9, <2>1 DEF Preempt, TypeOK
  <2> QED BY <2>2, ListsResched
<1>10. CASE DeleteWaiter(c)
  <2> DEFINE s == lslot[c]
             t == Head(sq[lslot[c]])
             q == Tail(sq[lslot[c]])
  <2>1. s \in Slots /\ sq[s] \in Seq(Threads) /\ NoRepeats(sq[s])
    BY DEF TypeOK, OneList
  <2>2. t \in Elems(sq[s])
    BY <1>10, <2>1, ElemsFacts DEF DeleteWaiter, WakeLoop
  <2>3. q \in Seq(Threads) /\ Elems(q) = Elems(sq[s]) \ {t} /\ NoRepeats(q)
    BY <1>10, <2>1, <2>2, ElemsFacts, TailFacts DEF DeleteWaiter, WakeLoop
  <2>4. /\ sq' = [sq EXCEPT ![s] = q] /\ lq' = [lq EXCEPT ![c] = lq[c] \cup {t}]
        /\ runq' = runq /\ cur' = cur /\ nstate' = nstate
    BY <1>10 DEF DeleteWaiter, RemoveThread, LocalsInv, QueuePoints, TypeOK
  <2>5. \A d \in Cpus : cpc'[d] \in AcquirePoints <=> cpc[d] \in AcquirePoints
    BY <1>10 DEF DeleteWaiter, TypeOK, AcquirePoints
  <2> HIDE DEF s, t, q
  <2> QED BY <2>1, <2>2, <2>3, <2>4, <2>5, ListsMove
<1>11. CASE DeleteEntry(c)
  <2>1. /\ sq' = sq /\ lq' = lq /\ runq' = runq /\ cur' = cur /\ nstate' = nstate
        /\ \A d \in Cpus : cpc'[d] \in AcquirePoints <=> cpc[d] \in AcquirePoints
    BY <1>11 DEF DeleteEntry, TypeOK, AcquirePoints
  <2> QED BY <2>1, ListsSame
<1>12. CASE DeleteWake(c)
  <2>1. Resched(c, lq[c]) /\ lq' = [lq EXCEPT ![c] = {}] /\ sq' = sq
    BY <1>12 DEF DeleteWake
  <2> QED BY <2>1, ListsResched
<1>13. CASE AcquireResched(c)
  <2>1. lq[c] = {}
    BY <1>13 DEF AcquireResched, LocalsInv, QueuePoints
  <2>2. Resched(c, lq[c]) /\ lq' = [lq EXCEPT ![c] = {}] /\ sq' = sq
    BY <1>13, <2>1 DEF AcquireResched, TypeOK
  <2> QED BY <2>2, ListsResched
<1>14. CASE AcquireSeesKill(c)
  <2>1. /\ sq' = sq /\ lq' = lq /\ runq' = runq /\ cur' = cur /\ nstate' = nstate
        /\ \A d \in Cpus : cpc'[d] \in AcquirePoints <=> cpc[d] \in AcquirePoints
    BY <1>14 DEF AcquireSeesKill, TypeOK, AcquirePoints
  <2> QED BY <2>1, ListsSame
<1>15. CASE AcquireReturn(c)
  <2>1. /\ sq' = sq /\ lq' = lq /\ runq' = runq /\ cur' = cur /\ nstate' = nstate
        /\ \A d \in Cpus : cpc'[d] \in AcquirePoints <=> cpc[d] \in AcquirePoints
    BY <1>15 DEF AcquireReturn, TypeOK, AcquirePoints
  <2> QED BY <2>1, ListsSame
<1>16. CASE AcquireNull(c)
  <2>1. /\ sq' = sq /\ lq' = lq /\ runq' = runq /\ cur' = cur /\ nstate' = nstate
        /\ \A d \in Cpus : cpc'[d] \in AcquirePoints <=> cpc[d] \in AcquirePoints
    BY <1>16 DEF AcquireNull, TypeOK, AcquirePoints
  <2> QED BY <2>1, ListsSame
<1>17. CASE AcquireKilled(c)
  <2> DEFINE s == lslot[c]
             t == lt[c]
             q == Without(sq[lslot[c]], lt[c])
  <2>1. s \in Slots /\ sq[s] \in Seq(Threads) /\ NoRepeats(sq[s])
    BY DEF TypeOK, OneList
  <2>2. t \in Elems(sq[s])
    BY <1>17, <2>1, ElemsFacts DEF AcquireKilled, WakeLoop
  <2>3. q \in Seq(Threads) /\ Elems(q) = Elems(sq[s]) \ {t} /\ NoRepeats(q)
    BY SMTT(30), <1>17, <2>1, <2>2, ElemsFacts, WithoutFacts DEF AcquireKilled, WakeLoop
  <2>4. /\ sq' = [sq EXCEPT ![s] = q] /\ lq' = [lq EXCEPT ![c] = lq[c] \cup {t}]
        /\ runq' = runq /\ cur' = cur /\ nstate' = nstate
    BY <1>17 DEF AcquireKilled, RemoveThread, LocalsInv, QueuePoints, TypeOK
  <2>5. \A d \in Cpus : cpc'[d] \in AcquirePoints <=> cpc[d] \in AcquirePoints
    BY <1>17 DEF AcquireKilled, TypeOK, AcquirePoints
  <2> HIDE DEF s, t, q
  <2> QED BY <2>1, <2>2, <2>3, <2>4, <2>5, ListsMove
<1>18. CASE AcquireKilledLate(c)
  <2>1. /\ sq' = sq /\ lq' = lq /\ runq' = runq /\ cur' = cur /\ nstate' = nstate
        /\ \A d \in Cpus : cpc'[d] \in AcquirePoints <=> cpc[d] \in AcquirePoints
    BY <1>18 DEF AcquireKilledLate, TypeOK, AcquirePoints
  <2> QED BY <2>1, ListsSame
<1>19. CASE AcquireKilledWake(c)
  <2>1. Resched(c, lq[c]) /\ lq' = [lq EXCEPT ![c] = {}] /\ sq' = sq
    BY <1>19 DEF AcquireKilledWake
  <2> QED BY <2>1, ListsResched
<1>20. CASE ReleaseAdd(c)
  <2>1. /\ sq' = sq /\ lq' = lq /\ runq' = runq /\ cur' = cur /\ nstate' = nstate
        /\ \A d \in Cpus : cpc'[d] \in AcquirePoints <=> cpc[d] \in AcquirePoints
    BY <1>20 DEF ReleaseAdd, TypeOK, AcquirePoints
  <2> QED BY <2>1, ListsSame
<1>21. CASE ReleaseWaiter(c)
  <2> DEFINE s == lslot[c]
             t == Head(sq[lslot[c]])
             q == Tail(sq[lslot[c]])
  <2>1. s \in Slots /\ sq[s] \in Seq(Threads) /\ NoRepeats(sq[s])
    BY DEF TypeOK, OneList
  <2>2. t \in Elems(sq[s])
    BY <1>21, <2>1, ElemsFacts DEF ReleaseWaiter, WakeLoop
  <2>3. q \in Seq(Threads) /\ Elems(q) = Elems(sq[s]) \ {t} /\ NoRepeats(q)
    BY <1>21, <2>1, <2>2, ElemsFacts, TailFacts DEF ReleaseWaiter, WakeLoop
  <2>4. /\ sq' = [sq EXCEPT ![s] = q] /\ lq' = [lq EXCEPT ![c] = lq[c] \cup {t}]
        /\ runq' = runq /\ cur' = cur /\ nstate' = nstate
    BY <1>21 DEF ReleaseWaiter, RemoveThread, LocalsInv, QueuePoints, TypeOK
  <2>5. \A d \in Cpus : cpc'[d] \in AcquirePoints <=> cpc[d] \in AcquirePoints
    BY <1>21 DEF ReleaseWaiter, TypeOK, AcquirePoints
  <2> HIDE DEF s, t, q
  <2> QED BY <2>1, <2>2, <2>3, <2>4, <2>5, ListsMove
<1>22. CASE ReleasePart(c)
  <2>1. /\ sq' = sq /\ lq' = lq /\ runq' = runq /\ cur' = cur /\ nstate' = nstate
        /\ \A d \in Cpus : cpc'[d] \in AcquirePoints <=> cpc[d] \in AcquirePoints
    BY <1>22 DEF ReleasePart, TypeOK, AcquirePoints
  <2> QED BY <2>1, ListsSame
<1>23. CASE ReleaseNobody(c)
  <2>1. /\ sq' = sq /\ lq' = lq /\ runq' = runq /\ cur' = cur /\ nstate' = nstate
        /\ \A d \in Cpus : cpc'[d] \in AcquirePoints <=> cpc[d] \in AcquirePoints
    BY <1>23 DEF ReleaseNobody, TypeOK, AcquirePoints
  <2> QED BY <2>1, ListsSame
<1>24. CASE ReleaseUnlock(c)
  <2>1. /\ sq' = sq /\ lq' = lq /\ runq' = runq /\ cur' = cur /\ nstate' = nstate
        /\ \A d \in Cpus : cpc'[d] \in AcquirePoints <=> cpc[d] \in AcquirePoints
    BY <1>24 DEF ReleaseUnlock, TypeOK, AcquirePoints
  <2> QED BY <2>1, ListsSame
<1>25. CASE ReleaseWake(c)
  <2>1. Resched(c, lq[c]) /\ lq' = [lq EXCEPT ![c] = {}] /\ sq' = sq
    BY <1>25 DEF ReleaseWake
  <2> QED BY <2>1, ListsResched
<1>26. CASE ReleaseWakeOnly(c)
  <2>1. /\ runq' = runq \cup lq[c] /\ lq' = [lq EXCEPT ![c] = {}]
        /\ sq' = sq /\ cur' = cur /\ nstate' = nstate
        /\ \A d \in Cpus : cpc'[d] \in AcquirePoints <=> cpc[d] \in AcquirePoints
    BY <1>26 DEF ReleaseWakeOnly, TypeOK, AcquirePoints
  <2> QED BY <2>1, ListsWake
<1>27. CASE RemoveWakeFirst(c)
  <2> DEFINE s == lslot[c]
             t == Head(sq[lslot[c]])
             q == Tail(sq[lslot[c]])
  <2>1. s \in Slots /\ sq[s] \in Seq(Threads) /\ NoRepeats(sq[s])
    BY DEF TypeOK, OneList
  <2>2. t \in Elems(sq[s])
    BY <1>27, <2>1, ElemsFacts DEF RemoveWakeFirst, WakeLoop
  <2>3. q \in Seq(Threads) /\ Elems(q) = Elems(sq[s]) \ {t} /\ NoRepeats(q)
    BY <1>27, <2>1, <2>2, ElemsFacts, TailFacts DEF RemoveWakeFirst, WakeLoop
  <2>4. /\ sq' = [sq EXCEPT ![s] = q] /\ lq' = [lq EXCEPT ![c] = lq[c] \cup {t}]
        /\ runq' = runq /\ cur' = cur /\ nstate' = nstate
    BY <1>27 DEF RemoveWakeFirst, RemoveThread, LocalsInv, QueuePoints, TypeOK
  <2>5. \A d \in Cpus : cpc'[d] \in AcquirePoints <=> cpc[d] \in AcquirePoints
    BY <1>27 DEF RemoveWakeFirst, TypeOK, AcquirePoints
  <2> HIDE DEF s, t, q
  <2> QED BY <2>1, <2>2, <2>3, <2>4, <2>5, ListsMove
<1>28. CASE RemovePart(c)
  <2>1. /\ sq' = sq /\ lq' = lq /\ runq' = runq /\ cur' = cur /\ nstate' = nstate
        /\ \A d \in Cpus : cpc'[d] \in AcquirePoints <=> cpc[d] \in AcquirePoints
    BY <1>28 DEF RemovePart, TypeOK, AcquirePoints
  <2> QED BY <2>1, ListsSame
<1>29. CASE RemoveUnlock(c)
  <2>1. /\ sq' = sq /\ lq' = lq /\ runq' = runq /\ cur' = cur /\ nstate' = nstate
        /\ \A d \in Cpus : cpc'[d] \in AcquirePoints <=> cpc[d] \in AcquirePoints
    BY <1>29 DEF RemoveUnlock, TypeOK, AcquirePoints
  <2> QED BY <2>1, ListsSame
<1>30. CASE TimeoutRemove(c)
  <2> DEFINE s == lslot[c]
             t == lt[c]
             q == Without(sq[lslot[c]], lt[c])
  <2>1. s \in Slots /\ sq[s] \in Seq(Threads) /\ NoRepeats(sq[s])
    BY DEF TypeOK, OneList
  <2>2. t \in Elems(sq[s])
    BY <1>30, <2>1, ElemsFacts DEF TimeoutRemove, WakeLoop
  <2>3. q \in Seq(Threads) /\ Elems(q) = Elems(sq[s]) \ {t} /\ NoRepeats(q)
    BY SMTT(30), <1>30, <2>1, <2>2, ElemsFacts, WithoutFacts DEF TimeoutRemove, WakeLoop
  <2>4. /\ sq' = [sq EXCEPT ![s] = q] /\ lq' = [lq EXCEPT ![c] = lq[c] \cup {t}]
        /\ runq' = runq /\ cur' = cur /\ nstate' = nstate
    BY <1>30 DEF TimeoutRemove, RemoveThread, LocalsInv, QueuePoints, TypeOK
  <2>5. \A d \in Cpus : cpc'[d] \in AcquirePoints <=> cpc[d] \in AcquirePoints
    BY <1>30 DEF TimeoutRemove, TypeOK, AcquirePoints
  <2> HIDE DEF s, t, q
  <2> QED BY <2>1, <2>2, <2>3, <2>4, <2>5, ListsMove
<1>31. CASE TimeoutLate(c)
  <2>1. /\ sq' = sq /\ lq' = lq /\ runq' = runq /\ cur' = cur /\ nstate' = nstate
        /\ \A d \in Cpus : cpc'[d] \in AcquirePoints <=> cpc[d] \in AcquirePoints
    BY <1>31 DEF TimeoutLate, TypeOK, AcquirePoints
  <2> QED BY <2>1, ListsSame
<1>32. CASE TimeoutPanic(c)
  <2>1. /\ sq' = sq /\ lq' = lq /\ runq' = runq /\ cur' = cur /\ nstate' = nstate
        /\ \A d \in Cpus : cpc'[d] \in AcquirePoints <=> cpc[d] \in AcquirePoints
    BY <1>32 DEF TimeoutPanic, TypeOK, AcquirePoints
  <2> QED BY <2>1, ListsSame
<1>33. CASE TimeoutWake(c)
  <2>1. Resched(c, lq[c]) /\ lq' = [lq EXCEPT ![c] = {}] /\ sq' = sq
    BY <1>33 DEF TimeoutWake
  <2> QED BY <2>1, ListsResched
<1>34. CASE KillRemove(c)
  <2> DEFINE s == lslot[c]
             t == lt[c]
             q == Without(sq[lslot[c]], lt[c])
  <2>1. s \in Slots /\ sq[s] \in Seq(Threads) /\ NoRepeats(sq[s])
    BY DEF TypeOK, OneList
  <2>2. t \in Elems(sq[s])
    BY <1>34, <2>1, ElemsFacts DEF KillRemove, WakeLoop
  <2>3. q \in Seq(Threads) /\ Elems(q) = Elems(sq[s]) \ {t} /\ NoRepeats(q)
    BY SMTT(30), <1>34, <2>1, <2>2, ElemsFacts, WithoutFacts DEF KillRemove, WakeLoop
  <2>4. /\ sq' = [sq EXCEPT ![s] = q] /\ lq' = [lq EXCEPT ![c] = lq[c] \cup {t}]
        /\ runq' = runq /\ cur' = cur /\ nstate' = nstate
    BY <1>34 DEF KillRemove, RemoveThread, LocalsInv, QueuePoints, TypeOK
  <2>5. \A d \in Cpus : cpc'[d] \in AcquirePoints <=> cpc[d] \in AcquirePoints
    BY <1>34 DEF KillRemove, TypeOK, AcquirePoints
  <2> HIDE DEF s, t, q
  <2> QED BY <2>1, <2>2, <2>3, <2>4, <2>5, ListsMove
<1>35. CASE KillPanic(c)
  <2>1. /\ sq' = sq /\ lq' = lq /\ runq' = runq /\ cur' = cur /\ nstate' = nstate
        /\ \A d \in Cpus : cpc'[d] \in AcquirePoints <=> cpc[d] \in AcquirePoints
    BY <1>35 DEF KillPanic, TypeOK, AcquirePoints
  <2> QED BY <2>1, ListsSame
<1>36. CASE KillWake(c)
  <2>1. /\ runq' = runq \cup lq[c] /\ lq' = [lq EXCEPT ![c] = {}]
        /\ sq' = sq /\ cur' = cur /\ nstate' = nstate
        /\ \A d \in Cpus : cpc'[d] \in AcquirePoints <=> cpc[d] \in AcquirePoints
    BY <1>36 DEF KillWake, TypeOK, AcquirePoints
  <2> QED BY <2>1, ListsWake
<1> QED
  BY <1>1, <1>2, <1>3, <1>4, <1>5, <1>6, <1>7, <1>8, <1>9, <1>10, <1>11, <1>12,
     <1>13, <1>14, <1>15, <1>16, <1>17, <1>18, <1>19, <1>20, <1>21, <1>22, <1>23, <1>24,
     <1>25, <1>26, <1>27, <1>28, <1>29, <1>30, <1>31, <1>32, <1>33, <1>34, <1>35, <1>36
     DEF Call, KernelStep, Interrupt

(* Every step keeps the waiters of a slot waiting for the semaphore that   *)
(* is in it.                                                               *)
LEMMA LiveStep ==
    ASSUME TypeOK, ListInv, LocalsInv, RunningInv, Next
    PROVE  WaitsForLiveSem'
<1> USE DEF threadVars, schedVars, cpuVars, semVars
<1>0. OneList /\ NoThreadLost /\ WaitsForLiveSem /\ fault = "none"
  BY DEF ListInv, Next
<1> USE <1>0
<1> PICK c \in Cpus : Call(c) \/ KernelStep(c) \/ Interrupt(c)
  BY DEF Next
<1>1. ASSUME NEW i \in Slots, NEW n \in InitCounts, create_sem_etc(c, i, n)
      PROVE  WaitsForLiveSem'
  <2>1. Elems(<<>>) = {}
    BY DEF Elems
  <2>2. /\ blk' = blk /\ sq'[i] = <<>>
        /\ \A r \in Slots : r # i => sq'[r] = sq[r] /\ sid'[r] = sid[r]
    BY <1>1 DEF create_sem_etc, TypeOK
  <2> QED BY <2>1, <2>2 DEF WaitsForLiveSem
<1>2. ASSUME NEW s \in Slots, DeleteEnter(c, s)
      PROVE  WaitsForLiveSem'
  <2>1. sq' = sq /\ sid' = sid /\ blk' = blk
    BY <1>2 DEF DeleteEnter
  <2> QED BY <2>1 DEF WaitsForLiveSem
<1>3. ASSUME NEW s \in Slots, NEW n \in AcquireCounts, AcquireTake(c, s, n)
      PROVE  WaitsForLiveSem'
  <2>1. sq' = sq /\ sid' = sid /\ blk' = blk
    BY <1>3 DEF AcquireTake
  <2> QED BY <2>1 DEF WaitsForLiveSem
<1>4. ASSUME NEW s \in Slots, NEW n \in AcquireCounts, NEW f \in FlagSets,
             AcquireBlock(c, s, n, f)
      PROVE  WaitsForLiveSem'
  <2> DEFINE t == cur[c]
  <2>1. t \in Threads /\ sid' = sid /\ sid[s] # -1
    BY <1>4 DEF AcquireBlock, TypeOK
  <2>2. \A r \in Slots : t \notin Elems(sq[r])
    <3>1. ~OnList(t)
      BY <1>4, <2>1 DEF AcquireBlock, RunningInv, AcquirePoints
    <3> QED BY <3>1 DEF OnList, Queued
  <2>3. /\ blk'[t] = sid[s] /\ \A x \in Threads : x # t => blk'[x] = blk[x]
        /\ sq'[s] = Append(sq[s], t) /\ \A r \in Slots : r # s => sq'[r] = sq[r]
    BY <1>4, <2>1 DEF AcquireBlock, TypeOK
  <2>4. \A r \in Slots : Elems(sq[r]) \subseteq Threads
    BY ElemsFacts DEF TypeOK
  <2>5. Elems(sq'[s]) = Elems(sq[s]) \cup {t}
    BY <2>1, <2>2, <2>3, AppendFacts DEF TypeOK
  <2> HIDE DEF t
  <2> QED BY <2>1, <2>2, <2>3, <2>4, <2>5 DEF WaitsForLiveSem
<1>5. ASSUME NEW s \in Slots, NEW n \in ReleaseCounts, ReleaseEnter(c, s, n)
      PROVE  WaitsForLiveSem'
  <2>1. sq' = sq /\ sid' = sid /\ blk' = blk
    BY <1>5 DEF ReleaseEnter
  <2> QED BY <2>1 DEF WaitsForLiveSem
<1>6. ASSUME NEW t \in Threads, KillPending(c, t)
      PROVE  WaitsForLiveSem'
  <2>1. sq' = sq /\ sid' = sid /\ blk' = blk
    BY <1>6 DEF KillPending
  <2> QED BY <2>1 DEF WaitsForLiveSem
<1>7. ASSUME NEW t \in Threads, KillWaiting(c, t)
      PROVE  WaitsForLiveSem'
  <2>1. sq' = sq /\ sid' = sid /\ blk' = blk
    BY <1>7 DEF KillWaiting
  <2> QED BY <2>1 DEF WaitsForLiveSem
<1>8. ASSUME NEW t \in Threads, TimerInterrupt(c, t)
      PROVE  WaitsForLiveSem'
  <2>1. sq' = sq /\ sid' = sid /\ blk' = blk
    BY <1>8 DEF TimerInterrupt
  <2> QED BY <2>1 DEF WaitsForLiveSem
<1>9. CASE Preempt(c)
  <2>1. sq' = sq /\ sid' = sid /\ blk' = blk
    BY <1>9 DEF Preempt
  <2> QED BY <2>1 DEF WaitsForLiveSem
<1>10. CASE DeleteWaiter(c)
  <2> DEFINE s == lslot[c]
  <2>1. s \in Slots /\ sq[s] \in Seq(Threads) /\ NoRepeats(sq[s]) /\ sq[s] # <<>>
    BY <1>10 DEF DeleteWaiter, WakeLoop, TypeOK, OneList
  <2>2. /\ sid' = sid /\ blk' = blk /\ sq'[s] = Tail(sq[s])
        /\ \A r \in Slots : r # s => sq'[r] = sq[r]
    BY <1>10 DEF DeleteWaiter, TypeOK
  <2>3. Elems(sq'[s]) \subseteq Elems(sq[s])
    BY <2>1, <2>2, TailFacts
  <2> HIDE DEF s
  <2> QED BY <2>1, <2>2, <2>3 DEF WaitsForLiveSem
<1>11. CASE DeleteEntry(c)
  <2>1. sq' = sq /\ blk' = blk /\ lslot[c] \in Slots /\ sq[lslot[c]] = <<>>
    BY <1>11 DEF DeleteEntry, Drained, TypeOK
  <2>2. Elems(sq[lslot[c]]) = {}
    BY <2>1 DEF Elems
  <2>3. \A r \in Slots : r # lslot[c] => sid'[r] = sid[r]
    BY <1>11 DEF DeleteEntry, TypeOK
  <2> QED BY <2>1, <2>2, <2>3 DEF WaitsForLiveSem
<1>12. CASE DeleteWake(c)
  <2>1. sq' = sq /\ sid' = sid /\ blk' = blk
    BY <1>12 DEF DeleteWake
  <2> QED BY <2>1 DEF WaitsForLiveSem
<1>13. CASE AcquireResched(c)
  <2>1. sq' = sq /\ sid' = sid /\ blk' = blk
    BY <1>13 DEF AcquireResched
  <2> QED BY <2>1 DEF WaitsForLiveSem
<1>14. CASE AcquireSeesKill(c)
  <2>1. sq' = sq /\ sid' = sid /\ blk' = blk
    BY <1>14 DEF AcquireSeesKill
  <2> QED BY <2>1 DEF WaitsForLiveSem
<1>15. CASE AcquireReturn(c)
  <2>1. sq' = sq /\ sid' = sid /\ blk' = blk
    BY <1>15 DEF AcquireReturn
  <2> QED BY <2>1 DEF WaitsForLiveSem
<1>16. CASE AcquireNull(c)
  <2>1. sq' = sq /\ sid' = sid /\ blk' = blk
    BY <1>16 DEF AcquireNull
  <2> QED BY <2>1 DEF WaitsForLiveSem
<1>17. CASE AcquireKilled(c)
  <2> DEFINE s == lslot[c]
  <2>1. s \in Slots /\ sq[s] \in Seq(Threads) /\ NoRepeats(sq[s])
        /\ lt[c] \in Elems(sq[s])
    BY <1>17 DEF AcquireKilled, TypeOK, OneList
  <2>2. /\ sid' = sid /\ blk' = blk /\ sq'[s] = Without(sq[s], lt[c])
        /\ \A r \in Slots : r # s => sq'[r] = sq[r]
    BY <1>17 DEF AcquireKilled, RemoveThread, TypeOK
  <2>3. Elems(sq'[s]) \subseteq Elems(sq[s])
    BY <2>1, <2>2, WithoutFacts
  <2> HIDE DEF s
  <2> QED BY <2>1, <2>2, <2>3 DEF WaitsForLiveSem
<1>18. CASE AcquireKilledLate(c)
  <2>1. sq' = sq /\ sid' = sid /\ blk' = blk
    BY <1>18 DEF AcquireKilledLate
  <2> QED BY <2>1 DEF WaitsForLiveSem
<1>19. CASE AcquireKilledWake(c)
  <2>1. sq' = sq /\ sid' = sid /\ blk' = blk
    BY <1>19 DEF AcquireKilledWake
  <2> QED BY <2>1 DEF WaitsForLiveSem
<1>20. CASE ReleaseAdd(c)
  <2>1. sq' = sq /\ sid' = sid /\ blk' = blk
    BY <1>20 DEF ReleaseAdd
  <2> QED BY <2>1 DEF WaitsForLiveSem
<1>21. CASE ReleaseWaiter(c)
  <2> DEFINE s == lslot[c]
  <2>1. s \in Slots /\ sq[s] \in Seq(Threads) /\ NoRepeats(sq[s]) /\ sq[s] # <<>>
    BY <1>21 DEF ReleaseWaiter, WakeLoop, TypeOK, OneList
  <2>2. /\ sid' = sid /\ blk' = blk /\ sq'[s] = Tail(sq[s])
        /\ \A r \in Slots : r # s => sq'[r] = sq[r]
    BY <1>21 DEF ReleaseWaiter, TypeOK
  <2>3. Elems(sq'[s]) \subseteq Elems(sq[s])
    BY <2>1, <2>2, TailFacts
  <2> HIDE DEF s
  <2> QED BY <2>1, <2>2, <2>3 DEF WaitsForLiveSem
<1>22. CASE ReleasePart(c)
  <2>1. sq' = sq /\ sid' = sid /\ blk' = blk
    BY <1>22 DEF ReleasePart
  <2> QED BY <2>1 DEF WaitsForLiveSem
<1>23. CASE ReleaseNobody(c)
  <2>1. sq' = sq /\ sid' = sid /\ blk' = blk
    BY <1>23 DEF ReleaseNobody
  <2> QED BY <2>1 DEF WaitsForLiveSem
<1>24. CASE ReleaseUnlock(c)
  <2>1. sq' = sq /\ sid' = sid /\ blk' = blk
    BY <1>24 DEF ReleaseUnlock
  <2> QED BY <2>1 DEF WaitsForLiveSem
<1>25. CASE ReleaseWake(c)
  <2>1. sq' = sq /\ sid' = sid /\ blk' = blk
    BY <1>25 DEF ReleaseWake
  <2> QED BY <2>1 DEF WaitsForLiveSem
<1>26. CASE ReleaseWakeOnly(c)
  <2>1. sq' = sq /\ sid' = sid /\ blk' = blk
    BY <1>26 DEF ReleaseWakeOnly
  <2> QED BY <2>1 DEF WaitsForLiveSem
<1>27. CASE RemoveWakeFirst(c)
  <2> DEFINE s == lslot[c]
  <2>1. s \in Slots /\ sq[s] \in Seq(Threads) /\ NoRepeats(sq[s]) /\ sq[s] # <<>>
    BY <1>27 DEF RemoveWakeFirst, WakeLoop, TypeOK, OneList
  <2>2. /\ sid' = sid /\ blk' = blk /\ sq'[s] = Tail(sq[s])
        /\ \A r \in Slots : r # s => sq'[r] = sq[r]
    BY <1>27 DEF RemoveWakeFirst, TypeOK
  <2>3. Elems(sq'[s]) \subseteq Elems(sq[s])
    BY <2>1, <2>2, TailFacts
  <2> HIDE DEF s
  <2> QED BY <2>1, <2>2, <2>3 DEF WaitsForLiveSem
<1>28. CASE RemovePart(c)
  <2>1. sq' = sq /\ sid' = sid /\ blk' = blk
    BY <1>28 DEF RemovePart
  <2> QED BY <2>1 DEF WaitsForLiveSem
<1>29. CASE RemoveUnlock(c)
  <2>1. sq' = sq /\ sid' = sid /\ blk' = blk
    BY <1>29 DEF RemoveUnlock
  <2> QED BY <2>1 DEF WaitsForLiveSem
<1>30. CASE TimeoutRemove(c)
  <2> DEFINE s == lslot[c]
  <2>1. s \in Slots /\ sq[s] \in Seq(Threads) /\ NoRepeats(sq[s])
        /\ lt[c] \in Elems(sq[s])
    BY <1>30 DEF TimeoutRemove, TypeOK, OneList
  <2>2. /\ sid' = sid /\ blk' = blk /\ sq'[s] = Without(sq[s], lt[c])
        /\ \A r \in Slots : r # s => sq'[r] = sq[r]
    BY <1>30 DEF TimeoutRemove, RemoveThread, TypeOK
  <2>3. Elems(sq'[s]) \subseteq Elems(sq[s])
    BY <2>1, <2>2, WithoutFacts
  <2> HIDE DEF s
  <2> QED BY <2>1, <2>2, <2>3 DEF WaitsForLiveSem
<1>31. CASE TimeoutLate(c)
  <2>1. sq' = sq /\ sid' = sid /\ blk' = blk
    BY <1>31 DEF TimeoutLate
  <2> QED BY <2>1 DEF WaitsForLiveSem
<1>32. CASE TimeoutPanic(c)
  <2>1. sq' = sq /\ sid' = sid /\ blk' = blk
    BY <1>32 DEF TimeoutPanic
  <2> QED BY <2>1 DEF WaitsForLiveSem
<1>33. CASE TimeoutWake(c)
  <2>1. sq' = sq /\ sid' = sid /\ blk' = blk
    BY <1>33 DEF TimeoutWake
  <2> QED BY <2>1 DEF WaitsForLiveSem
<1>34. CASE KillRemove(c)
  <2> DEFINE s == lslot[c]
  <2>1. s \in Slots /\ sq[s] \in Seq(Threads) /\ NoRepeats(sq[s])
        /\ lt[c] \in Elems(sq[s])
    BY <1>34 DEF KillRemove, TypeOK, OneList
  <2>2. /\ sid' = sid /\ blk' = blk /\ sq'[s] = Without(sq[s], lt[c])
        /\ \A r \in Slots : r # s => sq'[r] = sq[r]
    BY <1>34 DEF KillRemove, RemoveThread, TypeOK
  <2>3. Elems(sq'[s]) \subseteq Elems(sq[s])
    BY <2>1, <2>2, WithoutFacts
  <2> HIDE DEF s
  <2> QED BY <2>1, <2>2, <2>3 DEF WaitsForLiveSem
<1>35. CASE KillPanic(c)
  <2>1. sq' = sq /\ sid' = sid /\ blk' = blk
    BY <1>35 DEF KillPanic
  <2> QED BY <2>1 DEF WaitsForLiveSem
<1>36. CASE KillWake(c)
  <2>1. sq' = sq /\ sid' = sid /\ blk' = blk
    BY <1>36 DEF KillWake
  <2> QED BY <2>1 DEF WaitsForLiveSem
<1> QED
  BY <1>1, <1>2, <1>3, <1>4, <1>5, <1>6, <1>7, <1>8, <1>9, <1>10, <1>11, <1>12,
     <1>13, <1>14, <1>15, <1>16, <1>17, <1>18, <1>19, <1>20, <1>21, <1>22, <1>23, <1>24,
     <1>25, <1>26, <1>27, <1>28, <1>29, <1>30, <1>31, <1>32, <1>33, <1>34, <1>35, <1>36
     DEF Call, KernelStep, Interrupt

(* The initial state: every thread ready in a run queue, no semaphore.     *)
LEMMA InitInductive ==
    ASSUME Init PROVE SemInductive
<1>1. TypeOK
  <2>1. \A s \in Slots : sq[s] \in Seq(Threads)
    BY DEF Init
  <2>2. 0 \in Slots
    BY SemAssumption DEF Slots
  <2> QED BY <2>1, <2>2 DEF Init, TypeOK, Points, States, Errors
<1>2. \A s \in Slots : sq[s] = <<>> /\ Elems(sq[s]) = {}
  BY DEF Init, Elems
<1>3. ListInv
  BY <1>2 DEF Init, ListInv, OneList, NoThreadLost, WaitsForLiveSem, NoRepeats
<1>4. LocalsInv
  BY DEF Init, LocalsInv, TargetPoints, AcquirePoints
<1>5. LockInv
  BY SemAssumption DEF Init, LockInv, HoldPoints
<1>6. RunningInv
  BY SemAssumption DEF Init, RunningInv
<1> QED BY <1>1, <1>3, <1>4, <1>5, <1>6 DEF SemInductive

(* A step, or a stuttering step, keeps the inductive invariant.            *)
LEMMA StepInductive ==
    ASSUME SemInductive, [Next]_vars PROVE SemInductive'
<1>1. CASE Next
  BY <1>1, TypeStep, LocalsStep, LockStep, ListStep, LiveStep
  DEF SemInductive, ListInv
<1>2. CASE UNCHANGED vars
  <2>1. TypeOK' /\ ListInv'
    BY <1>2 DEF SemInductive, vars, TypeOK, ListInv, OneList, NoThreadLost,
                WaitsForLiveSem
  <2>2. LocalsInv' /\ LockInv' /\ RunningInv'
    BY <1>2 DEF SemInductive, vars, LocalsInv, LockInv, RunningInv, OnList,
                Queued
  <2> QED BY <2>1, <2>2 DEF SemInductive
<1> QED BY <1>1, <1>2

(* The inductive invariant holds in every reachable state of the kernel,   *)
(* for every number of threads, CPUs and semaphores.                       *)
THEOREM SemInvariant == Spec => []SemInductive
<1>1. Init => SemInductive
  BY InitInductive
<1>2. SemInductive /\ [Next]_vars => SemInductive'
  BY StepInductive
<1> QED BY <1>1, <1>2, PTL DEF Spec

(* The state of the kernel is well typed.                                  *)
THEOREM SemTypeOK == Spec => []TypeOK
<1>1. SemInductive => TypeOK
  BY DEF SemInductive
<1> QED BY <1>1, SemInvariant, PTL

(* No operation of sem.c and no reschedule drops a thread.                 *)
THEOREM SemNoThreadLost == Spec => []NoThreadLost
<1>1. SemInductive => NoThreadLost
  BY DEF SemInductive, ListInv
<1> QED BY <1>1, SemInvariant, PTL

(* No thread is linked into two queues at once, nor twice into one.        *)
THEOREM SemOneList == Spec => []OneList
<1>1. SemInductive => OneList
  BY DEF SemInductive, ListInv
<1> QED BY <1>1, SemInvariant, PTL

(* Nobody waits in a slot for a semaphore that is no longer there.         *)
THEOREM SemWaitsForLiveSem == Spec => []WaitsForLiveSem
<1>1. SemInductive => WaitsForLiveSem
  BY DEF SemInductive, ListInv
<1> QED BY <1>1, SemInvariant, PTL

(* Nobody but the CPU that deletes a semaphore works in its slot.          *)
LEMMA LockedOut ==
    ASSUME LockInv, NEW s \in Slots, NEW c \in Cpus,
           slock[s] = NoCpu \/ (lslot[c] = s /\ cpc[c] \in HoldPoints \ {"del"})
    PROVE  ~Deleting(s)
<1> SUFFICES ASSUME NEW d \in Cpus, cpc[d] = "del", lslot[d] = s PROVE FALSE
  BY DEF Deleting
<1>1. slock[s] = d
  BY DEF LockInv, HoldPoints
<1>2. lslot[c] = s /\ cpc[c] \in HoldPoints /\ cpc[c] # "del"
  BY <1>1, SemAssumption
<1>3. slock[s] = c
  BY <1>2 DEF LockInv
<1> QED BY <1>1, <1>2, <1>3

(* A step that leaves the counts and the wait queues alone.                *)
LEMMA CountSame ==
    ASSUME UnitInv, CountMatchesQueue,
           sq' = sq, scount' = scount, need' = need, acq' = acq, sid' = sid,
           \A d \in Cpus : cpc[d] = "del" => cpc'[d] = "del" /\ lslot'[d] = lslot[d]
    PROVE  UnitInv' /\ CountMatchesQueue'
BY DEF UnitInv, CountMatchesQueue, Deleting

(* A step that gives one slot a new wait queue and a new count.            *)
LEMMA CountSlot ==
    ASSUME TypeOK, OneList, UnitInv, CountMatchesQueue, NEW s \in Slots, NEW t,
           NEW q, NEW k \in Int,
           sq' = [sq EXCEPT ![s] = q], scount' = [scount EXCEPT ![s] = k],
           sid' = sid,
           Elems(q) \subseteq Elems(sq[s]) \cup {t},
           t \in Elems(q) => need'[t] = 1 /\ acq'[t] = 1,
           t \in Elems(sq[s]) \/ \A r \in Slots : t \notin Elems(sq[r]),
           \A x \in Threads : x # t => need'[x] = need[x] /\ acq'[x] = acq[x],
           \A d \in Cpus : cpc[d] = "del" => cpc'[d] = "del" /\ lslot'[d] = lslot[d],
           Deleting(s) \/ Len(q) = IF k < 0 THEN -k ELSE 0
    PROVE  UnitInv' /\ CountMatchesQueue'
<1>1. /\ sq'[s] = q /\ scount'[s] = k
      /\ \A r \in Slots : r # s => sq'[r] = sq[r] /\ scount'[r] = scount[r]
  BY DEF TypeOK
<1>2. \A r \in Slots : r # s => t \notin Elems(sq[r])
  BY DEF OneList
<1>3. \A r \in Slots : Elems(sq[r]) \subseteq Threads
  BY ElemsFacts DEF TypeOK
<1>4. UnitInv'
  <2> SUFFICES ASSUME NEW r \in Slots, NEW x \in Elems(sq'[r])
               PROVE  need'[x] = 1 /\ acq'[x] = 1
    BY DEF UnitInv
  <2>1. CASE r = s /\ x = t
    BY <1>1, <2>1
  <2>2. CASE x # t
    BY <1>1, <1>3, <2>2 DEF UnitInv
  <2> QED BY <1>1, <1>2, <2>1, <2>2
<1>5. \A r \in Slots : Deleting(r) => Deleting(r)'
  BY DEF Deleting
<1>6. CountMatchesQueue'
  BY <1>1, <1>5 DEF CountMatchesQueue
<1> QED BY <1>4, <1>6

(* Every step keeps the count of a semaphore equal to its balance of units *)
(* when each acquire asks for one; in particular the wake-up loop of       *)
(* remove_thread_from_sem is then never entered.                           *)
LEMMA CountStep ==
    ASSUME AcquireCounts = {1}, InitCounts \subseteq Nat, SemInductive, UnitInv, CountMatchesQueue, Next
    PROVE  UnitInv' /\ CountMatchesQueue'
<1> USE DEF threadVars, schedVars, cpuVars, semVars
<1>0. /\ TypeOK /\ OneList /\ WaitsForLiveSem /\ LockInv /\ RunningInv
      /\ fault = "none"
  BY DEF SemInductive, ListInv, Next
<1> USE <1>0
<1> PICK c \in Cpus : Call(c) \/ KernelStep(c) \/ Interrupt(c)
  BY DEF Next
<1>1. ASSUME NEW i \in Slots, NEW n \in InitCounts, create_sem_etc(c, i, n)
      PROVE  UnitInv' /\ CountMatchesQueue'
  <2>1. /\ sq'[i] = <<>> /\ scount'[i] = n /\ n \in Nat
        /\ \A r \in Slots : r # i => /\ sq'[r] = sq[r] /\ scount'[r] = scount[r]
                                     /\ sid'[r] = sid[r]
        /\ need' = need /\ acq' = acq /\ cpc' = cpc /\ lslot' = lslot
    BY <1>1, SemAssumption DEF create_sem_etc, TypeOK
  <2>2. Elems(<<>>) = {} /\ Len(<<>>) = 0
    BY DEF Elems
  <2>3. UnitInv'
    BY <2>1, <2>2 DEF UnitInv
  <2>4. CountMatchesQueue'
    BY <2>1, <2>2 DEF CountMatchesQueue, Deleting
  <2> QED BY <2>3, <2>4
<1>2. ASSUME NEW s \in Slots, DeleteEnter(c, s)
      PROVE  UnitInv' /\ CountMatchesQueue'
  <2>1. sq' = sq /\ scount' = scount /\ need' = need /\ acq' = acq /\ sid' = sid
    BY <1>2 DEF DeleteEnter
  <2>2. \A d \in Cpus : cpc[d] = "del" => cpc'[d] = "del" /\ lslot'[d] = lslot[d]
    BY <1>2 DEF DeleteEnter, TypeOK
  <2> QED BY <2>1, <2>2, CountSame
<1>3. ASSUME NEW s \in Slots, NEW n \in AcquireCounts, AcquireTake(c, s, n)
      PROVE  UnitInv' /\ CountMatchesQueue'
  <2>1. n = 1 /\ scount[s] \in Int /\ scount[s] >= 1 /\ ~Deleting(s) /\ sid[s] # -1
    BY <1>3, LockedOut DEF AcquireTake, TypeOK
  <2>2. Len(sq[s]) = 0
    BY <2>1 DEF CountMatchesQueue
  <2>3. /\ sq' = sq /\ need' = need /\ acq' = acq /\ sid' = sid /\ cpc' = cpc
        /\ lslot' = lslot /\ scount'[s] = scount[s] - 1
        /\ \A r \in Slots : r # s => scount'[r] = scount[r]
    BY <1>3, <2>1 DEF AcquireTake, TypeOK
  <2>4. UnitInv'
    BY <2>3 DEF UnitInv
  <2>5. CountMatchesQueue'
    BY <2>1, <2>2, <2>3 DEF CountMatchesQueue, Deleting
  <2> QED BY <2>4, <2>5
<1>4. ASSUME NEW s \in Slots, NEW n \in AcquireCounts, NEW f \in FlagSets,
             AcquireBlock(c, s, n, f)
      PROVE  UnitInv' /\ CountMatchesQueue'
  <2> DEFINE t == cur[c]
             q == Append(sq[s], t)
             k == scount[s] - 1
  <2>1. n = 1 /\ scount[s] \in Int /\ scount[s] <= 0 /\ ~Deleting(s) /\ sid[s] # -1
    BY <1>4, LockedOut DEF AcquireBlock, TypeOK
  <2>2. Len(sq[s]) = -scount[s]
    BY <2>1 DEF CountMatchesQueue
  <2>3. t \in Threads
    BY <1>4 DEF AcquireBlock, TypeOK
  <2>4. \A r \in Slots : t \notin Elems(sq[r])
    <3>1. ~OnList(t)
      BY <1>4, <2>3 DEF AcquireBlock, RunningInv, AcquirePoints
    <3> QED BY <3>1 DEF OnList, Queued
  <2>5. Elems(q) = Elems(sq[s]) \cup {t} /\ Len(q) = Len(sq[s]) + 1
    BY <2>3, <2>4, AppendFacts DEF TypeOK
  <2>6. /\ sq' = [sq EXCEPT ![s] = q] /\ scount' = [scount EXCEPT ![s] = k]
        /\ sid' = sid
    BY <1>4, <2>1 DEF AcquireBlock
  <2>7. /\ need'[t] = 1 /\ acq'[t] = 1
        /\ \A x \in Threads : x # t => need'[x] = need[x] /\ acq'[x] = acq[x]
    BY <1>4, <2>1, <2>3 DEF AcquireBlock, Need, MinOf, TypeOK
  <2>8. \A d \in Cpus : cpc[d] = "del" => cpc'[d] = "del" /\ lslot'[d] = lslot[d]
    BY <1>4 DEF AcquireBlock, TypeOK
  <2>9. k \in Int /\ Len(q) = IF k < 0 THEN -k ELSE 0
    BY <2>1, <2>2, <2>5
  <2> HIDE DEF t, q, k
  <2> QED BY <2>3, <2>4, <2>5, <2>6, <2>7, <2>8, <2>9, CountSlot
<1>5. ASSUME NEW s \in Slots, NEW n \in ReleaseCounts, ReleaseEnter(c, s, n)
      PROVE  UnitInv' /\ CountMatchesQueue'
  <2>1. sq' = sq /\ scount' = scount /\ need' = need /\ acq' = acq /\ sid' = sid
    BY <1>5 DEF ReleaseEnter
  <2>2. \A d \in Cpus : cpc[d] = "del" => cpc'[d] = "del" /\ lslot'[d] = lslot[d]
    BY <1>5 DEF ReleaseEnter, TypeOK
  <2> QED BY <2>1, <2>2, CountSame
<1>6. ASSUME NEW t \in Threads, KillPending(c, t)
      PROVE  UnitInv' /\ CountMatchesQueue'
  <2>1. sq' = sq /\ scount' = scount /\ need' = need /\ acq' = acq /\ sid' = sid
    BY <1>6 DEF KillPending
  <2>2. \A d \in Cpus : cpc[d] = "del" => cpc'[d] = "del" /\ lslot'[d] = lslot[d]
    BY <1>6 DEF KillPending, TypeOK
  <2> QED BY <2>1, <2>2, CountSame
<1>7. ASSUME NEW t \in Threads, KillWaiting(c, t)
      PROVE  UnitInv' /\ CountMatchesQueue'
  <2>1. sq' = sq /\ scount' = scount /\ need' = need /\ acq' = acq /\ sid' = sid
    BY <1>7 DEF KillWaiting
  <2>2. \A d \in Cpus : cpc[d] = "del" => cpc'[d] = "del" /\ lslot'[d] = lslot[d]
    BY <1>7 DEF KillWaiting, TypeOK
  <2> QED BY <2>1, <2>2, CountSame
<1>8. ASSUME NEW t \in Threads, TimerInterrupt(c, t)
      PROVE  UnitInv' /\ CountMatchesQueue'
  <2>1. sq' = sq /\ scount' = scount /\ need' = need /\ acq' = acq /\ sid' = sid
    BY <1>8 DEF TimerInterrupt
  <2>2. \A d \in Cpus : cpc[d] = "del" => cpc'[d] = "del" /\ lslot'[d] = lslot[d]
    BY <1>8 DEF TimerInterrupt, TypeOK
  <2> QED BY <2>1, <2>2, CountSame
<1>9. CASE Preempt(c)
  <2>1. sq' = sq /\ scount' = scount /\ need' = need /\ acq' = acq /\ sid' = sid
    BY <1>9 DEF Preempt
  <2>2. \A d \in Cpus : cpc[d] = "del" => cpc'[d] = "del" /\ lslot'[d] = lslot[d]
    BY <1>9 DEF Preempt, Resched, TypeOK
  <2> QED BY <2>1, <2>2, CountSame
<1>10. CASE DeleteWaiter(c)
  <2> DEFINE s == lslot[c]
             t == Head(sq[s])
             q == Tail(sq[s])
             k == scount[s]
  <2>1. s \in Slots /\ sq[s] \in Seq(Threads) /\ NoRepeats(sq[s]) /\ scount[s] \in Int
    BY DEF TypeOK, OneList
  <2>2. t \in Elems(sq[s]) /\ t \in Threads /\ need[t] = 1 /\ acq[t] = 1
    <3>1. t \in Elems(sq[s])
      BY <1>10, <2>1, ElemsFacts DEF DeleteWaiter
    <3> QED BY <2>1, <3>1, ElemsFacts DEF UnitInv
  <2>3. Elems(q) = Elems(sq[s]) \ {t} /\ Len(q) = Len(sq[s]) - 1
    BY <1>10, <2>1, <2>2, ElemsFacts, TailFacts DEF DeleteWaiter
  <2>4. k \in Int /\ Deleting(s)
    BY <1>10, <2>1 DEF DeleteWaiter, Deleting
  <2>5. /\ sq' = [sq EXCEPT ![s] = q] /\ scount' = [scount EXCEPT ![s] = k]
        /\ sid' = sid
    BY <1>10, <2>2 DEF DeleteWaiter, RemoveThread, GivenBack, TypeOK
  <2>6. \A x \in Threads : x # t => need'[x] = need[x] /\ acq'[x] = acq[x]
    BY <1>10 DEF DeleteWaiter, TypeOK
  <2>7. \A d \in Cpus : cpc[d] = "del" => cpc'[d] = "del" /\ lslot'[d] = lslot[d]
    BY <1>10 DEF DeleteWaiter, TypeOK
  <2> HIDE DEF s, t, q, k
  <2> QED BY <2>1, <2>2, <2>3, <2>4, <2>5, <2>6, <2>7, CountSlot
<1>11. CASE DeleteEntry(c)
  <2>1. /\ sq' = sq /\ scount' = scount /\ need' = need /\ acq' = acq
        /\ lslot[c] \in Slots /\ lslot' = lslot
        /\ sid'[lslot[c]] = -1
        /\ \A r \in Slots : r # lslot[c] => sid'[r] = sid[r]
        /\ \A d \in Cpus : d # c => cpc'[d] = cpc[d]
    BY <1>11 DEF DeleteEntry, TypeOK
  <2>2. UnitInv'
    BY <2>1 DEF UnitInv
  <2>3. CountMatchesQueue'
    BY <2>1 DEF CountMatchesQueue, Deleting
  <2> QED BY <2>2, <2>3
<1>12. CASE DeleteWake(c)
  <2>1. sq' = sq /\ scount' = scount /\ need' = need /\ acq' = acq /\ sid' = sid
    BY <1>12 DEF DeleteWake
  <2>2. \A d \in Cpus : cpc[d] = "del" => cpc'[d] = "del" /\ lslot'[d] = lslot[d]
    BY <1>12 DEF DeleteWake, Resched, TypeOK
  <2> QED BY <2>1, <2>2, CountSame
<1>13. CASE AcquireResched(c)
  <2>1. sq' = sq /\ scount' = scount /\ need' = need /\ acq' = acq /\ sid' = sid
    BY <1>13 DEF AcquireResched
  <2>2. \A d \in Cpus : cpc[d] = "del" => cpc'[d] = "del" /\ lslot'[d] = lslot[d]
    BY <1>13 DEF AcquireResched, Resched, TypeOK
  <2> QED BY <2>1, <2>2, CountSame
<1>14. CASE AcquireSeesKill(c)
  <2>1. sq' = sq /\ scount' = scount /\ need' = need /\ acq' = acq /\ sid' = sid
    BY <1>14 DEF AcquireSeesKill
  <2>2. \A d \in Cpus : cpc[d] = "del" => cpc'[d] = "del" /\ lslot'[d] = lslot[d]
    BY <1>14 DEF AcquireSeesKill, TypeOK
  <2> QED BY <2>1, <2>2, CountSame
<1>15. CASE AcquireReturn(c)
  <2>1. sq' = sq /\ scount' = scount /\ need' = need /\ acq' = acq /\ sid' = sid
    BY <1>15 DEF AcquireReturn
  <2>2. \A d \in Cpus : cpc[d] = "del" => cpc'[d] = "del" /\ lslot'[d] = lslot[d]
    BY <1>15 DEF AcquireReturn, TypeOK
  <2> QED BY <2>1, <2>2, CountSame
<1>16. CASE AcquireNull(c)
  <2>1. sq' = sq /\ scount' = scount /\ need' = need /\ acq' = acq /\ sid' = sid
    BY <1>16 DEF AcquireNull
  <2>2. \A d \in Cpus : cpc[d] = "del" => cpc'[d] = "del" /\ lslot'[d] = lslot[d]
    BY <1>16 DEF AcquireNull, TypeOK
  <2> QED BY <2>1, <2>2, CountSame
<1>17. CASE AcquireKilled(c)
  <2> DEFINE s == lslot[c]
             t == lt[c]
             q == Without(sq[s], lt[c])
             k == scount[s] + 1
  <2>1. s \in Slots /\ sq[s] \in Seq(Threads) /\ NoRepeats(sq[s]) /\ scount[s] \in Int
    BY DEF TypeOK, OneList
  <2>2. t \in Elems(sq[s]) /\ t \in Threads /\ need[t] = 1 /\ acq[t] = 1
    <3>1. t \in Elems(sq[s])
      BY <1>17, <2>1, ElemsFacts DEF AcquireKilled
    <3> QED BY <2>1, <3>1, ElemsFacts DEF UnitInv
  <2>3. Elems(q) = Elems(sq[s]) \ {t} /\ Len(q) = Len(sq[s]) - 1
    BY <2>1, <2>2, WithoutFacts
  <2>4. k \in Int /\ Len(q) = IF k < 0 THEN -k ELSE 0
    <3>1. ~Deleting(s) /\ sid[s] # -1
      BY <1>17, <2>1, <2>2, LockedOut DEF AcquireKilled, HoldPoints, WaitsForLiveSem
    <3>2. Len(sq[s]) = IF scount[s] < 0 THEN -scount[s] ELSE 0
      BY <2>1, <3>1 DEF CountMatchesQueue
    <3>3. sq[s] # <<>> /\ Len(sq[s]) > 0
      BY <2>1, <2>2, ElemsFacts
    <3> QED BY <2>1, <2>3, <3>2, <3>3
  <2>5. /\ sq' = [sq EXCEPT ![s] = q] /\ scount' = [scount EXCEPT ![s] = k]
        /\ sid' = sid
    BY <1>17, <2>2 DEF AcquireKilled, RemoveThread, GivenBack, TypeOK
  <2>6. \A x \in Threads : x # t => need'[x] = need[x] /\ acq'[x] = acq[x]
    BY <1>17 DEF AcquireKilled, TypeOK
  <2>7. \A d \in Cpus : cpc[d] = "del" => cpc'[d] = "del" /\ lslot'[d] = lslot[d]
    BY <1>17 DEF AcquireKilled, TypeOK
  <2> HIDE DEF s, t, q, k
  <2> QED BY <2>1, <2>2, <2>3, <2>4, <2>5, <2>6, <2>7, CountSlot
<1>18. CASE AcquireKilledLate(c)
  <2>1. sq' = sq /\ scount' = scount /\ need' = need /\ acq' = acq /\ sid' = sid
    BY <1>18 DEF AcquireKilledLate
  <2>2. \A d \in Cpus : cpc[d] = "del" => cpc'[d] = "del" /\ lslot'[d] = lslot[d]
    BY <1>18 DEF AcquireKilledLate, TypeOK
  <2> QED BY <2>1, <2>2, CountSame
<1>19. CASE AcquireKilledWake(c)
  <2>1. sq' = sq /\ scount' = scount /\ need' = need /\ acq' = acq /\ sid' = sid
    BY <1>19 DEF AcquireKilledWake
  <2>2. \A d \in Cpus : cpc[d] = "del" => cpc'[d] = "del" /\ lslot'[d] = lslot[d]
    BY <1>19 DEF AcquireKilledWake, Resched, TypeOK
  <2> QED BY <2>1, <2>2, CountSame
<1>20. CASE ReleaseAdd(c)
  <2> DEFINE s == lslot[c]
  <2>1. s \in Slots /\ scount[s] \in Int /\ ln[c] \in Int /\ ln[c] > 0 /\ scount[s] >= 0
    BY <1>20 DEF ReleaseAdd, TypeOK
  <2>2. /\ sq' = sq /\ need' = need /\ acq' = acq /\ sid' = sid /\ cpc' = cpc
        /\ lslot' = lslot /\ scount'[s] = scount[s] + ln[c]
        /\ \A r \in Slots : r # s => scount'[r] = scount[r]
    BY <1>20 DEF ReleaseAdd, TypeOK
  <2>3. UnitInv'
    BY <2>2 DEF UnitInv
  <2>4. CountMatchesQueue'
    BY <2>1, <2>2 DEF CountMatchesQueue, Deleting
  <2> QED BY <2>3, <2>4
<1>21. CASE ReleaseWaiter(c)
  <2> DEFINE s == lslot[c]
             t == Head(sq[s])
             q == Tail(sq[s])
             k == scount[s] + 1
  <2>1. s \in Slots /\ sq[s] \in Seq(Threads) /\ NoRepeats(sq[s]) /\ scount[s] \in Int
    BY DEF TypeOK, OneList
  <2>2. t \in Elems(sq[s]) /\ t \in Threads /\ need[t] = 1 /\ acq[t] = 1
    <3>1. t \in Elems(sq[s])
      BY <1>21, <2>1, ElemsFacts DEF ReleaseWaiter
    <3> QED BY <2>1, <3>1, ElemsFacts DEF UnitInv
  <2>3. Elems(q) = Elems(sq[s]) \ {t} /\ Len(q) = Len(sq[s]) - 1
    BY <1>21, <2>1, <2>2, ElemsFacts, TailFacts DEF ReleaseWaiter
  <2>4. k \in Int /\ Len(q) = IF k < 0 THEN -k ELSE 0
    <3>1. ~Deleting(s) /\ sid[s] # -1
      BY <1>21, <2>1, <2>2, LockedOut DEF ReleaseWaiter, HoldPoints, WaitsForLiveSem
    <3>2. Len(sq[s]) = IF scount[s] < 0 THEN -scount[s] ELSE 0
      BY <2>1, <3>1 DEF CountMatchesQueue
    <3>3. sq[s] # <<>> /\ Len(sq[s]) > 0
      BY <2>1, <2>2, ElemsFacts
    <3> QED BY <2>1, <2>3, <3>2, <3>3
  <2>5. /\ sq' = [sq EXCEPT ![s] = q] /\ scount' = [scount EXCEPT ![s] = k]
        /\ sid' = sid
    BY <1>21, <2>2 DEF ReleaseWaiter, RemoveThread, GivenBack, TypeOK
  <2>6. \A x \in Threads : x # t => need'[x] = need[x] /\ acq'[x] = acq[x]
    BY <1>21 DEF ReleaseWaiter, TypeOK
  <2>7. \A d \in Cpus : cpc[d] = "del" => cpc'[d] = "del" /\ lslot'[d] = lslot[d]
    BY <1>21 DEF ReleaseWaiter, TypeOK
  <2> HIDE DEF s, t, q, k
  <2> QED BY <2>1, <2>2, <2>3, <2>4, <2>5, <2>6, <2>7, CountSlot
<1>22. CASE ReleasePart(c)
  <2>1. /\ lslot[c] \in Slots /\ sq[lslot[c]] \in Seq(Threads)
        /\ ln[c] \in Int /\ ln[c] > 0 /\ sq[lslot[c]] # <<>>
        /\ need[Head(sq[lslot[c]])] > ln[c]
    BY <1>22 DEF ReleasePart, TypeOK
  <2>2. need[Head(sq[lslot[c]])] = 1
    BY <2>1, ElemsFacts DEF UnitInv
  <2> QED BY <2>1, <2>2
<1>23. CASE ReleaseNobody(c)
  <2>1. sq' = sq /\ scount' = scount /\ need' = need /\ acq' = acq /\ sid' = sid
    BY <1>23 DEF ReleaseNobody
  <2>2. \A d \in Cpus : cpc[d] = "del" => cpc'[d] = "del" /\ lslot'[d] = lslot[d]
    BY <1>23 DEF ReleaseNobody, TypeOK
  <2> QED BY <2>1, <2>2, CountSame
<1>24. CASE ReleaseUnlock(c)
  <2>1. sq' = sq /\ scount' = scount /\ need' = need /\ acq' = acq /\ sid' = sid
    BY <1>24 DEF ReleaseUnlock
  <2>2. \A d \in Cpus : cpc[d] = "del" => cpc'[d] = "del" /\ lslot'[d] = lslot[d]
    BY <1>24 DEF ReleaseUnlock, TypeOK
  <2> QED BY <2>1, <2>2, CountSame
<1>25. CASE ReleaseWake(c)
  <2>1. sq' = sq /\ scount' = scount /\ need' = need /\ acq' = acq /\ sid' = sid
    BY <1>25 DEF ReleaseWake
  <2>2. \A d \in Cpus : cpc[d] = "del" => cpc'[d] = "del" /\ lslot'[d] = lslot[d]
    BY <1>25 DEF ReleaseWake, Resched, TypeOK
  <2> QED BY <2>1, <2>2, CountSame
<1>26. CASE ReleaseWakeOnly(c)
  <2>1. sq' = sq /\ scount' = scount /\ need' = need /\ acq' = acq /\ sid' = sid
    BY <1>26 DEF ReleaseWakeOnly
  <2>2. \A d \in Cpus : cpc[d] = "del" => cpc'[d] = "del" /\ lslot'[d] = lslot[d]
    BY <1>26 DEF ReleaseWakeOnly, TypeOK
  <2> QED BY <2>1, <2>2, CountSame
<1>27. CASE RemoveWakeFirst(c)
  <2>1. /\ lslot[c] \in Slots /\ sq[lslot[c]] \in Seq(Threads)
        /\ scount[lslot[c]] \in Int /\ scount[lslot[c]] > 0
        /\ sq[lslot[c]] # <<>> /\ cpc[c] \in HoldPoints \ {"del"}
    BY <1>27 DEF RemoveWakeFirst, WakeLoop, HoldPoints, TypeOK
  <2>2. ~Deleting(lslot[c])
    BY <2>1, LockedOut
  <2>3. sid[lslot[c]] # -1 /\ Len(sq[lslot[c]]) > 0
    <3>1. Len(sq[lslot[c]]) > 0 /\ Head(sq[lslot[c]]) \in Elems(sq[lslot[c]])
      BY <2>1, ElemsFacts
    <3> QED BY <2>1, <3>1 DEF WaitsForLiveSem
  <2> QED BY <2>1, <2>2, <2>3 DEF CountMatchesQueue
<1>28. CASE RemovePart(c)
  <2>1. /\ lslot[c] \in Slots /\ sq[lslot[c]] \in Seq(Threads)
        /\ scount[lslot[c]] \in Int /\ scount[lslot[c]] > 0
        /\ sq[lslot[c]] # <<>> /\ cpc[c] \in HoldPoints \ {"del"}
    BY <1>28 DEF RemovePart, WakeLoop, HoldPoints, TypeOK
  <2>2. ~Deleting(lslot[c])
    BY <2>1, LockedOut
  <2>3. sid[lslot[c]] # -1 /\ Len(sq[lslot[c]]) > 0
    <3>1. Len(sq[lslot[c]]) > 0 /\ Head(sq[lslot[c]]) \in Elems(sq[lslot[c]])
      BY <2>1, ElemsFacts
    <3> QED BY <2>1, <3>1 DEF WaitsForLiveSem
  <2> QED BY <2>1, <2>2, <2>3 DEF CountMatchesQueue
<1>29. CASE RemoveUnlock(c)
  <2>1. sq' = sq /\ scount' = scount /\ need' = need /\ acq' = acq /\ sid' = sid
    BY <1>29 DEF RemoveUnlock
  <2>2. \A d \in Cpus : cpc[d] = "del" => cpc'[d] = "del" /\ lslot'[d] = lslot[d]
    BY <1>29 DEF RemoveUnlock, TypeOK
  <2> QED BY <2>1, <2>2, CountSame
<1>30. CASE TimeoutRemove(c)
  <2> DEFINE s == lslot[c]
             t == lt[c]
             q == Without(sq[s], lt[c])
             k == scount[s] + 1
  <2>1. s \in Slots /\ sq[s] \in Seq(Threads) /\ NoRepeats(sq[s]) /\ scount[s] \in Int
    BY DEF TypeOK, OneList
  <2>2. t \in Elems(sq[s]) /\ t \in Threads /\ need[t] = 1 /\ acq[t] = 1
    <3>1. t \in Elems(sq[s])
      BY <1>30, <2>1, ElemsFacts DEF TimeoutRemove
    <3> QED BY <2>1, <3>1, ElemsFacts DEF UnitInv
  <2>3. Elems(q) = Elems(sq[s]) \ {t} /\ Len(q) = Len(sq[s]) - 1
    BY <2>1, <2>2, WithoutFacts
  <2>4. k \in Int /\ Len(q) = IF k < 0 THEN -k ELSE 0
    <3>1. ~Deleting(s) /\ sid[s] # -1
      BY <1>30, <2>1, <2>2, LockedOut DEF TimeoutRemove, HoldPoints, WaitsForLiveSem
    <3>2. Len(sq[s]) = IF scount[s] < 0 THEN -scount[s] ELSE 0
      BY <2>1, <3>1 DEF CountMatchesQueue
    <3>3. sq[s] # <<>> /\ Len(sq[s]) > 0
      BY <2>1, <2>2, ElemsFacts
    <3> QED BY <2>1, <2>3, <3>2, <3>3
  <2>5. /\ sq' = [sq EXCEPT ![s] = q] /\ scount' = [scount EXCEPT ![s] = k]
        /\ sid' = sid
    BY <1>30, <2>2 DEF TimeoutRemove, RemoveThread, GivenBack, TypeOK
  <2>6. \A x \in Threads : x # t => need'[x] = need[x] /\ acq'[x] = acq[x]
    BY <1>30 DEF TimeoutRemove, TypeOK
  <2>7. \A d \in Cpus : cpc[d] = "del" => cpc'[d] = "del" /\ lslot'[d] = lslot[d]
    BY <1>30 DEF TimeoutRemove, TypeOK
  <2> HIDE DEF s, t, q, k
  <2> QED BY <2>1, <2>2, <2>3, <2>4, <2>5, <2>6, <2>7, CountSlot
<1>31. CASE TimeoutLate(c)
  <2>1. sq' = sq /\ scount' = scount /\ need' = need /\ acq' = acq /\ sid' = sid
    BY <1>31 DEF TimeoutLate
  <2>2. \A d \in Cpus : cpc[d] = "del" => cpc'[d] = "del" /\ lslot'[d] = lslot[d]
    BY <1>31 DEF TimeoutLate, TypeOK
  <2> QED BY <2>1, <2>2, CountSame
<1>32. CASE TimeoutPanic(c)
  <2>1. sq' = sq /\ scount' = scount /\ need' = need /\ acq' = acq /\ sid' = sid
    BY <1>32 DEF TimeoutPanic
  <2>2. \A d \in Cpus : cpc[d] = "del" => cpc'[d] = "del" /\ lslot'[d] = lslot[d]
    BY <1>32 DEF TimeoutPanic, TypeOK
  <2> QED BY <2>1, <2>2, CountSame
<1>33. CASE TimeoutWake(c)
  <2>1. sq' = sq /\ scount' = scount /\ need' = need /\ acq' = acq /\ sid' = sid
    BY <1>33 DEF TimeoutWake
  <2>2. \A d \in Cpus : cpc[d] = "del" => cpc'[d] = "del" /\ lslot'[d] = lslot[d]
    BY <1>33 DEF TimeoutWake, Resched, TypeOK
  <2> QED BY <2>1, <2>2, CountSame
<1>34. CASE KillRemove(c)
  <2> DEFINE s == lslot[c]
             t == lt[c]
             q == Without(sq[s], lt[c])
             k == scount[s] + 1
  <2>1. s \in Slots /\ sq[s] \in Seq(Threads) /\ NoRepeats(sq[s]) /\ scount[s] \in Int
    BY DEF TypeOK, OneList
  <2>2. t \in Elems(sq[s]) /\ t \in Threads /\ need[t] = 1 /\ acq[t] = 1
    <3>1. t \in Elems(sq[s])
      BY <1>34, <2>1, ElemsFacts DEF KillRemove
    <3> QED BY <2>1, <3>1, ElemsFacts DEF UnitInv
  <2>3. Elems(q) = Elems(sq[s]) \ {t} /\ Len(q) = Len(sq[s]) - 1
    BY <2>1, <2>2, WithoutFacts
  <2>4. k \in Int /\ Len(q) = IF k < 0 THEN -k ELSE 0
    <3>1. ~Deleting(s) /\ sid[s] # -1
      BY <1>34, <2>1, <2>2, LockedOut DEF KillRemove, HoldPoints, WaitsForLiveSem
    <3>2. Len(sq[s]) = IF scount[s] < 0 THEN -scount[s] ELSE 0
      BY <2>1, <3>1 DEF CountMatchesQueue
    <3>3. sq[s] # <<>> /\ Len(sq[s]) > 0
      BY <2>1, <2>2, ElemsFacts
    <3> QED BY <2>1, <2>3, <3>2, <3>3
  <2>5. /\ sq' = [sq EXCEPT ![s] = q] /\ scount' = [scount EXCEPT ![s] = k]
        /\ sid' = sid
    BY <1>34, <2>2 DEF KillRemove, RemoveThread, GivenBack, TypeOK
  <2>6. \A x \in Threads : x # t => need'[x] = need[x] /\ acq'[x] = acq[x]
    BY <1>34 DEF KillRemove, TypeOK
  <2>7. \A d \in Cpus : cpc[d] = "del" => cpc'[d] = "del" /\ lslot'[d] = lslot[d]
    BY <1>34 DEF KillRemove, TypeOK
  <2> HIDE DEF s, t, q, k
  <2> QED BY <2>1, <2>2, <2>3, <2>4, <2>5, <2>6, <2>7, CountSlot
<1>35. CASE KillPanic(c)
  <2>1. sq' = sq /\ scount' = scount /\ need' = need /\ acq' = acq /\ sid' = sid
    BY <1>35 DEF KillPanic
  <2>2. \A d \in Cpus : cpc[d] = "del" => cpc'[d] = "del" /\ lslot'[d] = lslot[d]
    BY <1>35 DEF KillPanic, TypeOK
  <2> QED BY <2>1, <2>2, CountSame
<1>36. CASE KillWake(c)
  <2>1. sq' = sq /\ scount' = scount /\ need' = need /\ acq' = acq /\ sid' = sid
    BY <1>36 DEF KillWake
  <2>2. \A d \in Cpus : cpc[d] = "del" => cpc'[d] = "del" /\ lslot'[d] = lslot[d]
    BY <1>36 DEF KillWake, TypeOK
  <2> QED BY <2>1, <2>2, CountSame
<1> QED
  BY <1>1, <1>2, <1>3, <1>4, <1>5, <1>6, <1>7, <1>8, <1>9, <1>10, <1>11, <1>12,
     <1>13, <1>14, <1>15, <1>16, <1>17, <1>18, <1>19, <1>20, <1>21, <1>22, <1>23, <1>24,
     <1>25, <1>26, <1>27, <1>28, <1>29, <1>30, <1>31, <1>32, <1>33, <1>34, <1>35, <1>36
     DEF Call, KernelStep, Interrupt

(* When every acquire asks for one unit, a negative count is the number of *)
(* waiters and nobody waits while units are there.                         *)
THEOREM SemCountMatchesQueue ==
    ASSUME AcquireCounts = {1}, InitCounts \subseteq Nat
    PROVE  Spec => []CountMatchesQueue
<1> DEFINE Inv == SemInductive /\ UnitInv /\ CountMatchesQueue
<1>1. Init => Inv
  <2>1. ASSUME Init PROVE UnitInv /\ CountMatchesQueue
    BY <2>1 DEF Init, UnitInv, CountMatchesQueue, Elems
  <2> QED BY <2>1, InitInductive
<1>2. Inv /\ [Next]_vars => Inv'
  <2>1. ASSUME Inv, Next PROVE Inv'
    BY <2>1, CountStep, StepInductive
  <2>2. ASSUME Inv, UNCHANGED vars PROVE Inv'
    <3>1. SemInductive'
      BY <2>2, StepInductive
    <3>2. UnitInv' /\ CountMatchesQueue'
      BY <2>2, CountSame DEF vars
    <3> QED BY <3>1, <3>2
  <2> QED BY <2>1, <2>2
<1>3. Inv => CountMatchesQueue
  OBVIOUS
<1> QED BY <1>1, <1>2, <1>3, PTL DEF Spec

(* On one CPU no step puts the current thread into a run queue: nothing    *)
(* runs between the enqueue in acquire_sem_etc and its thread_resched.     *)
LEMMA RunningStep ==
    ASSUME NEW k, Cpus = {k}, SemInductive, RunningNotQueued, Next
    PROVE  RunningNotQueued'
<1> USE DEF threadVars, schedVars, cpuVars, semVars
<1>0. TypeOK /\ RunningInv /\ fault = "none"
  BY DEF SemInductive, Next
<1> USE <1>0
<1> PICK c \in Cpus : Call(c) \/ KernelStep(c) \/ Interrupt(c)
  BY DEF Next
<1>1. ASSUME NEW i \in Slots, NEW n \in InitCounts, create_sem_etc(c, i, n)
      PROVE  RunningNotQueued'
  <2>1. runq' = runq /\ cur' = cur
    BY <1>1 DEF create_sem_etc
  <2> QED BY <2>1 DEF RunningNotQueued
<1>2. ASSUME NEW s \in Slots, DeleteEnter(c, s)
      PROVE  RunningNotQueued'
  <2>1. runq' = runq /\ cur' = cur
    BY <1>2 DEF DeleteEnter
  <2> QED BY <2>1 DEF RunningNotQueued
<1>3. ASSUME NEW s \in Slots, NEW n \in AcquireCounts, AcquireTake(c, s, n)
      PROVE  RunningNotQueued'
  <2>1. runq' = runq /\ cur' = cur
    BY <1>3 DEF AcquireTake
  <2> QED BY <2>1 DEF RunningNotQueued
<1>4. ASSUME NEW s \in Slots, NEW n \in AcquireCounts, NEW f \in FlagSets,
             AcquireBlock(c, s, n, f)
      PROVE  RunningNotQueued'
  <2>1. runq' = runq /\ cur' = cur
    BY <1>4 DEF AcquireBlock
  <2> QED BY <2>1 DEF RunningNotQueued
<1>5. ASSUME NEW s \in Slots, NEW n \in ReleaseCounts, ReleaseEnter(c, s, n)
      PROVE  RunningNotQueued'
  <2>1. runq' = runq /\ cur' = cur
    BY <1>5 DEF ReleaseEnter
  <2> QED BY <2>1 DEF RunningNotQueued
<1>6. ASSUME NEW t \in Threads, KillPending(c, t)
      PROVE  RunningNotQueued'
  <2>1. runq' = runq /\ cur' = cur
    BY <1>6 DEF KillPending
  <2> QED BY <2>1 DEF RunningNotQueued
<1>7. ASSUME NEW t \in Threads, KillWaiting(c, t)
      PROVE  RunningNotQueued'
  <2>1. runq' = runq /\ cur' = cur
    BY <1>7 DEF KillWaiting
  <2> QED BY <2>1 DEF RunningNotQueued
<1>8. ASSUME NEW t \in Threads, TimerInterrupt(c, t)
      PROVE  RunningNotQueued'
  <2>1. runq' = runq /\ cur' = cur
    BY <1>8 DEF TimerInterrupt
  <2> QED BY <2>1 DEF RunningNotQueued
<1>9. CASE Preempt(c)
  <2>1. \E next : cur' = [cur EXCEPT ![c] = next] /\ next \notin runq'
    BY <1>9 DEF Preempt, Resched
  <2> QED BY <2>1 DEF RunningNotQueued, TypeOK
<1>10. CASE DeleteWaiter(c)
  <2>1. runq' = runq /\ cur' = cur
    BY <1>10 DEF DeleteWaiter
  <2> QED BY <2>1 DEF RunningNotQueued
<1>11. CASE DeleteEntry(c)
  <2>1. runq' = runq /\ cur' = cur
    BY <1>11 DEF DeleteEntry
  <2> QED BY <2>1 DEF RunningNotQueued
<1>12. CASE DeleteWake(c)
  <2>1. \E next : cur' = [cur EXCEPT ![c] = next] /\ next \notin runq'
    BY <1>12 DEF DeleteWake, Resched
  <2> QED BY <2>1 DEF RunningNotQueued, TypeOK
<1>13. CASE AcquireResched(c)
  <2>1. \E next : cur' = [cur EXCEPT ![c] = next] /\ next \notin runq'
    BY <1>13 DEF AcquireResched, Resched
  <2> QED BY <2>1 DEF RunningNotQueued, TypeOK
<1>14. CASE AcquireSeesKill(c)
  <2>1. runq' = runq /\ cur' = cur
    BY <1>14 DEF AcquireSeesKill
  <2> QED BY <2>1 DEF RunningNotQueued
<1>15. CASE AcquireReturn(c)
  <2>1. runq' = runq /\ cur' = cur
    BY <1>15 DEF AcquireReturn
  <2> QED BY <2>1 DEF RunningNotQueued
<1>16. CASE AcquireNull(c)
  <2>1. runq' = runq /\ cur' = cur
    BY <1>16 DEF AcquireNull
  <2> QED BY <2>1 DEF RunningNotQueued
<1>17. CASE AcquireKilled(c)
  <2>1. runq' = runq /\ cur' = cur
    BY <1>17 DEF AcquireKilled
  <2> QED BY <2>1 DEF RunningNotQueued
<1>18. CASE AcquireKilledLate(c)
  <2>1. runq' = runq /\ cur' = cur
    BY <1>18 DEF AcquireKilledLate
  <2> QED BY <2>1 DEF RunningNotQueued
<1>19. CASE AcquireKilledWake(c)
  <2>1. \E next : cur' = [cur EXCEPT ![c] = next] /\ next \notin runq'
    BY <1>19 DEF AcquireKilledWake, Resched
  <2> QED BY <2>1 DEF RunningNotQueued, TypeOK
<1>20. CASE ReleaseAdd(c)
  <2>1. runq' = runq /\ cur' = cur
    BY <1>20 DEF ReleaseAdd
  <2> QED BY <2>1 DEF RunningNotQueued
<1>21. CASE ReleaseWaiter(c)
  <2>1. runq' = runq /\ cur' = cur
    BY <1>21 DEF ReleaseWaiter
  <2> QED BY <2>1 DEF RunningNotQueued
<1>22. CASE ReleasePart(c)
  <2>1. runq' = runq /\ cur' = cur
    BY <1>22 DEF ReleasePart
  <2> QED BY <2>1 DEF RunningNotQueued
<1>23. CASE ReleaseNobody(c)
  <2>1. runq' = runq /\ cur' = cur
    BY <1>23 DEF ReleaseNobody
  <2> QED BY <2>1 DEF RunningNotQueued
<1>24. CASE ReleaseUnlock(c)
  <2>1. runq' = runq /\ cur' = cur
    BY <1>24 DEF ReleaseUnlock
  <2> QED BY <2>1 DEF RunningNotQueued
<1>25. CASE ReleaseWake(c)
  <2>1. \E next : cur' = [cur EXCEPT ![c] = next] /\ next \notin runq'
    BY <1>25 DEF ReleaseWake, Resched
  <2> QED BY <2>1 DEF RunningNotQueued, TypeOK
<1>26. CASE ReleaseWakeOnly(c)
  <2>1. runq' = runq \cup lq[c] /\ cur' = cur /\ lq[c] \subseteq Threads
    BY <1>26 DEF ReleaseWakeOnly, TypeOK
  <2>2. cur[c] \notin lq[c]
    <3>1. cpc[c] \notin AcquirePoints
      BY <1>26 DEF ReleaseWakeOnly, AcquirePoints
    <3> QED BY <2>1, <3>1 DEF RunningInv, OnList
  <2> QED BY <2>1, <2>2 DEF RunningNotQueued
<1>27. CASE RemoveWakeFirst(c)
  <2>1. runq' = runq /\ cur' = cur
    BY <1>27 DEF RemoveWakeFirst
  <2> QED BY <2>1 DEF RunningNotQueued
<1>28. CASE RemovePart(c)
  <2>1. runq' = runq /\ cur' = cur
    BY <1>28 DEF RemovePart
  <2> QED BY <2>1 DEF RunningNotQueued
<1>29. CASE RemoveUnlock(c)
  <2>1. runq' = runq /\ cur' = cur
    BY <1>29 DEF RemoveUnlock
  <2> QED BY <2>1 DEF RunningNotQueued
<1>30. CASE TimeoutRemove(c)
  <2>1. runq' = runq /\ cur' = cur
    BY <1>30 DEF TimeoutRemove
  <2> QED BY <2>1 DEF RunningNotQueued
<1>31. CASE TimeoutLate(c)
  <2>1. runq' = runq /\ cur' = cur
    BY <1>31 DEF TimeoutLate
  <2> QED BY <2>1 DEF RunningNotQueued
<1>32. CASE TimeoutPanic(c)
  <2>1. runq' = runq /\ cur' = cur
    BY <1>32 DEF TimeoutPanic
  <2> QED BY <2>1 DEF RunningNotQueued
<1>33. CASE TimeoutWake(c)
  <2>1. \E next : cur' = [cur EXCEPT ![c] = next] /\ next \notin runq'
    BY <1>33 DEF TimeoutWake, Resched
  <2> QED BY <2>1 DEF RunningNotQueued, TypeOK
<1>34. CASE KillRemove(c)
  <2>1. runq' = runq /\ cur' = cur
    BY <1>34 DEF KillRemove
  <2> QED BY <2>1 DEF RunningNotQueued
<1>35. CASE KillPanic(c)
  <2>1. runq' = runq /\ cur' = cur
    BY <1>35 DEF KillPanic
  <2> QED BY <2>1 DEF RunningNotQueued
<1>36. CASE KillWake(c)
  <2>1. runq' = runq \cup lq[c] /\ cur' = cur /\ lq[c] \subseteq Threads
    BY <1>36 DEF KillWake, TypeOK
  <2>2. cur[c] \notin lq[c]
    <3>1. cpc[c] \notin AcquirePoints
      BY <1>36 DEF KillWake, AcquirePoints
    <3> QED BY <2>1, <3>1 DEF RunningInv, OnList
  <2> QED BY <2>1, <2>2 DEF RunningNotQueued
<1> QED
  BY <1>1, <1>2, <1>3, <1>4, <1>5, <1>6, <1>7, <1>8, <1>9, <1>10, <1>11, <1>12,
     <1>13, <1>14, <1>15, <1>16, <1>17, <1>18, <1>19, <1>20, <1>21, <1>22, <1>23, <1>24,
     <1>25, <1>26, <1>27, <1>28, <1>29, <1>30, <1>31, <1>32, <1>33, <1>34, <1>35, <1>36
     DEF Call, KernelStep, Interrupt

(* On a uniprocessor the current thread is in no run queue, as             *)
(* thread_set_priority assumes (on two CPUs it may be).                    *)
THEOREM SemRunningNotQueued ==
    ASSUME NEW k, Cpus = {k}
    PROVE  Spec => []RunningNotQueued
<1> DEFINE Inv == SemInductive /\ RunningNotQueued
<1>1. Init => Inv
  BY InitInductive, SemAssumption DEF Init, RunningNotQueued
<1>2. Inv /\ [Next]_vars => Inv'
  <2>1. ASSUME Inv, Next PROVE Inv'
    BY <2>1, RunningStep, StepInductive
  <2>2. ASSUME Inv, UNCHANGED vars PROVE Inv'
    BY <2>2, StepInductive DEF vars, RunningNotQueued
  <2> QED BY <2>1, <2>2
<1>3. Inv => RunningNotQueued
  OBVIOUS
<1> QED BY <1>1, <1>2, <1>3, PTL DEF Spec

-----------------------------------------------------------------------------
(* The steps, by what they do to the semaphores.                           *)

(* thread_resched, and nothing else.                                       *)
Switch(c) ==
    \/ Preempt(c) \/ DeleteWake(c) \/ AcquireResched(c) \/ ReleaseWake(c)
    \/ TimeoutWake(c) \/ AcquireKilledWake(c)

(* A path of the kernel goes on without touching a count or a queue.       *)
Quiet(c) ==
    \/ AcquireSeesKill(c) \/ AcquireNull(c) \/ ReleaseUnlock(c) \/ ReleaseWakeOnly(c)
    \/ RemoveUnlock(c) \/ TimeoutLate(c) \/ TimeoutPanic(c) \/ KillPanic(c) \/ KillWake(c)
    \/ ReleaseNobody(c)
    \/ \E t \in Threads : KillPending(c, t) \/ KillWaiting(c, t) \/ TimerInterrupt(c, t)
    \/ \E s \in Slots : DeleteEnter(c, s) \/ \E n \in ReleaseCounts : ReleaseEnter(c, s, n)

(* remove_thread_from_sem takes a waiter out.                              *)
Leave(c) == TimeoutRemove(c) \/ KillRemove(c) \/ AcquireKilled(c)

(* The steps of sem.c, by what they mean for a caller.                     *)
LEMMA StepKinds ==
    ASSUME Next
    PROVE  /\ fault = "none"
           /\ \E c \in Cpus :
                 \/ Switch(c) \/ Quiet(c) \/ Leave(c)
                 \/ \E i \in Slots, n \in InitCounts : create_sem_etc(c, i, n)
                 \/ \E s \in Slots, n \in AcquireCounts :
                       AcquireTake(c, s, n) \/ \E f \in FlagSets : AcquireBlock(c, s, n, f)
                 \/ DeleteWaiter(c) \/ DeleteEntry(c)
                 \/ ReleaseAdd(c) \/ ReleaseWaiter(c) \/ ReleasePart(c)
                 \/ RemoveWakeFirst(c) \/ RemovePart(c)
                 \/ AcquireReturn(c) \/ AcquireKilledLate(c)
BY DEF Next, Call, KernelStep, Interrupt, Switch, Quiet, Leave

(* With acquires of one unit no waiter is served in parts, and nobody who  *)
(* leaves a queue lets another one go on.                                  *)
LEMMA NoParts ==
    ASSUME SemInductive, UnitInv, CountMatchesQueue, ReturnInv, NEW c \in Cpus
    PROVE  ~ReleasePart(c) /\ ~RemoveWakeFirst(c) /\ ~RemovePart(c)
<1>1. PICK s \in Slots : s = lslot[c] /\ scount[s] \in Int /\ sq[s] \in Seq(Threads)
  BY DEF SemInductive, TypeOK
<1>2. ASSUME ReleasePart(c) PROVE FALSE
  <2>1. /\ sq[s] # <<>> /\ need[Head(sq[s])] > ln[c] /\ ln[c] > 0 /\ ln[c] \in Int
    BY <1>1, <1>2 DEF ReleasePart, SemInductive, TypeOK
  <2>2. need[Head(sq[s])] = 1
    BY <1>1, <2>1, ElemsFacts DEF UnitInv
  <2> QED BY <2>1, <2>2
<1>3. ASSUME WakeLoop(c) PROVE FALSE
  <2>1. /\ cpc[c] \in HoldPoints \ {"del"} /\ scount[s] > 0 /\ sq[s] # <<>>
    BY <1>1, <1>3 DEF WakeLoop, HoldPoints
  <2>2. ~Deleting(s) /\ slock[s] = c
    BY <1>1, <2>1, LockedOut DEF SemInductive, LockInv
  <2>3. sid[s] # -1
    BY <2>2, SemAssumption DEF ReturnInv
  <2>4. Len(sq[s]) = 0
    BY <1>1, <2>1, <2>2, <2>3 DEF CountMatchesQueue
  <2> QED BY <1>1, <2>1, <2>4, ElemsFacts
<1> QED BY <1>2, <1>3 DEF RemoveWakeFirst, RemovePart

(* What those kinds of steps leave alone.                                  *)
LEMMA SwitchFacts ==
    ASSUME TypeOK, NEW c \in Cpus, Switch(c)
    PROVE  /\ sq' = sq /\ scount' = scount /\ sid' = sid /\ slock' = slock
           /\ tpc' = tpc /\ err' = err /\ lt' = lt
           /\ \E r \in SUBSET Threads : Resched(c, r)
BY DEF Switch, Preempt, DeleteWake, AcquireResched, ReleaseWake, TimeoutWake,
       AcquireKilledWake, semVars, TypeOK

(* A step that means nothing to a caller.                                  *)
LEMMA QuietFacts ==
    ASSUME TypeOK, LockInv, NEW c \in Cpus, Quiet(c)
    PROVE  /\ sq' = sq /\ scount' = scount /\ sid' = sid
           /\ tpc' = tpc /\ err' = err /\ cur' = cur
           /\ \A d \in Cpus : cpc'[d] \in WaitPoints <=> cpc[d] \in WaitPoints
           /\ \A s \in Slots : slock'[s] # NoCpu => slock[s] # NoCpu \/ sid[s] # -1
           /\ \A d \in Cpus : cpc'[d] = "acqkill" =>
                 lt'[d] = cur[d] \/ (cpc[d] = "acqkill" /\ lt'[d] = lt[d])
<1>1. CASE AcquireSeesKill(c)
  BY <1>1 DEF AcquireSeesKill, TypeOK, semVars, threadVars, WaitPoints, AcquirePoints
<1>2. CASE AcquireNull(c) \/ TimeoutPanic(c) \/ KillPanic(c) \/ ReleaseNobody(c)
  BY <1>2 DEF AcquireNull, TimeoutPanic, KillPanic, ReleaseNobody, semVars, threadVars, cpuVars
<1>3. CASE ReleaseUnlock(c)
  BY <1>3 DEF ReleaseUnlock, TypeOK, threadVars, WaitPoints, AcquirePoints
<1>4. CASE ReleaseWakeOnly(c) \/ TimeoutLate(c) \/ KillWake(c)
  BY <1>4 DEF ReleaseWakeOnly, TimeoutLate, KillWake, TypeOK, semVars, threadVars, WaitPoints,
     AcquirePoints
<1>5. CASE RemoveUnlock(c)
  BY <1>5 DEF RemoveUnlock, TypeOK, threadVars, WaitPoints, AcquirePoints
<1>6. ASSUME NEW t \in Threads, KillPending(c, t) \/ KillWaiting(c, t) \/ TimerInterrupt(c, t)
      PROVE  /\ sq' = sq /\ scount' = scount /\ sid' = sid /\ slock' = slock
             /\ tpc' = tpc /\ err' = err /\ cur' = cur
             /\ \A d \in Cpus : cpc'[d] \in WaitPoints <=> cpc[d] \in WaitPoints
             /\ \A d \in Cpus : cpc'[d] = "acqkill" => cpc[d] = "acqkill" /\ lt'[d] = lt[d]
  BY SMTT(30), <1>6 DEF KillPending, KillWaiting, TimerInterrupt, TypeOK, semVars, cpuVars, threadVars,
     WaitPoints, AcquirePoints
<1>7. ASSUME NEW s \in Slots,
             DeleteEnter(c, s) \/ \E n \in ReleaseCounts : ReleaseEnter(c, s, n)
      PROVE  /\ sq' = sq /\ scount' = scount /\ sid' = sid
             /\ tpc' = tpc /\ err' = err /\ cur' = cur /\ lt' = lt
             /\ \A d \in Cpus : cpc'[d] \in WaitPoints <=> cpc[d] \in WaitPoints
             /\ \A r \in Slots : slock'[r] # NoCpu => slock[r] # NoCpu \/ sid[r] # -1
             /\ \A d \in Cpus : cpc'[d] = "acqkill" => cpc[d] = "acqkill"
  BY SMTT(30), <1>7 DEF DeleteEnter, ReleaseEnter, TypeOK, threadVars, WaitPoints, AcquirePoints
<1> QED BY <1>1, <1>2, <1>3, <1>4, <1>5, <1>6, <1>7 DEF Quiet

(* The first thread of a queue leaves it.                                  *)
LEMMA HeadLeaves ==
    ASSUME SemInductive, NEW s \in Slots, sq[s] # <<>>, sq' = [sq EXCEPT ![s] = Tail(sq[s])]
    PROVE  /\ Head(sq[s]) \in Threads /\ Queued(Head(sq[s]))
           /\ \A t \in Threads : Queued(t)' <=> Queued(t) /\ t # Head(sq[s])
<1>1. TypeOK /\ OneList
  BY DEF SemInductive, ListInv
<1>2. sq[s] \in Seq(Threads) /\ NoRepeats(sq[s])
  BY <1>1 DEF TypeOK, OneList
<1>3. PICK h \in Threads : h = Head(sq[s]) /\ h \in Elems(sq[s])
  BY <1>2, ElemsFacts
<1>4. Elems(sq'[s]) = Elems(sq[s]) \ {h} /\ \A r \in Slots : r # s => sq'[r] = sq[r]
  BY <1>1, <1>2, <1>3, TailFacts DEF TypeOK
<1>5. \A r \in Slots : r # s => h \notin Elems(sq[r])
  BY <1>1, <1>3 DEF OneList
<1> QED BY <1>3, <1>4, <1>5 DEF Queued

(* remove_thread_from_sem takes the thread out of the queue it is in.      *)
LEMMA LeaveFacts ==
    ASSUME SemInductive, NEW c \in Cpus, Leave(c)
    PROVE  LET s == lslot[c]  t == lt[c]
           IN  /\ s \in Slots /\ t \in Threads /\ t \in Elems(sq[s]) /\ slock[s] = NoCpu
               /\ sid[s] # -1 /\ Queued(t)
               /\ sq' = [sq EXCEPT ![s] = Without(sq[s], t)]
               /\ scount' = [scount EXCEPT ![s] = scount[s] + acq[t]]
               /\ \A u \in Threads : Queued(u)' <=> Queued(u) /\ u # t
               /\ err'[t] \in {"B_TIMED_OUT", "EINTR"}
               /\ \A u \in Threads : u # t => err'[u] = err[u] /\ tpc'[u] = tpc[u]
               /\ tpc'[t] \in {tpc[t], "null"}
               /\ \A r \in Slots : slock'[r] = IF r = s THEN c ELSE slock[r]
               /\ sid' = sid /\ cur' = cur /\ lt' = lt
               /\ \A d \in Cpus : cpc'[d] \in WaitPoints <=> cpc[d] \in WaitPoints
               /\ \A d \in Cpus : cpc'[d] = "acqkill" => cpc[d] = "acqkill"
<1>1. TypeOK /\ OneList /\ WaitsForLiveSem /\ LocalsInv
  BY DEF SemInductive, ListInv
<1>2. PICK s \in Slots : s = lslot[c]
  BY <1>1 DEF TypeOK
<1>3. PICK t \in Threads : t = lt[c]
  BY <1>1 DEF Leave, TimeoutRemove, KillRemove, AcquireKilled, LocalsInv, TargetPoints
<1>4. /\ t \in Elems(sq[s]) /\ slock[s] = NoCpu
      /\ sid' = sid /\ cur' = cur /\ lt' = lt
      /\ \E e \in {"B_TIMED_OUT", "EINTR"} : RemoveThread(c, t, s, e)
  BY <1>2, <1>3 DEF Leave, TimeoutRemove, KillRemove, AcquireKilled
<1>5. PICK e \in {"B_TIMED_OUT", "EINTR"} : RemoveThread(c, t, s, e)
  BY <1>4
<1>6. /\ sq' = [sq EXCEPT ![s] = Without(sq[s], t)]
      /\ scount' = [scount EXCEPT ![s] = scount[s] + acq[t]]
      /\ err' = [err EXCEPT ![t] = e] /\ slock' = [slock EXCEPT ![s] = c]
  BY <1>5 DEF RemoveThread, GivenBack
<1>7. \A u \in Threads : Queued(u)' <=> Queued(u) /\ u # t
  <2>1. sq[s] \in Seq(Threads) /\ NoRepeats(sq[s])
    BY <1>1 DEF TypeOK, OneList
  <2>2. sq'[s] = Without(sq[s], t) /\ \A r \in Slots : r # s => sq'[r] = sq[r]
    BY <1>1, <1>6 DEF TypeOK
  <2>3. Elems(sq'[s]) = Elems(sq[s]) \ {t}
    BY <1>4, <2>1, <2>2, WithoutFacts
  <2>4. \A r \in Slots : r # s => t \notin Elems(sq[r])
    BY <1>1, <1>4 DEF OneList
  <2> QED BY <2>2, <2>3, <2>4 DEF Queued
<1>8. sid[s] # -1 /\ Queued(t)
  BY <1>1, <1>4 DEF WaitsForLiveSem, Queued
<1>9. /\ err'[t] = e /\ \A u \in Threads : u # t => err'[u] = err[u]
      /\ \A r \in Slots : slock'[r] = IF r = s THEN c ELSE slock[r]
  BY <1>1, <1>6 DEF TypeOK
<1>10. /\ \A u \in Threads : u # t => tpc'[u] = tpc[u]
       /\ tpc'[t] \in {tpc[t], "null"}
  BY <1>1, <1>3 DEF Leave, TimeoutRemove, KillRemove, AcquireKilled, TypeOK
<1>11. /\ \A d \in Cpus : cpc'[d] \in WaitPoints <=> cpc[d] \in WaitPoints
       /\ \A d \in Cpus : cpc'[d] = "acqkill" => cpc[d] = "acqkill"
  BY ZenonT(30), <1>1 DEF Leave, TimeoutRemove, KillRemove, AcquireKilled, TypeOK, WaitPoints, AcquirePoints
<1> QED BY <1>2, <1>3, <1>4, <1>6, <1>7, <1>8, <1>9, <1>10, <1>11

-----------------------------------------------------------------------------
(* Every step keeps ReturnInv.                                             *)

(* An acquire that waits has its outcome when it returns.                  *)
LEMMA ReturnStep ==
    ASSUME SemInductive, UnitInv, CountMatchesQueue, ReturnInv, Next
    PROVE  ReturnInv'
<1> DEFINE P1 == \A t \in Threads : Queued(t) => tpc[t] # "run" /\ err[t] = "B_NO_ERROR"
           P2 == \A c \in Cpus : cur[c] \in Threads =>
                    (tpc[cur[c]] = "run" <=> cpc[c] \notin WaitPoints)
           P3 == \A c \in Cpus : cpc[c] = "acqkill" => lt[c] = cur[c]
           P4 == \A s \in Slots : slock[s] # NoCpu => sid[s] # -1
<1>0. TypeOK /\ OneList /\ WaitsForLiveSem /\ LockInv /\ RunningInv /\ LocalsInv
  BY DEF SemInductive, ListInv
<1>1. P1 /\ P2 /\ P3 /\ P4
  BY DEF ReturnInv
<1>2. SUFFICES P1' /\ P2' /\ P3' /\ P4'
  BY DEF ReturnInv
<1>3. PICK c \in Cpus :
         \/ Switch(c) \/ Quiet(c) \/ Leave(c)
         \/ \E i \in Slots, n \in InitCounts : create_sem_etc(c, i, n)
         \/ \E s \in Slots, n \in AcquireCounts :
               AcquireTake(c, s, n) \/ \E f \in FlagSets : AcquireBlock(c, s, n, f)
         \/ DeleteWaiter(c) \/ DeleteEntry(c)
         \/ ReleaseAdd(c) \/ ReleaseWaiter(c)
         \/ AcquireReturn(c) \/ AcquireKilledLate(c)
  BY StepKinds, NoParts
<1>4. fault = "none"
  BY StepKinds
<1>5. CASE Switch(c)
  <2>1. PICK r \in SUBSET Threads : Resched(c, r)
    BY <1>0, <1>5, SwitchFacts
  <2>2. /\ sq' = sq /\ sid' = sid /\ slock' = slock /\ tpc' = tpc /\ err' = err /\ lt' = lt
    BY <1>0, <1>5, SwitchFacts
  <2>3. /\ \A d \in Cpus : d # c => cur'[d] = cur[d] /\ cpc'[d] = cpc[d]
        /\ cpc'[c] = IF cur'[c] = NoThread THEN "run" ELSE tpc[cur'[c]]
        /\ cur'[c] \in Threads \cup {NoThread}
    BY <1>0, <2>1 DEF Resched, TypeOK, Pool
  <2>4. \A t \in Threads : tpc[t] \in {"run", "woken", "null"}
    BY <1>0 DEF TypeOK
  <2>5. "run" \notin WaitPoints /\ "woken" \in WaitPoints /\ "null" \in WaitPoints
    BY DEF WaitPoints, AcquirePoints
  <2>6. P2'
    BY <1>1, <2>2, <2>3, <2>4, <2>5, SemAssumption
  <2>7. P1'
    BY <1>1, <2>2 DEF Queued
  <2>8. P3' /\ P4'
    BY <1>1, <2>2, <2>3, <2>4, SemAssumption
  <2> QED BY <2>6, <2>7, <2>8
<1>6. CASE Quiet(c)
  <2>1. P1'
    BY <1>0, <1>1, <1>6, QuietFacts DEF Queued
  <2>2. P2'
    BY <1>0, <1>1, <1>6, QuietFacts
  <2>3. P3' /\ P4'
    BY <1>0, <1>1, <1>6, QuietFacts
  <2> QED BY <2>1, <2>2, <2>3
<1>7. CASE Leave(c)
  <2>1. PICK s \in Slots, t \in Threads :
           /\ sid[s] # -1 /\ Queued(t)
           /\ \A u \in Threads : Queued(u)' <=> Queued(u) /\ u # t
           /\ \A u \in Threads : u # t => err'[u] = err[u] /\ tpc'[u] = tpc[u]
           /\ tpc'[t] \in {tpc[t], "null"}
           /\ \A r \in Slots : slock'[r] = IF r = s THEN c ELSE slock[r]
           /\ sid' = sid /\ cur' = cur /\ lt' = lt
           /\ \A d \in Cpus : cpc'[d] \in WaitPoints <=> cpc[d] \in WaitPoints
           /\ \A d \in Cpus : cpc'[d] = "acqkill" => cpc[d] = "acqkill"
    BY <1>7, LeaveFacts
  <2>2. P1'
    BY <1>1, <2>1
  <2>3. \A u \in Threads : tpc'[u] = "run" <=> tpc[u] = "run"
    BY <1>1, <2>1
  <2>4. P2'
    BY <1>1, <2>1, <2>3
  <2>5. P3'
    BY <1>1, <2>1
  <2>6. P4'
    BY <1>1, <2>1
  <2> QED BY <2>2, <2>4, <2>5, <2>6
<1>8. ASSUME NEW i \in Slots, NEW n \in InitCounts, create_sem_etc(c, i, n)
      PROVE  P1' /\ P2' /\ P3' /\ P4'
  <2>1. /\ sq'[i] = <<>> /\ \A r \in Slots : r # i => sq'[r] = sq[r] /\ sid'[r] = sid[r]
        /\ sid'[i] = NextIdFor(i)
        /\ tpc' = tpc /\ err' = err /\ cur' = cur /\ cpc' = cpc /\ lt' = lt /\ slock' = slock
    BY <1>0, <1>8 DEF create_sem_etc, TypeOK, cpuVars, threadVars
  <2>2. \A t \in Threads : Queued(t)' => Queued(t)
    BY <2>1 DEF Queued, Elems
  <2>3. sid'[i] # -1
    BY <1>0, <2>1, NextIdType DEF TypeOK
  <2>4. P1'
    BY <1>1, <2>1, <2>2
  <2> QED BY <1>1, <2>1, <2>3, <2>4
<1>9. ASSUME NEW s \in Slots, NEW n \in AcquireCounts, AcquireTake(c, s, n)
      PROVE  P1' /\ P2' /\ P3' /\ P4'
  <2>1. /\ sq' = sq /\ sid' = sid /\ slock' = slock
        /\ tpc' = tpc /\ err' = err /\ cur' = cur /\ cpc' = cpc /\ lt' = lt
    BY <1>9 DEF AcquireTake, cpuVars, threadVars
  <2> QED BY <1>1, <2>1 DEF Queued
<1>10. ASSUME NEW s \in Slots, NEW n \in AcquireCounts, NEW f \in FlagSets,
              AcquireBlock(c, s, n, f)
       PROVE  P1' /\ P2' /\ P3' /\ P4'
  <2>1. PICK t \in Threads : t = cur[c]
    BY <1>0, <1>10 DEF AcquireBlock, TypeOK
  <2>2. /\ tpc'[t] = "woken" /\ err'[t] = "B_NO_ERROR"
        /\ \A u \in Threads : u # t => tpc'[u] = tpc[u] /\ err'[u] = err[u]
        /\ cpc'[c] = "acq" /\ \A d \in Cpus : d # c => cpc'[d] = cpc[d]
        /\ cur' = cur /\ sid' = sid /\ slock' = slock /\ lt' = lt
        /\ sq'[s] = Append(sq[s], t) /\ \A r \in Slots : r # s => sq'[r] = sq[r]
    BY <1>0, <1>10, <2>1 DEF AcquireBlock, TypeOK
  <2>3. \A u \in Threads : u # t /\ Queued(u)' => Queued(u)
    <3>1. sq[s] \in Seq(Threads)
      BY <1>0 DEF TypeOK
    <3>2. t \notin Elems(sq[s])
      BY <1>0, <1>4, <1>10, <2>1 DEF AcquireBlock, RunningInv, AcquirePoints, OnList, Queued
    <3>3. Elems(sq'[s]) = Elems(sq[s]) \cup {t}
      BY <2>2, <3>1, <3>2, AppendFacts
    <3> QED BY <2>2, <3>3 DEF Queued
  <2>4. P1'
    BY <1>1, <2>2, <2>3
  <2>5. P2'
    <3>1. \A d \in Cpus : d # c => cur[d] # t
      BY <1>0, <1>4, <2>1, SemAssumption DEF RunningInv
    <3>2. "acq" \in WaitPoints
      BY DEF WaitPoints, AcquirePoints
    <3> QED BY <1>1, <2>1, <2>2, <3>1, <3>2
  <2>6. P3'
    BY <1>1, <2>2
  <2>7. P4'
    BY <1>1, <2>2
  <2> QED BY <2>4, <2>5, <2>6, <2>7
<1>11. CASE DeleteWaiter(c) \/ ReleaseWaiter(c)
  <2>1. PICK s \in Slots : s = lslot[c]
    BY <1>0 DEF TypeOK
  <2>2. sq[s] # <<>> /\ sq' = [sq EXCEPT ![s] = Tail(sq[s])]
    BY <1>11, <2>1 DEF DeleteWaiter, ReleaseWaiter
  <2>3. PICK h \in Threads : h = Head(sq[s]) /\ \A t \in Threads : Queued(t)' <=> Queued(t) /\ t # h
    BY <2>2, HeadLeaves
  <2>4. /\ \A u \in Threads : u # h => err'[u] = err[u]
        /\ tpc' = tpc /\ cur' = cur /\ cpc' = cpc /\ lt' = lt /\ slock' = slock /\ sid' = sid
    BY SMTT(30), <1>0, <1>11, <2>1, <2>3 DEF DeleteWaiter, ReleaseWaiter, TypeOK
  <2>5. P1'
    BY <1>1, <2>3, <2>4
  <2> QED BY <1>1, <2>4, <2>5
<1>12. CASE DeleteEntry(c)
  <2>1. PICK s \in Slots : s = lslot[c]
    BY <1>0 DEF TypeOK
  <2>2. /\ sq' = sq /\ tpc' = tpc /\ err' = err /\ cur' = cur /\ lt' = lt
        /\ \A r \in Slots : r # s => sid'[r] = sid[r] /\ slock'[r] = slock[r]
        /\ slock'[s] = NoCpu
        /\ \A d \in Cpus : cpc'[d] \in WaitPoints <=> cpc[d] \in WaitPoints
        /\ \A d \in Cpus : cpc'[d] = "acqkill" => cpc[d] = "acqkill"
    BY <1>0, <1>12, <2>1 DEF DeleteEntry, TypeOK, threadVars, WaitPoints, AcquirePoints
  <2>3. P1'
    BY <1>1, <2>2 DEF Queued
  <2>4. P2' /\ P3'
    BY <1>1, <2>2
  <2>5. P4'
    BY <1>1, <2>2
  <2> QED BY <2>3, <2>4, <2>5
<1>13. CASE ReleaseAdd(c)
  <2>1. /\ sq' = sq /\ sid' = sid /\ slock' = slock
        /\ tpc' = tpc /\ err' = err /\ cur' = cur /\ cpc' = cpc /\ lt' = lt
    BY <1>13 DEF ReleaseAdd, threadVars
  <2> QED BY <1>1, <2>1 DEF Queued
<1>14. CASE AcquireReturn(c)
  <2>1. PICK t \in Threads : t = cur[c]
    BY <1>0, <1>14 DEF AcquireReturn, LocalsInv
  <2>2. /\ tpc'[t] = "run" /\ \A u \in Threads : u # t => tpc'[u] = tpc[u]
        /\ cpc'[c] = "run" /\ \A d \in Cpus : d # c => cpc'[d] = cpc[d]
        /\ cur' = cur /\ sid' = sid /\ slock' = slock /\ lt' = lt /\ sq' = sq /\ err' = err
    BY <1>0, <1>14, <2>1 DEF AcquireReturn, TypeOK, semVars
  <2>3. ~Queued(t)
    BY <1>0, <1>4, <1>14, <2>1 DEF AcquireReturn, RunningInv, AcquirePoints, OnList
  <2>4. P1'
    BY <1>1, <2>2, <2>3 DEF Queued
  <2>5. P2'
    <3>1. \A d \in Cpus : d # c => cur[d] # t
      BY <1>0, <1>4, <2>1, SemAssumption DEF RunningInv
    <3>2. "run" \notin WaitPoints
      BY DEF WaitPoints, AcquirePoints
    <3> QED BY <1>1, <2>1, <2>2, <3>1, <3>2
  <2>6. P3'
    BY <1>1, <2>2
  <2>7. P4'
    BY <1>1, <2>2
  <2> QED BY <2>4, <2>5, <2>6, <2>7
<1>15. CASE AcquireKilledLate(c)
  <2>1. PICK t \in Threads : t = lt[c]
    BY <1>0, <1>15 DEF AcquireKilledLate, LocalsInv, TargetPoints
  <2>2. /\ tpc'[t] = "null" /\ \A u \in Threads : u # t => tpc'[u] = tpc[u]
        /\ cur' = cur /\ sid' = sid /\ slock' = slock /\ lt' = lt /\ sq' = sq /\ err' = err
        /\ \A d \in Cpus : cpc'[d] \in WaitPoints <=> cpc[d] \in WaitPoints
        /\ \A d \in Cpus : cpc'[d] = "acqkill" => cpc[d] = "acqkill"
    BY <1>0, <1>15, <2>1 DEF AcquireKilledLate, TypeOK, semVars, WaitPoints, AcquirePoints
  <2>3. t = cur[c] /\ tpc[t] # "run"
    BY <1>1, <1>15, <2>1 DEF AcquireKilledLate, WaitPoints, AcquirePoints
  <2>4. P1'
    BY <1>1, <2>2 DEF Queued
  <2>5. \A u \in Threads : tpc'[u] = "run" <=> tpc[u] = "run"
    BY <2>2, <2>3
  <2>6. P2'
    BY <1>1, <2>2, <2>5
  <2>7. P3'
    BY <1>1, <2>2
  <2>8. P4'
    BY <1>1, <2>2
  <2> QED BY <2>4, <2>6, <2>7, <2>8
<1> HIDE DEF P1, P2, P3, P4
<1> QED
  BY <1>3, <1>5, <1>6, <1>7, <1>8, <1>9, <1>10, <1>11, <1>12, <1>13, <1>14, <1>15

-----------------------------------------------------------------------------
(* The abstract state after a step.                                        *)

UnitsOf(r) == IF sid[r] # -1 /\ scount[r] > 0 THEN scount[r] ELSE 0
OutcomeOf(t) ==
    IF tpc[t] = "run" THEN "idle"
    ELSE IF Queued(t) THEN "waiting"
    ELSE IF err[t] = "B_NO_ERROR" THEN "granted" ELSE "failed"

(* The units do not change when those of no slot do.                       *)
LEMMA UnitsSame ==
    ASSUME \A r \in Slots : UnitsOf(r)' = UnitsOf(r)
    PROVE  unitsBar' = unitsBar
BY DEF unitsBar, UnitsOf

(* The units of one slot change.                                           *)
LEMMA UnitsSet ==
    ASSUME NEW s \in Slots, \A r \in Slots : r # s => UnitsOf(r)' = UnitsOf(r)
    PROVE  /\ unitsBar' = [unitsBar EXCEPT ![s] = UnitsOf(s)']
           /\ unitsBar[s] = UnitsOf(s) /\ unitsBar'[s] = UnitsOf(s)'
BY DEF unitsBar, UnitsOf

(* The outcomes, thread by thread.                                         *)
LEMMA OutcomeIs ==
    /\ outcomeBar = [t \in Threads |-> outcomeBar[t]]
    /\ outcomeBar' = [t \in Threads |-> outcomeBar'[t]]
    /\ \A t \in Threads : outcomeBar[t] = OutcomeOf(t) /\ outcomeBar'[t] = OutcomeOf(t)'
<1>1. outcomeBar = [t \in Threads |-> outcomeBar[t]]
  BY DEF outcomeBar
<1>2. outcomeBar' = [t \in Threads |-> outcomeBar'[t]]
  BY DEF outcomeBar
<1>3. ASSUME NEW t \in Threads PROVE outcomeBar[t] = OutcomeOf(t)
  BY DEF outcomeBar, OutcomeOf
<1>4. ASSUME NEW t \in Threads PROVE outcomeBar'[t] = OutcomeOf(t)'
  BY DEF outcomeBar, OutcomeOf
<1> QED BY <1>1, <1>2, <1>3, <1>4

(* No thread's outcome changes.                                            *)
LEMMA OutcomeSame ==
    ASSUME \A t \in Threads : /\ tpc'[t] = "run" <=> tpc[t] = "run"
                              /\ Queued(t)' <=> Queued(t)
                              /\ err'[t] = err[t]
    PROVE  outcomeBar' = outcomeBar
<1>1. \A t \in Threads : OutcomeOf(t)' = OutcomeOf(t)
  BY DEF OutcomeOf, Queued
<1> QED BY <1>1, OutcomeIs

(* One thread's outcome changes.                                           *)
LEMMA OutcomeSet ==
    ASSUME NEW t \in Threads,
           \A u \in Threads : u # t => /\ tpc'[u] = tpc[u] /\ err'[u] = err[u]
                                       /\ Queued(u)' <=> Queued(u)
    PROVE  /\ outcomeBar' = [outcomeBar EXCEPT ![t] = OutcomeOf(t)']
           /\ outcomeBar[t] = OutcomeOf(t)
<1>1. \A u \in Threads : u # t => OutcomeOf(u)' = OutcomeOf(u)
  BY DEF OutcomeOf, Queued
<1> QED BY <1>1, OutcomeIs

(* A step in which nothing happens to a unit or to a wait.                 *)
LEMMA Stutter ==
    ASSUME sq' = sq, scount' = scount, sid' = sid, err' = err,
           \A t \in Threads : tpc'[t] = "run" <=> tpc[t] = "run"
    PROVE  UNCHANGED Abs!svars
<1>1. outcomeBar' = outcomeBar
  BY OutcomeSame DEF Queued
<1>2. unitsBar' = unitsBar /\ liveBar' = liveBar
  BY DEF unitsBar, liveBar
<1> QED BY <1>1, <1>2 DEF Abs!svars

-----------------------------------------------------------------------------
(* Each kind of step is a step of SemSpec, or nothing happens there.       *)

(* create_sem_etc creates a semaphore of SemSpec.                          *)
LEMMA CreateRefines ==
    ASSUME InitCounts \subseteq Nat, SemInductive, NEW c \in Cpus, NEW i \in Slots,
           NEW n \in InitCounts, create_sem_etc(c, i, n)
    PROVE  Abs!Create(i, n)
<1>1. TypeOK /\ WaitsForLiveSem
  BY DEF SemInductive, ListInv
<1>2. /\ sid[i] = -1 /\ sid'[i] = NextIdFor(i) /\ scount'[i] = n /\ n \in Nat
      /\ \A r \in Slots : r # i => sid'[r] = sid[r] /\ scount'[r] = scount[r]
      /\ sq' = [sq EXCEPT ![i] = <<>>] /\ tpc' = tpc /\ err' = err
  BY <1>1 DEF create_sem_etc, TypeOK, threadVars
<1>3. sid'[i] # -1
  BY <1>1, <1>2, NextIdType DEF TypeOK
<1>4. sq[i] = <<>>
  BY <1>1, <1>2, ElemsFacts DEF TypeOK, WaitsForLiveSem
<1>5. sq' = sq
  BY <1>1, <1>2, <1>4 DEF TypeOK
<1>6. ~liveBar[i] /\ liveBar' = [liveBar EXCEPT ![i] = TRUE]
  BY <1>2, <1>3 DEF liveBar
<1>7. unitsBar' = [unitsBar EXCEPT ![i] = n]
  <2>1. UnitsOf(i)' = n
    BY <1>2, <1>3 DEF UnitsOf
  <2>2. \A r \in Slots : r # i => UnitsOf(r)' = UnitsOf(r)
    BY <1>2 DEF UnitsOf
  <2> QED BY <2>1, <2>2, UnitsSet
<1>8. outcomeBar' = outcomeBar
  BY <1>2, <1>5, OutcomeSame DEF Queued
<1> QED BY <1>5, <1>6, <1>7, <1>8 DEF Abs!Create

(* delete_sem_etc takes it away when it invalidates the slot.              *)
LEMMA DeleteRefines ==
    ASSUME SemInductive, ReturnInv, NEW c \in Cpus, DeleteEntry(c)
    PROVE  Abs!Delete(lslot[c])
<1>1. TypeOK /\ LockInv
  BY DEF SemInductive
<1>2. PICK s \in Slots : s = lslot[c]
  BY <1>1 DEF TypeOK
<1>3. slock[s] = c /\ c # NoCpu
  BY <1>1, <1>2, SemAssumption DEF LockInv, HoldPoints, DeleteEntry
<1>4. sid[s] # -1
  BY <1>3 DEF ReturnInv
<1>5. /\ sid'[s] = -1 /\ \A r \in Slots : r # s => sid'[r] = sid[r]
      /\ scount' = scount /\ sq' = sq /\ sq[s] = <<>> /\ tpc' = tpc /\ err' = err
  BY <1>1, <1>2 DEF DeleteEntry, Drained, TypeOK, threadVars
<1>6. liveBar[s] /\ liveBar' = [liveBar EXCEPT ![s] = FALSE]
  BY <1>4, <1>5 DEF liveBar
<1>7. unitsBar' = [unitsBar EXCEPT ![s] = 0]
  BY <1>5 DEF unitsBar
<1>8. outcomeBar' = outcomeBar
  BY <1>5, OutcomeSame DEF Queued
<1> QED BY <1>2, <1>5, <1>6, <1>7, <1>8 DEF Abs!Delete

(* An acquire that finds a unit takes it.                                  *)
LEMMA TakeRefines ==
    ASSUME SemInductive, NEW c \in Cpus, NEW s \in Slots, AcquireTake(c, s, 1)
    PROVE  Abs!Take(s)
<1>1. TypeOK
  BY DEF SemInductive
<1>2. /\ sid[s] # -1 /\ scount[s] \in Int /\ scount[s] >= 1 /\ scount'[s] = scount[s] - 1
      /\ \A r \in Slots : r # s => scount'[r] = scount[r]
      /\ sid' = sid /\ sq' = sq /\ tpc' = tpc /\ err' = err
  BY <1>1 DEF AcquireTake, TypeOK, threadVars
<1>3. UnitsOf(s) = scount[s] /\ UnitsOf(s)' = scount[s] - 1
  BY <1>2 DEF UnitsOf
<1>4. unitsBar[s] > 0 /\ unitsBar' = [unitsBar EXCEPT ![s] = unitsBar[s] - 1]
  <2>1. \A r \in Slots : r # s => UnitsOf(r)' = UnitsOf(r)
    BY <1>2 DEF UnitsOf
  <2> QED BY <1>2, <1>3, <2>1, UnitsSet
<1>5. liveBar[s] /\ liveBar' = liveBar
  BY <1>2 DEF liveBar
<1>6. outcomeBar' = outcomeBar
  BY <1>2, OutcomeSame DEF Queued
<1> QED BY <1>2, <1>4, <1>5, <1>6 DEF Abs!Take

(* An acquire that finds none waits.                                       *)
LEMMA WaitRefines ==
    ASSUME SemInductive, ReturnInv, fault = "none", NEW c \in Cpus, NEW s \in Slots,
           NEW f \in FlagSets, AcquireBlock(c, s, 1, f)
    PROVE  Abs!Wait(s, cur[c]) /\ cur[c] \in Threads
<1>1. TypeOK /\ RunningInv
  BY DEF SemInductive
<1>2. PICK t \in Threads : t = cur[c]
  BY <1>1 DEF AcquireBlock, TypeOK
<1>3. /\ sid[s] # -1 /\ scount[s] \in Int /\ scount[s] <= 0 /\ scount'[s] = scount[s] - 1
      /\ \A r \in Slots : r # s => scount'[r] = scount[r]
      /\ sid' = sid /\ sq' = [sq EXCEPT ![s] = Append(sq[s], t)]
      /\ tpc'[t] = "woken" /\ cpc[c] = "run"
      /\ \A u \in Threads : u # t => tpc'[u] = tpc[u] /\ err'[u] = err[u]
  BY <1>1, <1>2 DEF AcquireBlock, TypeOK
<1>4. tpc[t] = "run"
  BY <1>2, <1>3 DEF ReturnInv, WaitPoints, AcquirePoints
<1>5. ~Queued(t)
  BY <1>4 DEF ReturnInv
<1>6. /\ Queued(t)' /\ \A u \in Threads : u # t => (Queued(u)' <=> Queued(u))
  <2>1. /\ sq'[s] = Append(sq[s], t) /\ \A r \in Slots : r # s => sq'[r] = sq[r]
        /\ sq[s] \in Seq(Threads)
    BY <1>1, <1>3 DEF TypeOK
  <2>2. t \notin Elems(sq[s])
    BY <1>5 DEF Queued
  <2>3. Elems(sq'[s]) = Elems(sq[s]) \cup {t}
    BY <2>1, <2>2, AppendFacts
  <2> QED BY <2>1, <2>3 DEF Queued
<1>7. /\ outcomeBar' = [outcomeBar EXCEPT ![t] = OutcomeOf(t)'] /\ outcomeBar[t] = OutcomeOf(t)
  BY <1>3, <1>6, OutcomeSet
<1>8. OutcomeOf(t) = "idle" /\ OutcomeOf(t)' = "waiting"
  BY <1>3, <1>4, <1>6 DEF OutcomeOf
<1>9. unitsBar' = unitsBar /\ unitsBar[s] = 0
  <2>1. UnitsOf(s) = 0 /\ \A r \in Slots : UnitsOf(r)' = UnitsOf(r)
    BY <1>3 DEF UnitsOf
  <2> QED BY <2>1, UnitsSame, UnitsSet
<1>10. liveBar[s] /\ liveBar' = liveBar
  BY <1>3 DEF liveBar
<1> QED BY <1>2, <1>3, <1>7, <1>8, <1>9, <1>10 DEF Abs!Wait

(* A release that finds nobody adds a unit.                                *)
LEMMA PutRefines ==
    ASSUME SemInductive, CountMatchesQueue, ReturnInv, NEW c \in Cpus, ReleaseAdd(c)
    PROVE  Abs!Put(lslot[c]) /\ lslot[c] \in Slots
<1>1. TypeOK /\ LockInv
  BY DEF SemInductive
<1>2. PICK s \in Slots : s = lslot[c]
  BY <1>1 DEF TypeOK
<1>3. slock[s] = c /\ c # NoCpu /\ ~Deleting(s)
  BY <1>1, <1>2, LockedOut, SemAssumption DEF LockInv, HoldPoints, ReleaseAdd
<1>4. sid[s] # -1
  BY <1>3 DEF ReturnInv
<1>5. /\ ln[c] \in Int /\ ln[c] > 0 /\ scount[s] \in Int /\ scount[s] >= 0
      /\ scount'[s] = scount[s] + ln[c]
      /\ \A r \in Slots : r # s => scount'[r] = scount[r]
      /\ sid' = sid /\ sq' = sq /\ tpc' = tpc /\ err' = err /\ sq[s] \in Seq(Threads)
  BY <1>1, <1>2 DEF ReleaseAdd, TypeOK, threadVars
<1>6. sq[s] = <<>>
  <2>1. Len(sq[s]) = 0
    BY <1>3, <1>4, <1>5 DEF CountMatchesQueue
  <2> QED BY <1>5, <2>1, ElemsFacts
<1>7. UnitsOf(s) = scount[s] /\ UnitsOf(s)' = scount[s] + ln[c]
  BY <1>4, <1>5 DEF UnitsOf
<1>8. unitsBar'[s] > unitsBar[s] /\ unitsBar' = [unitsBar EXCEPT ![s] = unitsBar'[s]]
  <2>1. \A r \in Slots : r # s => UnitsOf(r)' = UnitsOf(r)
    BY <1>5 DEF UnitsOf
  <2>2. /\ unitsBar' = [unitsBar EXCEPT ![s] = UnitsOf(s)']
        /\ unitsBar[s] = UnitsOf(s) /\ unitsBar'[s] = UnitsOf(s)'
    BY <2>1, UnitsSet
  <2>3. unitsBar'[s] > unitsBar[s]
    BY <1>5, <1>7, <2>2
  <2> QED BY <2>2, <2>3
<1>9. liveBar[s] /\ liveBar' = liveBar
  BY <1>4, <1>5 DEF liveBar
<1>10. outcomeBar' = outcomeBar
  BY <1>5, OutcomeSame DEF Queued
<1> QED BY <1>2, <1>5, <1>6, <1>8, <1>9, <1>10 DEF Abs!Put

(* A release grants a unit to the first in the queue.                      *)
LEMMA GrantRefines ==
    ASSUME SemInductive, UnitInv, ReturnInv, NEW c \in Cpus, ReleaseWaiter(c)
    PROVE  Abs!Grant(lslot[c]) /\ lslot[c] \in Slots
<1>1. TypeOK /\ LockInv
  BY DEF SemInductive
<1>2. PICK s \in Slots : s = lslot[c]
  BY <1>1 DEF TypeOK
<1>3. slock[s] = c /\ c # NoCpu
  BY <1>1, <1>2, SemAssumption DEF LockInv, HoldPoints, ReleaseWaiter
<1>4. sid[s] # -1
  BY <1>3 DEF ReturnInv
<1>5. sq[s] # <<>> /\ sq' = [sq EXCEPT ![s] = Tail(sq[s])] /\ sq[s] \in Seq(Threads)
  BY <1>1, <1>2 DEF ReleaseWaiter, TypeOK
<1>6. PICK h \in Threads : /\ h = Head(sq[s]) /\ Queued(h)
                           /\ \A t \in Threads : Queued(t)' <=> Queued(t) /\ t # h
  BY <1>5, HeadLeaves
<1>7. need[h] = 1
  BY <1>5, <1>6, ElemsFacts DEF UnitInv
<1>8. /\ scount[s] \in Int /\ scount[s] < 0 /\ scount'[s] = scount[s] + 1
      /\ \A r \in Slots : r # s => scount'[r] = scount[r]
      /\ sid' = sid /\ tpc' = tpc /\ err' = err
  BY <1>1, <1>2, <1>6, <1>7 DEF ReleaseWaiter, TypeOK
<1>9. unitsBar' = unitsBar
  <2>1. \A r \in Slots : UnitsOf(r)' = UnitsOf(r)
    BY <1>8 DEF UnitsOf
  <2> QED BY <2>1, UnitsSame
<1>10. liveBar[s] /\ liveBar' = liveBar
  BY <1>4, <1>8 DEF liveBar
<1>11. outcomeBar' = [outcomeBar EXCEPT ![h] = "granted"]
  <2>1. outcomeBar' = [outcomeBar EXCEPT ![h] = OutcomeOf(h)']
    BY <1>6, <1>8, OutcomeSet
  <2>2. tpc[h] # "run" /\ err[h] = "B_NO_ERROR"
    BY <1>6 DEF ReturnInv
  <2>3. OutcomeOf(h)' = "granted"
    BY <1>6, <1>8, <2>2 DEF OutcomeOf
  <2> QED BY <2>1, <2>3
<1> QED BY <1>2, <1>5, <1>6, <1>9, <1>10, <1>11 DEF Abs!Grant

(* The queue without its first thread, as SemSpec writes it.               *)
LEMMA TailIs ==
    ASSUME NEW q \in Seq(Threads), q # <<>>
    PROVE  Tail(q) = [j \in 1 .. Len(q) - 1 |-> IF j < 1 THEN q[j] ELSE q[j + 1]]
<1>1. /\ Tail(q) \in Seq(Threads) /\ Len(Tail(q)) = Len(q) - 1 /\ Len(q) \in Nat
      /\ \A i \in 1 .. Len(q) - 1 : Tail(q)[i] = q[i + 1]
  OBVIOUS
<1>2. DOMAIN Tail(q) = 1 .. Len(q) - 1 /\ Tail(q) = [j \in 1 .. Len(q) - 1 |-> Tail(q)[j]]
  <2>1. PICK r \in Seq(Threads) : r = Tail(q)
    BY <1>1
  <2>2. DOMAIN r = 1 .. Len(r) /\ r = [j \in DOMAIN r |-> r[j]]
    <3>1. r \in [1 .. Len(r) -> Threads]
      BY LenProperties
    <3> QED BY <3>1
  <2> QED BY <1>1, <2>1, <2>2
<1>3. \A j \in 1 .. Len(q) - 1 : Tail(q)[j] = IF j < 1 THEN q[j] ELSE q[j + 1]
  BY <1>1
<1> QED BY <1>2, <1>3

(* A deletion fails the first in the queue.                                *)
LEMMA DeletedRefines ==
    ASSUME SemInductive, ReturnInv, NEW c \in Cpus, DeleteWaiter(c)
    PROVE  /\ lslot[c] \in Slots
           /\ \E k \in 1 .. Len(sq[lslot[c]]) : Abs!Fail(lslot[c], k)
<1>1. TypeOK
  BY DEF SemInductive
<1>2. PICK s \in Slots : s = lslot[c]
  BY <1>1 DEF TypeOK
<1>3. sq[s] # <<>> /\ sq' = [sq EXCEPT ![s] = Tail(sq[s])] /\ sq[s] \in Seq(Threads)
  BY <1>1, <1>2 DEF DeleteWaiter, TypeOK
<1>4. PICK h \in Threads : /\ h = Head(sq[s]) /\ Queued(h)
                           /\ \A t \in Threads : Queued(t)' <=> Queued(t) /\ t # h
  BY <1>3, HeadLeaves
<1>5. /\ scount' = scount /\ sid' = sid /\ tpc' = tpc /\ err'[h] = "B_BAD_SEM_ID"
      /\ \A u \in Threads : u # h => err'[u] = err[u]
  BY <1>1, <1>2, <1>4 DEF DeleteWaiter, TypeOK
<1>6. unitsBar' = unitsBar /\ liveBar' = liveBar
  BY <1>5 DEF unitsBar, liveBar
<1>7. outcomeBar' = [outcomeBar EXCEPT ![h] = "failed"]
  <2>1. outcomeBar' = [outcomeBar EXCEPT ![h] = OutcomeOf(h)']
    BY <1>4, <1>5, OutcomeSet
  <2>2. tpc[h] # "run"
    BY <1>4 DEF ReturnInv
  <2>3. OutcomeOf(h)' = "failed"
    BY <1>4, <1>5, <2>2 DEF OutcomeOf
  <2> QED BY <2>1, <2>3
<1>8. 1 \in 1 .. Len(sq[s]) /\ sq[s][1] = h
  BY <1>3, <1>4
<1>9. sq' = [sq EXCEPT ![s] = [j \in 1 .. Len(sq[s]) - 1 |->
                                  IF j < 1 THEN sq[s][j] ELSE sq[s][j + 1]]]
  BY <1>3, TailIs
<1>10. Abs!Fail(s, 1)
  BY <1>6, <1>7, <1>8, <1>9 DEF Abs!Fail
<1> QED BY <1>2, <1>8, <1>10

(* A timeout or a kill fails a waiter.                                     *)
LEMMA LeaveRefines ==
    ASSUME SemInductive, UnitInv, CountMatchesQueue, ReturnInv, NEW c \in Cpus, Leave(c)
    PROVE  /\ lslot[c] \in Slots
           /\ \E k \in 1 .. Len(sq[lslot[c]]) : Abs!Fail(lslot[c], k)
<1>1. TypeOK /\ LockInv
  BY DEF SemInductive
<1>2. PICK s \in Slots, t \in Threads :
         /\ s = lslot[c] /\ t \in Elems(sq[s]) /\ slock[s] = NoCpu /\ sid[s] # -1 /\ Queued(t)
         /\ sq' = [sq EXCEPT ![s] = Without(sq[s], t)]
         /\ scount' = [scount EXCEPT ![s] = scount[s] + acq[t]]
         /\ \A u \in Threads : Queued(u)' <=> Queued(u) /\ u # t
         /\ err'[t] \in {"B_TIMED_OUT", "EINTR"}
         /\ \A u \in Threads : u # t => err'[u] = err[u] /\ tpc'[u] = tpc[u]
         /\ tpc'[t] \in {tpc[t], "null"} /\ sid' = sid
  BY LeaveFacts
<1>3. ~Deleting(s) /\ acq[t] = 1 /\ scount[s] \in Int /\ sq[s] \in Seq(Threads)
  BY <1>1, <1>2, LockedOut DEF UnitInv, TypeOK
<1>4. scount[s] < 0
  <2>1. Len(sq[s]) # 0
    BY <1>2, <1>3, ElemsFacts
  <2> QED BY <1>2, <1>3, <2>1 DEF CountMatchesQueue
<1>5. unitsBar' = unitsBar /\ liveBar' = liveBar
  <2>1. scount'[s] = scount[s] + 1 /\ \A r \in Slots : r # s => scount'[r] = scount[r]
    BY <1>1, <1>2, <1>3 DEF TypeOK
  <2>2. \A r \in Slots : UnitsOf(r)' = UnitsOf(r)
    BY <1>2, <1>3, <1>4, <2>1 DEF UnitsOf
  <2> QED BY <1>2, <2>2, UnitsSame DEF liveBar
<1>6. outcomeBar' = [outcomeBar EXCEPT ![t] = "failed"]
  <2>1. outcomeBar' = [outcomeBar EXCEPT ![t] = OutcomeOf(t)']
    BY <1>2, OutcomeSet
  <2>2. tpc[t] # "run"
    BY <1>2 DEF ReturnInv
  <2>3. OutcomeOf(t)' = "failed"
    BY <1>2, <2>2 DEF OutcomeOf
  <2> QED BY <2>1, <2>3
<1>7. PICK k : k = CHOOSE i \in 1 .. Len(sq[s]) : sq[s][i] = t
  OBVIOUS
<1>8. k \in 1 .. Len(sq[s]) /\ sq[s][k] = t
  BY <1>2, <1>7 DEF Elems
<1>9. sq' = [sq EXCEPT ![s] = [j \in 1 .. Len(sq[s]) - 1 |->
                                  IF j < k THEN sq[s][j] ELSE sq[s][j + 1]]]
  BY <1>2, <1>7 DEF Without
<1>10. Abs!Fail(s, k)
  BY <1>5, <1>6, <1>8, <1>9 DEF Abs!Fail
<1> QED BY <1>2, <1>8, <1>10

(* An acquire that waited returns to its caller.                           *)
LEMMA ReturnRefines ==
    ASSUME SemInductive, ReturnInv, fault = "none", NEW c \in Cpus, AcquireReturn(c)
    PROVE  Abs!Return(cur[c]) /\ cur[c] \in Threads
<1>1. TypeOK /\ RunningInv /\ LocalsInv
  BY DEF SemInductive
<1>2. PICK t \in Threads : t = cur[c]
  BY <1>1 DEF AcquireReturn, LocalsInv
<1>3. /\ tpc'[t] = "run" /\ \A u \in Threads : u # t => tpc'[u] = tpc[u]
      /\ sq' = sq /\ scount' = scount /\ sid' = sid /\ err' = err
  BY <1>1, <1>2 DEF AcquireReturn, TypeOK, semVars
<1>4. tpc[t] # "run"
  BY <1>2 DEF AcquireReturn, ReturnInv, WaitPoints
<1>5. ~Queued(t)
  BY <1>1, <1>2 DEF AcquireReturn, RunningInv, AcquirePoints, OnList
<1>6. /\ outcomeBar' = [outcomeBar EXCEPT ![t] = OutcomeOf(t)'] /\ outcomeBar[t] = OutcomeOf(t)
  <2>1. \A u \in Threads : Queued(u)' <=> Queued(u)
    BY <1>3 DEF Queued
  <2> QED BY <1>3, <2>1, OutcomeSet
<1>7. OutcomeOf(t) \in {"granted", "failed"} /\ OutcomeOf(t)' = "idle"
  BY <1>3, <1>4, <1>5 DEF OutcomeOf
<1>8. unitsBar' = unitsBar /\ liveBar' = liveBar
  BY <1>3 DEF unitsBar, liveBar
<1> QED BY <1>2, <1>3, <1>6, <1>7, <1>8 DEF Abs!Return

(* Every step of sem.c is one of SemSpec or changes nothing there.         *)
LEMMA RefineStep ==
    ASSUME AcquireCounts = {1}, InitCounts \subseteq Nat,
           SemInductive, UnitInv, CountMatchesQueue, ReturnInv, Next
    PROVE  Abs!Next \/ UNCHANGED Abs!svars
<1>0. TypeOK /\ LockInv /\ LocalsInv /\ fault = "none"
  BY StepKinds DEF SemInductive
<1>1. PICK c \in Cpus :
         \/ Switch(c) \/ Quiet(c) \/ Leave(c)
         \/ \E i \in Slots, n \in InitCounts : create_sem_etc(c, i, n)
         \/ \E s \in Slots, n \in AcquireCounts :
               AcquireTake(c, s, n) \/ \E f \in FlagSets : AcquireBlock(c, s, n, f)
         \/ DeleteWaiter(c) \/ DeleteEntry(c)
         \/ ReleaseAdd(c) \/ ReleaseWaiter(c)
         \/ AcquireReturn(c) \/ AcquireKilledLate(c)
  BY StepKinds, NoParts
<1>2. CASE Switch(c)
  BY <1>0, <1>2, SwitchFacts, Stutter
<1>3. CASE Quiet(c)
  BY <1>0, <1>3, QuietFacts, Stutter
<1>4. CASE Leave(c)
  BY <1>4, LeaveRefines DEF Abs!Next
<1>5. ASSUME NEW i \in Slots, NEW n \in InitCounts, create_sem_etc(c, i, n) PROVE Abs!Next
  BY <1>5, CreateRefines DEF Abs!Next
<1>6. ASSUME NEW s \in Slots, AcquireTake(c, s, 1) PROVE Abs!Next
  BY <1>6, TakeRefines DEF Abs!Next
<1>7. ASSUME NEW s \in Slots, NEW f \in FlagSets, AcquireBlock(c, s, 1, f) PROVE Abs!Next
  BY <1>0, <1>7, WaitRefines DEF Abs!Next
<1>8. CASE DeleteWaiter(c)
  BY <1>8, DeletedRefines DEF Abs!Next
<1>9. CASE DeleteEntry(c)
  BY <1>0, <1>9, DeleteRefines DEF Abs!Next, TypeOK
<1>10. CASE ReleaseAdd(c)
  BY <1>10, PutRefines DEF Abs!Next
<1>11. CASE ReleaseWaiter(c)
  BY <1>11, GrantRefines DEF Abs!Next
<1>12. CASE AcquireReturn(c)
  BY <1>0, <1>12, ReturnRefines DEF Abs!Next
<1>13. CASE AcquireKilledLate(c)
  <2>1. PICK t \in Threads : t = lt[c]
    BY <1>0, <1>13 DEF AcquireKilledLate, LocalsInv, TargetPoints
  <2>2. tpc[t] # "run"
    BY <1>13, <2>1 DEF AcquireKilledLate, ReturnInv, WaitPoints, AcquirePoints
  <2>3. /\ tpc'[t] = "null" /\ \A u \in Threads : u # t => tpc'[u] = tpc[u]
        /\ sq' = sq /\ scount' = scount /\ sid' = sid /\ err' = err
    BY <1>0, <1>13, <2>1 DEF AcquireKilledLate, TypeOK, semVars
  <2> QED BY <2>2, <2>3, Stutter
<1> QED
  BY <1>1, <1>2, <1>3, <1>4, <1>5, <1>6, <1>7, <1>8, <1>9, <1>10, <1>11, <1>12, <1>13

-----------------------------------------------------------------------------
(* The initial states of sem.c are initial states of SemSpec.              *)
LEMMA RefineInit ==
    ASSUME Init PROVE Abs!Init
<1>1. \A t \in Threads : ~Queued(t)
  BY DEF Init, Queued, Elems
<1>2. liveBar = [s \in Slots |-> FALSE] /\ unitsBar = [s \in Slots |-> 0]
  BY DEF Init, liveBar, unitsBar
<1>3. outcomeBar = [t \in Threads |-> "idle"]
  BY DEF Init, outcomeBar
<1> QED BY <1>2, <1>3 DEF Abs!Init, Init

(* sem.c, with acquires of one unit, behaves like the FIFO counting        *)
(* semaphores of SemSpec under every interleaving of acquires, releases,   *)
(* timeouts, kills and deletions on any number of CPUs.                    *)
THEOREM SemImplementsSemSpec ==
    ASSUME AcquireCounts = {1}, InitCounts \subseteq Nat
    PROVE  Spec => ImplementsSemSpec
<1> DEFINE Inv == SemInductive /\ UnitInv /\ CountMatchesQueue /\ ReturnInv
<1>1. Init => Inv /\ Abs!Init
  <2>1. ASSUME Init PROVE UnitInv /\ CountMatchesQueue /\ ReturnInv
    BY <2>1, SemAssumption DEF Init, UnitInv, CountMatchesQueue, ReturnInv, Elems, Queued
  <2> QED BY <2>1, InitInductive, RefineInit
<1>2. Inv /\ [Next]_vars => Inv' /\ [Abs!Next]_(Abs!svars)
  <2>1. ASSUME Inv, Next PROVE Inv' /\ (Abs!Next \/ UNCHANGED Abs!svars)
    BY <2>1, CountStep, StepInductive, ReturnStep, RefineStep
  <2>2. ASSUME Inv, UNCHANGED vars PROVE Inv' /\ UNCHANGED Abs!svars
    <3>1. SemInductive'
      BY <2>2, StepInductive
    <3>2. UnitInv' /\ CountMatchesQueue'
      BY <2>2, CountSame DEF vars
    <3>3. ReturnInv'
      BY <2>2 DEF vars, ReturnInv, Queued
    <3>4. UNCHANGED Abs!svars
      BY <2>2, Stutter DEF vars
    <3> QED BY <3>1, <3>2, <3>3, <3>4
  <2> QED BY <2>1, <2>2
<1> HIDE DEF Inv
<1> QED BY <1>1, <1>2, PTL DEF Spec, ImplementsSemSpec, Abs!Spec

-----------------------------------------------------------------------------
(* Acquires of several units, without timeouts and kills.                  *)

(* Nobody leaves a queue but by a release or a deletion.                   *)
LeavePoints == {"acqkill", "acqr", "acqq", "null", "tmo", "tmor", "tmoq", "kill", "killr",
                "killq"}
Undisturbed ==
    /\ \A t \in Threads : flags[t] = {} /\ timer[t] = NoCpu /\ tpc[t] # "null"
    /\ \A c \in Cpus : cpc[c] \notin LeavePoints

(* Every waiter lacks a unit.                                              *)
NeedInv ==
    \A s \in Slots : /\ \A t \in Elems(sq[s]) : need[t] \in Nat \ {0}
                     /\ IsFiniteSet(Lacked(need, Elems(sq[s])))

(* What threads lack depends on their needs only.                          *)
LEMMA LackedSame ==
    ASSUME NEW f, NEW g, NEW Q, \A x \in Q : g[x] = f[x]
    PROVE  Lacked(g, Q) = Lacked(f, Q)
BY DEF Lacked

(* One thread more lacks its units.                                        *)
LEMMA LackedJoin ==
    ASSUME NEW f, NEW Q, NEW t, t \notin Q, f[t] \in Nat, IsFiniteSet(Lacked(f, Q))
    PROVE  /\ IsFiniteSet(Lacked(f, Q \cup {t}))
           /\ Cardinality(Lacked(f, Q \cup {t})) = Cardinality(Lacked(f, Q)) + f[t]
<1>1. PICK R : R = Lacked(f, Q)
  OBVIOUS
<1>2. PICK k \in Nat : k = f[t]
  OBVIOUS
<1>3. \A q \in R : q[1] # t
  BY <1>1 DEF Lacked
<1>4. Lacked(f, Q \cup {t}) = R \cup ({t} \X (1 .. k))
  BY <1>1, <1>2 DEF Lacked
<1>5. /\ IsFiniteSet(R \cup ({t} \X (1 .. k)))
      /\ Cardinality(R \cup ({t} \X (1 .. k))) = Cardinality(R) + k
  BY <1>1, <1>3, UnitsAdded
<1> QED BY <1>1, <1>2, <1>4, <1>5

(* One thread less.                                                        *)
LEMMA LackedLeave ==
    ASSUME NEW f, NEW Q, NEW t \in Q, f[t] \in Nat, IsFiniteSet(Lacked(f, Q))
    PROVE  /\ IsFiniteSet(Lacked(f, Q \ {t}))
           /\ Cardinality(Lacked(f, Q)) \in Nat /\ Cardinality(Lacked(f, Q \ {t})) \in Nat
           /\ Cardinality(Lacked(f, Q)) = Cardinality(Lacked(f, Q \ {t})) + f[t]
<1>1. Lacked(f, Q \ {t}) \subseteq Lacked(f, Q)
  BY DEF Lacked
<1>2. IsFiniteSet(Lacked(f, Q \ {t}))
  BY <1>1, FS_Subset
<1>3. (Q \ {t}) \cup {t} = Q /\ t \notin Q \ {t}
  OBVIOUS
<1>4. Cardinality(Lacked(f, (Q \ {t}) \cup {t})) = Cardinality(Lacked(f, Q \ {t})) + f[t]
  BY <1>2, <1>3, LackedJoin
<1> QED BY <1>2, <1>3, <1>4, FS_CardinalityType

(* Without flags no timer is armed and no kill interrupts a wait.          *)
LEMMA UndisturbedStep ==
    ASSUME FlagSets \subseteq {{}}, TypeOK, LocalsInv, Undisturbed, Next
    PROVE  Undisturbed'
<1> USE DEF threadVars, schedVars, cpuVars, semVars
<1> PICK c \in Cpus : Call(c) \/ KernelStep(c) \/ Interrupt(c)
  BY DEF Next
<1>1. ASSUME flags' = flags, timer' = timer, tpc' = tpc,
             \A d \in Cpus : cpc'[d] \in LeavePoints => cpc[d] \in LeavePoints
      PROVE  Undisturbed'
  BY <1>1 DEF Undisturbed
<1>2. ASSUME NEW ready \in SUBSET Threads, Resched(c, ready)
      PROVE  \A d \in Cpus : cpc'[d] \in LeavePoints => cpc[d] \in LeavePoints
  <2>1. PICK next \in Pool(c, ready) \cup {NoThread} :
           cpc' = [cpc EXCEPT ![c] = IF next = NoThread THEN "run" ELSE tpc[next]]
    BY <1>2 DEF Resched
  <2>2. next = NoThread \/ next \in Threads
    BY <1>2 DEF Pool, TypeOK
  <2>3. next \in Threads => tpc[next] \in {"run", "woken"}
    BY DEF TypeOK, Undisturbed
  <2> QED BY <2>1, <2>2, <2>3 DEF TypeOK, LeavePoints
<1>3. CASE \/ Preempt(c) \/ DeleteWake(c) \/ AcquireResched(c) \/ ReleaseWake(c)
  <2>1. /\ flags' = flags /\ timer' = timer /\ tpc' = tpc
        /\ \E ready \in SUBSET Threads : Resched(c, ready)
    BY <1>3 DEF Preempt, DeleteWake, AcquireResched, ReleaseWake, TypeOK
  <2> QED BY <1>1, <1>2, <2>1
<1>4. cpc[c] \notin LeavePoints /\ \A t \in Threads : timer[t] # c
  BY SemAssumption DEF Undisturbed
<1>5. CASE \/ \E i \in Slots, n \in InitCounts : create_sem_etc(c, i, n)
           \/ \E s \in Slots, n \in AcquireCounts : AcquireTake(c, s, n)
           \/ \E t \in Threads : KillPending(c, t)
  <2>1. flags' = flags /\ timer' = timer /\ tpc' = tpc /\ cpc' = cpc
    BY <1>5 DEF create_sem_etc, AcquireTake, KillPending
  <2> QED BY <1>1, <2>1
<1>6. CASE \/ \E s \in Slots : DeleteEnter(c, s)
           \/ \E s \in Slots, n \in ReleaseCounts : ReleaseEnter(c, s, n)
           \/ DeleteWaiter(c) \/ DeleteEntry(c)
           \/ ReleaseAdd(c) \/ ReleaseWaiter(c) \/ ReleasePart(c) \/ ReleaseNobody(c)
           \/ ReleaseUnlock(c) \/ ReleaseWakeOnly(c)
  <2>1. /\ flags' = flags /\ timer' = timer /\ tpc' = tpc
        /\ \/ cpc' = cpc
           \/ \E p \in {"del", "rel", "run", "delq", "relq"} : cpc' = [cpc EXCEPT ![c] = p]
    BY <1>6 DEF DeleteEnter, ReleaseEnter, DeleteWaiter, DeleteEntry, ReleaseAdd, ReleaseWaiter,
                ReleasePart, ReleaseNobody, ReleaseUnlock, ReleaseWakeOnly
  <2> QED BY <1>1, <2>1 DEF TypeOK, LeavePoints
<1>7. ASSUME NEW s \in Slots, NEW n \in AcquireCounts, NEW f \in FlagSets, AcquireBlock(c, s, n, f)
      PROVE  Undisturbed'
  <2>1. f = {} /\ ~Timed(f)
    BY DEF Timed
  <2>2. cur[c] \in Threads
    BY <1>7 DEF AcquireBlock, TypeOK
  <2>3. /\ flags' = [flags EXCEPT ![cur[c]] = {}] /\ timer' = [timer EXCEPT ![cur[c]] = @]
        /\ tpc' = [tpc EXCEPT ![cur[c]] = "woken"] /\ cpc' = [cpc EXCEPT ![c] = "acq"]
    BY <1>7, <2>1 DEF AcquireBlock
  <2> QED BY <2>2, <2>3 DEF Undisturbed, TypeOK, LeavePoints
<1>8. CASE AcquireReturn(c)
  <2>1. /\ flags' = flags /\ timer' = [timer EXCEPT ![cur[c]] = TimerLeft(cur[c])]
        /\ tpc' = [tpc EXCEPT ![cur[c]] = "run"] /\ cpc' = [cpc EXCEPT ![c] = "run"]
    BY <1>8 DEF AcquireReturn
  <2>2. cur[c] \in Threads => TimerLeft(cur[c]) = NoCpu
    BY DEF TimerLeft, Undisturbed
  <2> QED BY <2>1, <2>2 DEF Undisturbed, TypeOK, LeavePoints
<1>9. ASSUME NEW t \in Threads, KillWaiting(c, t) PROVE FALSE
  BY <1>9 DEF KillWaiting, Interruptible, Undisturbed
<1>10. ASSUME NEW t \in Threads, TimerInterrupt(c, t) PROVE FALSE
  BY <1>4, <1>10 DEF TimerInterrupt
<1>11. CASE AcquireSeesKill(c)
  <2>1. cur[c] \in Threads
    BY <1>11 DEF AcquireSeesKill, LocalsInv, AcquirePoints
  <2> QED BY <1>11, <2>1 DEF AcquireSeesKill, KillSeen, Undisturbed
<1>12. ~(\/ AcquireKilled(c) \/ AcquireKilledLate(c) \/ AcquireKilledWake(c) \/ AcquireNull(c)
         \/ RemoveWakeFirst(c) \/ RemovePart(c) \/ RemoveUnlock(c)
         \/ TimeoutRemove(c) \/ TimeoutLate(c) \/ TimeoutPanic(c) \/ TimeoutWake(c)
         \/ KillRemove(c) \/ KillPanic(c) \/ KillWake(c))
  BY <1>4 DEF AcquireKilled, AcquireKilledLate, AcquireKilledWake, AcquireNull, RemoveWakeFirst,
              RemovePart, RemoveUnlock, WakeLoop, TimeoutRemove, TimeoutLate, TimeoutPanic,
              TimeoutWake, KillRemove, KillPanic, KillWake, LeavePoints
<1> QED BY <1>3, <1>5, <1>6, <1>7, <1>8, <1>9, <1>10, <1>11, <1>12 DEF Call, KernelStep, Interrupt

(* One slot gets a new wait queue and a new count.                         *)
LEMMA DeficitSlot ==
    ASSUME TypeOK, OneList, NeedInv, DeficitMatchesNeeds, NEW s \in Slots, NEW t \in Threads,
           NEW q, NEW k \in Int,
           sq' = [sq EXCEPT ![s] = q], scount' = [scount EXCEPT ![s] = k], sid' = sid,
           t \in Elems(sq[s]) \/ \A r \in Slots : t \notin Elems(sq[r]),
           \A x \in Threads : x # t => need'[x] = need[x],
           \A d \in Cpus : cpc[d] = "del" => cpc'[d] = "del" /\ lslot'[d] = lslot[d],
           \A x \in Elems(q) : need'[x] \in Nat \ {0},
           IsFiniteSet(Lacked(need', Elems(q))),
           Deleting(s) \/ Cardinality(Lacked(need', Elems(q))) = IF k < 0 THEN -k ELSE 0
    PROVE  NeedInv' /\ DeficitMatchesNeeds'
<1>1. /\ sq'[s] = q /\ scount'[s] = k
      /\ \A r \in Slots : r # s => sq'[r] = sq[r] /\ scount'[r] = scount[r]
  BY DEF TypeOK
<1>2. ASSUME NEW r \in Slots, r # s
      PROVE  /\ \A x \in Elems(sq[r]) : need'[x] = need[x]
             /\ Lacked(need', Elems(sq[r])) = Lacked(need, Elems(sq[r]))
  <2>1. Elems(sq[r]) \subseteq Threads
    BY ElemsFacts DEF TypeOK
  <2>2. t \notin Elems(sq[r])
    BY <1>2 DEF OneList
  <2>3. \A x \in Elems(sq[r]) : need'[x] = need[x]
    BY <2>1, <2>2
  <2> QED BY <2>3, LackedSame
<1>3. ASSUME NEW r \in Slots
      PROVE  /\ \A x \in Elems(sq'[r]) : need'[x] \in Nat \ {0}
             /\ IsFiniteSet(Lacked(need', Elems(sq'[r])))
  <2>1. CASE r = s
    BY <1>1, <2>1
  <2>2. CASE r # s
    <3>1. sq'[r] = sq[r]
      BY <1>1, <2>2
    <3> QED BY <1>2, <2>2, <3>1 DEF NeedInv
  <2> QED BY <2>1, <2>2
<1>4. \A r \in Slots : Deleting(r) => Deleting(r)'
  BY DEF Deleting
<1>5. ASSUME NEW r \in Slots, ~Deleting(r)', sid'[r] # -1
      PROVE  Cardinality(Lacked(need', Elems(sq'[r]))) =
                IF scount'[r] < 0 THEN -scount'[r] ELSE 0
  <2>1. ~Deleting(r)
    BY <1>4, <1>5
  <2>2. CASE r = s
    BY <1>1, <2>1, <2>2
  <2>3. CASE r # s
    <3>1. sq'[r] = sq[r] /\ scount'[r] = scount[r]
      BY <1>1, <2>3
    <3> QED BY <1>2, <1>5, <2>1, <2>3, <3>1 DEF DeficitMatchesNeeds
  <2> QED BY <2>2, <2>3
<1>6. NeedInv'
  BY <1>3 DEF NeedInv
<1> QED BY <1>5, <1>6 DEF DeficitMatchesNeeds

(* Nothing that counts changes.                                            *)
LEMMA DeficitSame ==
    ASSUME NeedInv, DeficitMatchesNeeds,
           sq' = sq, scount' = scount, need' = need, sid' = sid,
           \A d \in Cpus : cpc[d] = "del" => cpc'[d] = "del" /\ lslot'[d] = lslot[d]
    PROVE  NeedInv' /\ DeficitMatchesNeeds'
BY DEF NeedInv, DeficitMatchesNeeds, Deleting

(* The first waiter of a slot, and what the others lack without it.        *)
LEMMA FirstLeaves ==
    ASSUME TypeOK, OneList, NeedInv, NEW s \in Slots, sq[s] # <<>>
    PROVE  LET t == Head(sq[s])
               q == Tail(sq[s])
           IN  /\ t \in Threads /\ t \in Elems(sq[s]) /\ need[t] \in Nat \ {0}
               /\ Elems(q) = Elems(sq[s]) \ {t} /\ Elems(q) \subseteq Threads
               /\ \A x \in Elems(q) : need[x] \in Nat \ {0}
               /\ IsFiniteSet(Lacked(need, Elems(q)))
               /\ Cardinality(Lacked(need, Elems(q))) \in Nat
               /\ Cardinality(Lacked(need, Elems(sq[s]))) =
                     Cardinality(Lacked(need, Elems(q))) + need[t]
<1>1. sq[s] \in Seq(Threads) /\ NoRepeats(sq[s])
  BY DEF TypeOK, OneList
<1>2. PICK t \in Threads : t = Head(sq[s]) /\ t \in Elems(sq[s])
  BY <1>1, ElemsFacts
<1>3. Elems(Tail(sq[s])) = Elems(sq[s]) \ {t} /\ Elems(sq[s]) \subseteq Threads
  BY <1>1, <1>2, TailFacts, ElemsFacts
<1>4. /\ need[t] \in Nat \ {0} /\ IsFiniteSet(Lacked(need, Elems(sq[s])))
      /\ \A x \in Elems(sq[s]) : need[x] \in Nat \ {0}
  BY <1>2 DEF NeedInv
<1>5. /\ IsFiniteSet(Lacked(need, Elems(sq[s]) \ {t}))
      /\ Cardinality(Lacked(need, Elems(sq[s]) \ {t})) \in Nat
      /\ Cardinality(Lacked(need, Elems(sq[s]))) =
            Cardinality(Lacked(need, Elems(sq[s]) \ {t})) + need[t]
  BY <1>2, <1>4, LackedLeave
<1> QED BY <1>2, <1>3, <1>4, <1>5
(* Every step keeps the count of a semaphore equal to its balance of units *)
(* when nobody leaves a queue before it is served: release_sem_etc takes   *)
(* from the deficit what it takes from the need of the first waiter.       *)
LEMMA DeficitStep ==
    ASSUME InitCounts \subseteq Nat, SemInductive, Undisturbed, NeedInv, DeficitMatchesNeeds, Next
    PROVE  NeedInv' /\ DeficitMatchesNeeds'
<1>0. /\ TypeOK /\ OneList /\ WaitsForLiveSem /\ LockInv /\ RunningInv
      /\ fault = "none"
  BY DEF SemInductive, ListInv, Next
<1> USE <1>0
<1> PICK c \in Cpus :
       \/ Switch(c) \/ Quiet(c) \/ Leave(c)
       \/ \E i \in Slots, n \in InitCounts : create_sem_etc(c, i, n)
       \/ \E s \in Slots, n \in AcquireCounts :
             AcquireTake(c, s, n) \/ \E f \in FlagSets : AcquireBlock(c, s, n, f)
       \/ DeleteWaiter(c) \/ DeleteEntry(c)
       \/ ReleaseAdd(c) \/ ReleaseWaiter(c) \/ ReleasePart(c)
       \/ RemoveWakeFirst(c) \/ RemovePart(c)
       \/ AcquireReturn(c) \/ AcquireKilledLate(c)
  BY StepKinds
<1>1. ASSUME Switch(c)
      PROVE  NeedInv' /\ DeficitMatchesNeeds'
  <2>1. sq' = sq /\ scount' = scount /\ need' = need /\ sid' = sid /\ lslot' = lslot
    BY <1>1 DEF Switch, Preempt, DeleteWake, AcquireResched, ReleaseWake, TimeoutWake,
                AcquireKilledWake, semVars
  <2>2. cpc[c] # "del" /\ \E r : Resched(c, r)
    BY <1>1 DEF Switch, Preempt, DeleteWake, AcquireResched, ReleaseWake, TimeoutWake,
                AcquireKilledWake
  <2>3. \A d \in Cpus : cpc[d] = "del" => cpc'[d] = "del"
    BY <2>2 DEF Resched, TypeOK
  <2> QED BY <2>1, <2>3, DeficitSame
<1>2. ASSUME Quiet(c)
      PROVE  NeedInv' /\ DeficitMatchesNeeds'
  <2>1. sq' = sq /\ scount' = scount /\ sid' = sid
    BY <1>2, QuietFacts
  <2>2. need' = need
    BY <1>2 DEF Quiet, AcquireSeesKill, AcquireNull, ReleaseUnlock, ReleaseWakeOnly, RemoveUnlock,
                TimeoutLate, TimeoutPanic, KillPanic, KillWake, ReleaseNobody, KillPending,
                KillWaiting, TimerInterrupt, DeleteEnter, ReleaseEnter, threadVars
  <2>3. cpc[c] = "del" => cpc' = cpc /\ lslot' = lslot
    BY <1>2 DEF Quiet, AcquireSeesKill, AcquireNull, ReleaseUnlock, ReleaseWakeOnly, RemoveUnlock,
                TimeoutLate, TimeoutPanic, KillPanic, KillWake, ReleaseNobody, KillPending,
                KillWaiting, TimerInterrupt, DeleteEnter, ReleaseEnter, cpuVars
  <2>4. \A d \in Cpus : d # c => cpc'[d] = cpc[d] /\ lslot'[d] = lslot[d]
    <3>1. CASE \/ AcquireNull(c) \/ TimeoutPanic(c) \/ KillPanic(c) \/ ReleaseNobody(c)
               \/ \E t \in Threads : KillPending(c, t)
      BY <3>1 DEF AcquireNull, TimeoutPanic, KillPanic, ReleaseNobody, KillPending, cpuVars
    <3>2. CASE \/ ReleaseUnlock(c) \/ ReleaseWakeOnly(c) \/ TimeoutLate(c) \/ KillWake(c)
      <4>1. lslot' = lslot /\ \E p : cpc' = [cpc EXCEPT ![c] = p]
        BY <3>2 DEF ReleaseUnlock, ReleaseWakeOnly, TimeoutLate, KillWake
      <4> QED BY <4>1 DEF TypeOK
    <3>3. CASE RemoveUnlock(c)
      BY <3>3 DEF RemoveUnlock, TypeOK
    <3>4. CASE \/ AcquireSeesKill(c)
               \/ \E t \in Threads : KillWaiting(c, t) \/ TimerInterrupt(c, t)
      <4>1. /\ \E p : cpc' = [cpc EXCEPT ![c] = p]
            /\ \E r : lslot' = [lslot EXCEPT ![c] = r]
        BY <3>4 DEF AcquireSeesKill, KillWaiting, TimerInterrupt
      <4> QED BY <4>1 DEF TypeOK
    <3>5. CASE \E s \in Slots : DeleteEnter(c, s) \/ \E n \in ReleaseCounts : ReleaseEnter(c, s, n)
      <4>1. /\ \E p : cpc' = [cpc EXCEPT ![c] = p]
            /\ \E r : lslot' = [lslot EXCEPT ![c] = r]
        BY <3>5 DEF DeleteEnter, ReleaseEnter
      <4> QED BY <4>1 DEF TypeOK
    <3> QED BY <1>2, <3>1, <3>2, <3>3, <3>4, <3>5 DEF Quiet
  <2> QED BY <2>1, <2>2, <2>3, <2>4, DeficitSame
<1>3. ~(Leave(c) \/ RemoveWakeFirst(c) \/ RemovePart(c) \/ AcquireKilledLate(c))
  BY DEF Leave, TimeoutRemove, KillRemove, AcquireKilled, RemoveWakeFirst, RemovePart, WakeLoop,
         AcquireKilledLate, Undisturbed, LeavePoints
<1>4. ASSUME AcquireReturn(c)
      PROVE  NeedInv' /\ DeficitMatchesNeeds'
  <2>1. sq' = sq /\ scount' = scount /\ need' = need /\ sid' = sid
    BY <1>4 DEF AcquireReturn, semVars
  <2>2. \A d \in Cpus : cpc[d] = "del" => cpc'[d] = "del" /\ lslot'[d] = lslot[d]
    BY <1>4 DEF AcquireReturn, TypeOK
  <2> QED BY <2>1, <2>2, DeficitSame
<1>5. ASSUME NEW i \in Slots, NEW n \in InitCounts, create_sem_etc(c, i, n)
      PROVE  NeedInv' /\ DeficitMatchesNeeds'
  <2>1. /\ sq'[i] = <<>> /\ scount'[i] = n /\ n \in Nat
        /\ \A r \in Slots : r # i => /\ sq'[r] = sq[r] /\ scount'[r] = scount[r]
                                     /\ sid'[r] = sid[r]
        /\ need' = need /\ cpc' = cpc /\ lslot' = lslot
    BY <1>5, SemAssumption DEF create_sem_etc, threadVars, cpuVars, TypeOK
  <2>2. Elems(<<>>) = {} /\ Lacked(need, {}) = {} /\ IsFiniteSet({}) /\ Cardinality({}) = 0
    BY FS_EmptySet DEF Elems, Lacked
  <2>3. /\ \A t \in Elems(sq'[i]) : need'[t] \in Nat \ {0}
        /\ IsFiniteSet(Lacked(need', Elems(sq'[i])))
        /\ Cardinality(Lacked(need', Elems(sq'[i]))) = 0
    BY <2>1, <2>2
  <2>4. NeedInv'
    <3>1. ASSUME NEW r \in Slots
          PROVE  /\ \A t \in Elems(sq'[r]) : need'[t] \in Nat \ {0}
                 /\ IsFiniteSet(Lacked(need', Elems(sq'[r])))
      BY <2>1, <2>3 DEF NeedInv
    <3> QED BY <3>1 DEF NeedInv
  <2>5. DeficitMatchesNeeds'
    <3>1. ASSUME NEW r \in Slots, ~Deleting(r)', sid'[r] # -1
          PROVE  Cardinality(Lacked(need', Elems(sq'[r]))) =
                    IF scount'[r] < 0 THEN -scount'[r] ELSE 0
      <4>1. CASE r = i
        BY <2>1, <2>3, <4>1
      <4>2. CASE r # i
        BY <2>1, <3>1, <4>2 DEF DeficitMatchesNeeds, Deleting
      <4> QED BY <4>1, <4>2
    <3> QED BY <3>1 DEF DeficitMatchesNeeds
  <2> QED BY <2>4, <2>5
<1>6. ASSUME NEW s \in Slots, NEW n \in AcquireCounts, AcquireTake(c, s, n)
      PROVE  NeedInv' /\ DeficitMatchesNeeds'
  <2>1. /\ scount[s] \in Int /\ n \in Nat \ {0} /\ scount[s] >= n
    BY <1>6, SemAssumption DEF AcquireTake, TypeOK
  <2>2. /\ sq' = sq /\ need' = need /\ sid' = sid /\ cpc' = cpc /\ lslot' = lslot
        /\ scount'[s] = scount[s] - n
        /\ \A r \in Slots : r # s => scount'[r] = scount[r]
    BY <1>6 DEF AcquireTake, cpuVars, threadVars, TypeOK
  <2>3. ~(scount[s] < 0) /\ ~(scount'[s] < 0)
    BY <2>1, <2>2
  <2>4. NeedInv'
    BY <2>2 DEF NeedInv
  <2>5. DeficitMatchesNeeds'
    BY <2>2, <2>3 DEF DeficitMatchesNeeds, Deleting
  <2> QED BY <2>4, <2>5
<1>7. ASSUME NEW s \in Slots, NEW n \in AcquireCounts, NEW f \in FlagSets, AcquireBlock(c, s, n, f)
      PROVE  NeedInv' /\ DeficitMatchesNeeds'
  <2>1. PICK t \in Threads : t = cur[c]
    BY <1>7 DEF AcquireBlock, TypeOK
  <2>2. PICK k, j \in Int : k = scount[s] - n /\ j = scount[s]
    BY SemAssumption DEF TypeOK
  <2>3. n \in Nat \ {0} /\ k = j - n /\ k < 0 /\ ~Deleting(s) /\ sid[s] # -1
    BY <1>7, <2>2, LockedOut, SemAssumption DEF AcquireBlock
  <2>4. /\ need'[t] = Need(s, n) /\ \A x \in Threads : x # t => need'[x] = need[x]
        /\ sq' = [sq EXCEPT ![s] = Append(sq[s], t)] /\ scount' = [scount EXCEPT ![s] = k]
        /\ sid' = sid
        /\ \A d \in Cpus : cpc[d] = "del" => cpc'[d] = "del" /\ lslot'[d] = lslot[d]
    BY <1>7, <2>1, <2>2 DEF AcquireBlock, TypeOK
  <2>5. \A r \in Slots : t \notin Elems(sq[r])
    <3>1. ~OnList(t)
      BY <1>7, <2>1 DEF AcquireBlock, RunningInv, AcquirePoints
    <3> QED BY <3>1 DEF OnList, Queued
  <2>6. sq[s] \in Seq(Threads) /\ Elems(sq[s]) \subseteq Threads
    BY ElemsFacts DEF TypeOK
  <2>7. Elems(Append(sq[s], t)) = Elems(sq[s]) \cup {t}
    BY <2>5, <2>6, AppendFacts
  <2>8. PICK m \in Nat \ {0} : m = Need(s, n) /\ m = IF j < 0 THEN n ELSE n - j
    <3>1. Need(s, n) = IF n - j <= n THEN n - j ELSE n
      BY <2>2 DEF Need, MinOf
    <3>2. Need(s, n) = IF j < 0 THEN n ELSE n - j
      BY <2>2, <2>3, <3>1
    <3> QED BY <2>2, <2>3, <3>2
  <2>9. PICK L : L = Lacked(need', Elems(sq[s]))
    OBVIOUS
  <2>10. IsFiniteSet(L) /\ Cardinality(L) = IF j < 0 THEN -j ELSE 0
    <3>1. Lacked(need', Elems(sq[s])) = Lacked(need, Elems(sq[s]))
      BY <2>4, <2>5, <2>6, LackedSame
    <3> QED BY <2>2, <2>3, <2>9, <3>1 DEF NeedInv, DeficitMatchesNeeds
  <2>11. PICK g : g = need'
    OBVIOUS
  <2>12. /\ IsFiniteSet(Lacked(g, Elems(sq[s]) \cup {t}))
         /\ Cardinality(Lacked(g, Elems(sq[s]) \cup {t})) = Cardinality(L) + m
    <3>1. g[t] = m /\ t \notin Elems(sq[s]) /\ IsFiniteSet(Lacked(g, Elems(sq[s])))
      BY <2>4, <2>5, <2>8, <2>9, <2>10, <2>11
    <3> QED BY <2>9, <2>11, <3>1, LackedJoin
  <2>13. Cardinality(L) + m = -k
    BY <2>2, <2>3, <2>8, <2>10
  <2>14. PICK q : q = Append(sq[s], t)
    OBVIOUS
  <2>15. /\ IsFiniteSet(Lacked(need', Elems(q)))
         /\ Cardinality(Lacked(need', Elems(q))) = IF k < 0 THEN -k ELSE 0
    BY <2>3, <2>7, <2>11, <2>12, <2>13, <2>14
  <2>16. \A x \in Elems(q) : need'[x] \in Nat \ {0}
    <3>1. \A x \in Elems(sq[s]) : x # t /\ need[x] \in Nat \ {0}
      BY <2>5 DEF NeedInv
    <3> QED BY <2>4, <2>6, <2>7, <2>8, <2>14, <3>1
  <2>17. sq' = [sq EXCEPT ![s] = q]
    BY <2>4, <2>14
  <2> QED BY <2>4, <2>5, <2>15, <2>16, <2>17, DeficitSlot
<1>8. ASSUME DeleteWaiter(c)
      PROVE  NeedInv' /\ DeficitMatchesNeeds'
  <2>1. PICK s \in Slots : s = lslot[c]
    BY DEF TypeOK
  <2>2. sq[s] # <<>> /\ Deleting(s)
    BY <1>8, <2>1 DEF DeleteWaiter, Deleting
  <2>3. PICK t, q : t = Head(sq[s]) /\ q = Tail(sq[s])
    OBVIOUS
  <2>4. /\ t \in Threads /\ t \in Elems(sq[s]) /\ t \notin Elems(q) /\ Elems(q) \subseteq Threads
        /\ \A x \in Elems(q) : need[x] \in Nat \ {0}
        /\ IsFiniteSet(Lacked(need, Elems(q)))
    BY <2>2, <2>3, FirstLeaves
  <2>5. /\ sq' = [sq EXCEPT ![s] = q] /\ sid' = sid
        /\ scount' = [scount EXCEPT ![s] = scount[s]] /\ scount[s] \in Int
        /\ \A x \in Threads : x # t => need'[x] = need[x]
        /\ \A d \in Cpus : cpc[d] = "del" => cpc'[d] = "del" /\ lslot'[d] = lslot[d]
    BY <1>8, <2>1, <2>3 DEF DeleteWaiter, TypeOK
  <2>6. /\ \A x \in Elems(q) : need'[x] = need[x] /\ need'[x] \in Nat \ {0}
        /\ Lacked(need', Elems(q)) = Lacked(need, Elems(q))
    <3>1. \A x \in Elems(q) : need'[x] = need[x] /\ need'[x] \in Nat \ {0}
      BY <2>4, <2>5
    <3> QED BY <3>1, LackedSame
  <2> QED BY <2>2, <2>4, <2>5, <2>6, DeficitSlot
<1>9. ASSUME DeleteEntry(c)
      PROVE  NeedInv' /\ DeficitMatchesNeeds'
  <2>1. /\ sq' = sq /\ scount' = scount /\ need' = need
        /\ lslot[c] \in Slots /\ lslot' = lslot
        /\ sid'[lslot[c]] = -1
        /\ \A r \in Slots : r # lslot[c] => sid'[r] = sid[r]
        /\ \A d \in Cpus : d # c => cpc'[d] = cpc[d]
    BY <1>9 DEF DeleteEntry, threadVars, TypeOK
  <2>2. NeedInv'
    BY <2>1 DEF NeedInv
  <2>3. DeficitMatchesNeeds'
    BY <2>1 DEF DeficitMatchesNeeds, Deleting
  <2> QED BY <2>2, <2>3
<1>10. ASSUME ReleaseAdd(c)
       PROVE  NeedInv' /\ DeficitMatchesNeeds'
  <2>1. PICK s \in Slots : s = lslot[c]
    BY DEF TypeOK
  <2>2. /\ sq' = sq /\ need' = need /\ sid' = sid /\ cpc' = cpc /\ lslot' = lslot
        /\ scount'[s] = scount[s] + ln[c] /\ scount[s] \in Int /\ ln[c] \in Int
        /\ ln[c] > 0 /\ scount[s] >= 0
        /\ \A r \in Slots : r # s => scount'[r] = scount[r]
    BY <1>10, <2>1 DEF ReleaseAdd, threadVars, TypeOK
  <2>3. ~(scount[s] < 0) /\ ~(scount'[s] < 0)
    BY <2>2
  <2>4. NeedInv'
    BY <2>2 DEF NeedInv
  <2>5. DeficitMatchesNeeds'
    BY <2>2, <2>3 DEF DeficitMatchesNeeds, Deleting
  <2> QED BY <2>4, <2>5
<1>11. ASSUME ReleaseWaiter(c)
       PROVE  NeedInv' /\ DeficitMatchesNeeds'
  <2>1. PICK s \in Slots : s = lslot[c]
    BY DEF TypeOK
  <2>2. sq[s] # <<>> /\ cpc[c] \in HoldPoints \ {"del"} /\ scount[s] < 0
    BY <1>11, <2>1 DEF ReleaseWaiter, HoldPoints
  <2>3. PICK t, q : t = Head(sq[s]) /\ q = Tail(sq[s])
    OBVIOUS
  <2>4. /\ t \in Threads /\ t \in Elems(sq[s]) /\ t \notin Elems(q) /\ Elems(q) \subseteq Threads
        /\ \A x \in Elems(q) : need[x] \in Nat \ {0}
        /\ need[t] \in Nat
        /\ IsFiniteSet(Lacked(need, Elems(q)))
        /\ Cardinality(Lacked(need, Elems(q))) \in Nat
        /\ Cardinality(Lacked(need, Elems(sq[s]))) =
              Cardinality(Lacked(need, Elems(q))) + need[t]
    BY <2>2, <2>3, FirstLeaves
  <2>5. PICK k \in Int : k = scount[s] + need[t]
    BY <2>4 DEF TypeOK
  <2>6. /\ sq' = [sq EXCEPT ![s] = q] /\ sid' = sid /\ scount' = [scount EXCEPT ![s] = k]
        /\ \A x \in Threads : x # t => need'[x] = need[x]
        /\ \A d \in Cpus : cpc[d] = "del" => cpc'[d] = "del" /\ lslot'[d] = lslot[d]
    BY <1>11, <2>1, <2>3, <2>5 DEF ReleaseWaiter, TypeOK
  <2>7. /\ \A x \in Elems(q) : need'[x] = need[x] /\ need'[x] \in Nat \ {0}
        /\ Lacked(need', Elems(q)) = Lacked(need, Elems(q))
    <3>1. \A x \in Elems(q) : need'[x] = need[x] /\ need'[x] \in Nat \ {0}
      BY <2>4, <2>6
    <3> QED BY <3>1, LackedSame
  <2>8. ~Deleting(s) /\ sid[s] # -1
    <3>1. ~Deleting(s)
      BY <2>1, <2>2, LockedOut
    <3> QED BY <2>4, <3>1 DEF WaitsForLiveSem
  <2>9. Cardinality(Lacked(need, Elems(sq[s]))) = -scount[s] /\ scount[s] \in Int
    BY <2>2, <2>8 DEF DeficitMatchesNeeds, TypeOK
  <2>10. Cardinality(Lacked(need', Elems(q))) = IF k < 0 THEN -k ELSE 0
    BY <2>4, <2>5, <2>7, <2>9
  <2>11. IsFiniteSet(Lacked(need', Elems(q)))
    BY <2>4, <2>7
  <2> QED BY <2>4, <2>6, <2>7, <2>10, <2>11, DeficitSlot
<1>12. ASSUME ReleasePart(c)
       PROVE  NeedInv' /\ DeficitMatchesNeeds'
  <2>1. PICK s \in Slots : s = lslot[c]
    BY DEF TypeOK
  <2>2. sq[s] # <<>> /\ cpc[c] \in HoldPoints \ {"del"} /\ scount[s] < 0
    BY <1>12, <2>1 DEF ReleasePart, HoldPoints
  <2>3. PICK t, q : t = Head(sq[s]) /\ q = Tail(sq[s])
    OBVIOUS
  <2>4. /\ t \in Threads /\ t \in Elems(sq[s]) /\ Elems(q) = Elems(sq[s]) \ {t}
        /\ Elems(q) \subseteq Threads
        /\ \A x \in Elems(q) : need[x] \in Nat \ {0}
        /\ need[t] \in Nat
        /\ IsFiniteSet(Lacked(need, Elems(q)))
        /\ Cardinality(Lacked(need, Elems(q))) \in Nat
        /\ Cardinality(Lacked(need, Elems(sq[s]))) =
              Cardinality(Lacked(need, Elems(q))) + need[t]
    BY <2>2, <2>3, FirstLeaves
  <2>5. PICK n, j, k \in Int : n = ln[c] /\ j = scount[s] /\ k = scount[s] + ln[c]
    BY DEF TypeOK
  <2>6. /\ n > 0 /\ need[t] > n /\ need'[t] = need[t] - n
        /\ sq' = [sq EXCEPT ![s] = sq[s]] /\ sid' = sid /\ scount' = [scount EXCEPT ![s] = k]
        /\ \A x \in Threads : x # t => need'[x] = need[x]
        /\ \A d \in Cpus : cpc[d] = "del" => cpc'[d] = "del" /\ lslot'[d] = lslot[d]
    BY <1>12, <2>1, <2>3, <2>4, <2>5 DEF ReleasePart, TypeOK
  <2>7. PICK g : g = need'
    OBVIOUS
  <2>8. /\ \A x \in Elems(q) : g[x] = need[x]
        /\ Lacked(g, Elems(q)) = Lacked(need, Elems(q))
    <3>1. \A x \in Elems(q) : g[x] = need[x]
      BY <2>4, <2>6, <2>7
    <3> QED BY <3>1, LackedSame
  <2>9. g[t] \in Nat \ {0} /\ g[t] = need[t] - n
    BY <2>4, <2>5, <2>6, <2>7
  <2>10. /\ IsFiniteSet(Lacked(g, Elems(q) \cup {t}))
         /\ Cardinality(Lacked(g, Elems(q) \cup {t})) = Cardinality(Lacked(g, Elems(q))) + g[t]
    BY <2>4, <2>8, <2>9, LackedJoin
  <2>11. Elems(q) \cup {t} = Elems(sq[s])
    BY <2>4
  <2>12. ~Deleting(s) /\ sid[s] # -1
    <3>1. ~Deleting(s)
      BY <2>1, <2>2, LockedOut
    <3> QED BY <2>4, <3>1 DEF WaitsForLiveSem
  <2>13. Cardinality(Lacked(need, Elems(sq[s]))) = -j
    BY <2>2, <2>5, <2>12 DEF DeficitMatchesNeeds
  <2>14. /\ Cardinality(Lacked(need', Elems(sq[s]))) = IF k < 0 THEN -k ELSE 0
         /\ IsFiniteSet(Lacked(need', Elems(sq[s])))
    <3>1. PICK m, p \in Nat : m = Cardinality(Lacked(need, Elems(q))) /\ p = need[t]
      BY <2>4
    <3>2. m + p = -j /\ p > n /\ n > 0 /\ k = j + n
      BY <2>4, <2>5, <2>6, <2>13, <3>1
    <3>3. Cardinality(Lacked(g, Elems(sq[s]))) = m + (p - n)
      BY <2>8, <2>9, <2>10, <2>11, <3>1
    <3>4. k < 0 /\ m + (p - n) = -k
      BY <3>2
    <3> QED BY <2>7, <2>10, <2>11, <3>3, <3>4
  <2>15. \A x \in Elems(sq[s]) : need'[x] \in Nat \ {0}
    BY <2>4, <2>7, <2>8, <2>9
  <2> QED BY <2>4, <2>6, <2>14, <2>15, DeficitSlot
<1> QED BY <1>1, <1>2, <1>3, <1>4, <1>5, <1>6, <1>7, <1>8, <1>9, <1>10, <1>11, <1>12

(* Without timeouts and kills the count and the waiters agree, whatever    *)
(* the numbers of units that threads acquire and release.                  *)
LEMMA DeficitInvariant ==
    ASSUME FlagSets \subseteq {{}}, InitCounts \subseteq Nat
    PROVE  Spec => [](SemInductive /\ Undisturbed /\ NeedInv /\ DeficitMatchesNeeds)
<1> DEFINE Inv == SemInductive /\ Undisturbed /\ NeedInv /\ DeficitMatchesNeeds
<1>1. Init => Inv
  <2> SUFFICES ASSUME Init PROVE Inv
    OBVIOUS
  <2>1. Undisturbed
    BY DEF Init, Undisturbed, LeavePoints
  <2>2. \A s \in Slots : sq[s] = <<>> /\ sid[s] = -1
    BY DEF Init
  <2>3. Elems(<<>>) = {} /\ Lacked(need, {}) = {} /\ IsFiniteSet({})
    BY FS_EmptySet DEF Elems, Lacked
  <2>4. NeedInv /\ DeficitMatchesNeeds
    BY <2>2, <2>3 DEF NeedInv, DeficitMatchesNeeds
  <2> QED BY <2>1, <2>4, InitInductive
<1>2. Inv /\ [Next]_vars => Inv'
  <2>1. ASSUME Inv, Next PROVE Inv'
    <3>1. TypeOK /\ LocalsInv
      BY <2>1 DEF SemInductive
    <3>2. SemInductive'
      BY <2>1, StepInductive
    <3>3. Undisturbed'
      BY <2>1, <3>1, UndisturbedStep
    <3>4. NeedInv' /\ DeficitMatchesNeeds'
      BY <2>1, DeficitStep
    <3> QED BY <3>2, <3>3, <3>4
  <2>2. ASSUME Inv, UNCHANGED vars PROVE Inv'
    <3>1. SemInductive'
      BY <2>2, StepInductive
    <3>2. Undisturbed'
      BY <2>2 DEF vars, Undisturbed
    <3>3. NeedInv' /\ DeficitMatchesNeeds'
      BY <2>2, DeficitSame DEF vars
    <3> QED BY <3>1, <3>2, <3>3
  <2> QED BY <2>1, <2>2
<1> QED BY <1>1, <1>2, PTL DEF Spec

(* The count of a semaphore with a deficit is what its waiters still lack  *)
(* together, however many units release_sem_etc shares among them.         *)
THEOREM SemDeficitMatchesNeeds ==
    ASSUME FlagSets \subseteq {{}}, InitCounts \subseteq Nat
    PROVE  Spec => []DeficitMatchesNeeds
<1>1. Spec => [](SemInductive /\ Undisturbed /\ NeedInv /\ DeficitMatchesNeeds)
  BY DeficitInvariant
<1> QED BY <1>1, PTL

(* Nobody is left waiting for a semaphore without a deficit, as happens to *)
(* waiters for several units when one of them times out.                   *)
THEOREM SemNobodyStranded ==
    ASSUME FlagSets \subseteq {{}}, InitCounts \subseteq Nat
    PROVE  Spec => []NobodyStranded
<1>1. Spec => [](SemInductive /\ Undisturbed /\ NeedInv /\ DeficitMatchesNeeds)
  BY DeficitInvariant
<1>2. SemInductive /\ Undisturbed /\ NeedInv /\ DeficitMatchesNeeds => NobodyStranded
  <2> SUFFICES ASSUME SemInductive, NeedInv, DeficitMatchesNeeds, NEW s \in Slots,
                      sid[s] # -1, slock[s] = NoCpu, scount[s] >= 0
               PROVE  sq[s] = <<>>
    BY DEF NobodyStranded
  <2>1. TypeOK /\ LockInv /\ scount[s] \in Int /\ sq[s] \in Seq(Threads)
    BY DEF SemInductive, TypeOK
  <2>2. ~Deleting(s)
    BY <2>1, SemAssumption DEF Deleting, LockInv, HoldPoints
  <2>3. Cardinality(Lacked(need, Elems(sq[s]))) = 0 /\ IsFiniteSet(Lacked(need, Elems(sq[s])))
    BY <2>1, <2>2 DEF DeficitMatchesNeeds, NeedInv
  <2>4. Lacked(need, Elems(sq[s])) = {}
    BY <2>3, FS_EmptySet
  <2>5. ASSUME NEW t \in Elems(sq[s]) PROVE FALSE
    <3>1. need[t] \in Nat \ {0}
      BY DEF NeedInv
    <3>2. <<t, 1>> \in Lacked(need, Elems(sq[s]))
      BY <3>1 DEF Lacked
    <3> QED BY <2>4, <3>2
  <2> QED BY <2>1, <2>5, ElemsFacts
<1> QED BY <1>1, <1>2, PTL
=============================================================================
