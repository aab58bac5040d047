----------------------------- MODULE PortProofs -----------------------------
(***************************************************************************)
(* The ports of port.c, for any number of threads, slots and messages: the *)
(* table and the rings stay together through deletions on one CPU, and     *)
(* without deletions a port is a bounded FIFO of messages.                 *)
(***************************************************************************)
EXTENDS Port, ListLemmas, FiniteSetTheorems

-----------------------------------------------------------------------------
(* With deletions, on one CPU.                                             *)

WaitPoints == {"rwait", "wwait", "bwait"}

(* A thread is in one queue, once, and waits there.                        *)
WaitInv ==
    /\ \A x \in Sems : Distinct(waitq[x])
    /\ \A x, y \in Sems, t \in Threads :
          Contains(waitq[x], t) /\ Contains(waitq[y], t) => x = y
    /\ \A x \in Sems, t \in Threads : Contains(waitq[x], t) => pc[t] \in WaitPoints

(* A port is in the slot its id leads to, with the ring made for it, which *)
(* nobody has freed; ids are not given out again.                          *)
TableInv ==
    /\ \A s \in Slots : pid[s] # -1 =>
          /\ gen[s] = pid[s] /\ SlotOf(pid[s]) = s
          /\ capacity[s] \in Capacities
          /\ pid[s] < next_port /\ pid[s] \notin freed
    /\ \A p \in freed : p < next_port
    /\ \A t \in Threads : pc[t] # "run" => capacity[SlotOf(tid[t])] \in Capacities

(* What a deletion works on is in no slot.                                 *)
DeleteInv ==
    /\ \A t \in Threads : pc[t] = "dtake" =>
          /\ gen[SlotOf(tid[t])] = tid[t] /\ tid[t] < next_port
          /\ \A s \in Slots : pid[s] # tid[t]
    /\ \A t \in Threads : pc[t] = "dfree" =>
          /\ tgen[t] < next_port
          /\ \A s \in Slots : pid[s] # tgen[t]

TableInductive == PortTypeOK /\ WaitInv /\ TableInv /\ DeleteInv

-----------------------------------------------------------------------------
(* Without deletions.                                                      *)

(* The table only grows, and nobody is inside a deletion.                  *)
KeepTable ==
    /\ fault = "none" /\ freed = {}
    /\ \A s \in Slots : plock[s] = NoThread
    /\ \A t \in Threads : pc[t] \notin {"dtake", "dfree", "dread", "dwrite"}
    /\ \A s \in Slots : pid[s] # -1 =>
          /\ live[<<"read", pid[s]>>] /\ live[<<"write", pid[s]>>]
    /\ \A p \in Ids : p >= next_port =>
          /\ units[<<"read", p>>] = 0 /\ sent[p] = <<>> /\ got[p] = <<>>
    /\ DOMAIN ring = Ids /\ DOMAIN tmsg = Threads

(* A call works on the port it was given, and waits for its semaphores.    *)
CallInv ==
    /\ \A t \in Threads : pc[t] # "run" => pid[SlotOf(tid[t])] = tid[t]
    /\ \A t \in Threads :
          pc[t] \notin {"run", "bacq", "bwait", "bpeek"} => tgen[t] = tid[t]
    /\ \A x \in Sems, t \in Threads : Contains(waitq[x], t) =>
          x[2] = tid[t] /\ (x[1] = "write" <=> pc[t] = "wwait")

(* The place of a ring i places behind place k.                            *)
Place(k, i, cap) == IF k + i < cap THEN k + i ELSE k + i - cap

Pending(p) == Len(sent[p]) - Len(got[p])

(* The ring holds, from tail on, the messages sent and not yet read.       *)
RingInv ==
    \A s \in Slots : pid[s] # -1 =>
       LET p == pid[s]  cap == capacity[s]
       IN  /\ DOMAIN ring[p] = 0 .. cap - 1
           /\ head[s] \in 0 .. cap - 1 /\ tail[s] \in 0 .. cap - 1
           /\ Pending(p) >= 0 /\ head[s] = Place(tail[s], Pending(p), cap)
           /\ \A i \in 0 .. Pending(p) - 1 :
                 LET m == sent[p][Len(got[p]) + i + 1]
                 IN  ring[p][Place(tail[s], i, cap)] = [code |-> m, buf |-> Buf(m)]

(* What was read is what was sent, as far as it was read.                  *)
OrderInv ==
    /\ sent \in [Ids -> Seq(Messages)] /\ got \in [Ids -> Seq(Messages)]
    /\ \A p \in Ids : /\ Len(got[p]) <= Len(sent[p])
                      /\ \A i \in 1 .. Len(got[p]) : got[p][i] = sent[p][i]

(* Every message is sent once, its cbuf is freed once, after it was read,  *)
(* and until then one thread or the ring has it.                           *)
Writers == {t \in Threads : pc[t] \in {"wacq", "wwait", "wfill"}}
Readers == {t \in Threads : pc[t] = "rrel"}
MsgInv ==
    /\ \A p \in Ids : \A i \in 1 .. Len(sent[p]) : sent[p][i] <= nmsg
    /\ \A p, q \in Ids : \A i \in 1 .. Len(sent[p]), j \in 1 .. Len(sent[q]) :
          sent[p][i] = sent[q][j] => p = q /\ i = j
    /\ \A t \in Writers : /\ tmsg[t] \in 1 .. nmsg
                          /\ \A p \in Ids : \A i \in 1 .. Len(sent[p]) : sent[p][i] # tmsg[t]
                          /\ \A u \in Writers : tmsg[u] = tmsg[t] => u = t
    /\ \A m \in freedBufs : \E p \in Ids : \E i \in 1 .. Len(got[p]) : sent[p][i] = m
    /\ \A t \in Readers : tmsg[t] # Null =>
          /\ tmsg[t] \notin freedBufs
          /\ \E p \in Ids : \E i \in 1 .. Len(got[p]) : sent[p][i] = tmsg[t]
          /\ \A u \in Readers : tmsg[u] = tmsg[t] => u = t

KeepInductive ==
    /\ PortTypeOK /\ WaitInv /\ TableInv
    /\ KeepTable /\ CallInv /\ OrderInv /\ RingInv /\ UnitsBacked /\ MsgInv

-----------------------------------------------------------------------------
(* Arithmetic of ids and rings.                                            *)

(* Division with remainder.                                                *)
LEMMA DivMod ==
    ASSUME NEW x \in Int, NEW n \in Nat \ {0}
    PROVE  \E d \in Int, m \in 0 .. n - 1 : x = n * d + m /\ m = x % n
OBVIOUS

(* What % means, for a divisor that is not a number the solver knows.      *)
LEMMA ModUnique ==
    ASSUME NEW n \in Nat \ {0}, NEW q \in Int, NEW r \in 0 .. n - 1
    PROVE  (n * q + r) % n = r
<1>1. PICK x \in Int : x = n * q + r
  OBVIOUS
<1>2. PICK d \in Int, m \in 0 .. n - 1 : x = n * d + m /\ m = x % n
  BY DivMod
<1>3. PICK k \in Int : k = q - d
  OBVIOUS
<1>4. n * k = m - r
  BY <1>1, <1>2, <1>3
<1>5. k = 0
  <2>1. CASE k >= 1
    <3>1. n * k >= n
      BY <2>1
    <3> QED BY <1>2, <1>4, <3>1
  <2>2. CASE k <= -1
    <3>1. n * k <= -n
      BY <2>2
    <3> QED BY <1>2, <1>4, <3>1
  <2> QED BY <2>1, <2>2
<1> QED BY <1>1, <1>2, <1>4, <1>5

(* The id that create_port gives a port leads back to its slot.            *)
LEMMA NextIdFacts ==
    ASSUME next_port \in Nat, NEW i \in Slots
    PROVE  /\ NextIdFor(i) \in Nat /\ NextIdFor(i) >= next_port
           /\ SlotOf(NextIdFor(i)) = i
<1>1. MaxPorts \in Nat \ {0} /\ i \in 0 .. MaxPorts - 1
  BY PortAssumption DEF Slots
<1>2. PICK d \in Int, r \in 0 .. MaxPorts - 1 :
         next_port = MaxPorts * d + r /\ r = next_port % MaxPorts
  BY <1>1
<1>3. NextIdFor(i) = IF i >= r THEN next_port + (i - r)
                     ELSE next_port + (MaxPorts - (r - i))
  BY <1>2 DEF NextIdFor
<1>4. PICK e \in Int : e = MaxPorts * d
  BY <1>1
<1>5. PICK f \in Int : f = MaxPorts * (d + 1) /\ f = e + MaxPorts
  BY <1>1, <1>4
<1>6. (e + i) % MaxPorts = i
  BY <1>1, <1>4, ModUnique
<1>7. (f + i) % MaxPorts = i
  <2>1. PICK g \in Int : g = d + 1
    OBVIOUS
  <2>2. (MaxPorts * g + i) % MaxPorts = i
    BY <1>1, ModUnique
  <2> QED BY <1>5, <2>1, <2>2
<1>8. next_port = e + r
  BY <1>2, <1>4
<1>9. CASE i >= r
  <2>1. NextIdFor(i) = e + i /\ NextIdFor(i) \in Nat /\ NextIdFor(i) >= next_port
    BY <1>1, <1>3, <1>8, <1>9
  <2> QED BY <2>1, <1>6 DEF SlotOf
<1>10. CASE i < r
  <2>1. NextIdFor(i) = f + i /\ NextIdFor(i) \in Nat /\ NextIdFor(i) >= next_port
    BY <1>1, <1>3, <1>5, <1>8, <1>10
  <2> QED BY <2>1, <1>7 DEF SlotOf
<1> QED BY <1>1, <1>2, <1>9, <1>10

(* The place behind a place.                                               *)
LEMMA AfterFacts ==
    ASSUME NEW cap \in Nat \ {0}, NEW k \in 0 .. cap - 1
    PROVE  After(k, cap) = IF k + 1 < cap THEN k + 1 ELSE 0
<1>1. CASE k + 1 < cap
  <2>1. (cap * 0 + (k + 1)) % cap = k + 1
    <3>1. PICK r \in 0 .. cap - 1 : r = k + 1
      BY <1>1
    <3> QED BY <3>1, ModUnique
  <2> QED BY <1>1, <2>1 DEF After
<1>2. CASE k + 1 = cap
  <2>1. (cap * 1 + 0) % cap = 0
    BY ModUnique
  <2> QED BY <1>2, <2>1 DEF After
<1> QED BY <1>1, <1>2

(* The slot of an id.                                                      *)
LEMMA SlotOfType ==
    ASSUME NEW p \in Ids
    PROVE  SlotOf(p) \in Slots
BY PortAssumption DEF SlotOf, Slots, Ids

-----------------------------------------------------------------------------
(* The semaphores.                                                         *)

Points == {"run", "racq", "rwait", "rtake", "rrel", "wacq", "wwait", "wfill", "wrel",
           "bacq", "bwait", "bpeek", "dtake", "dfree", "dread", "dwrite"}
QueueType == waitq \in [Sems -> Seq(Threads)] /\ pc \in [Threads -> Points]

(* A wait that was granted.                                                *)
LEMMA GrantedType ==
    ASSUME NEW p \in WaitPoints
    PROVE  Granted(p) \in {"rtake", "wfill", "bpeek"} /\ Failed(p) \in {"bpeek", "run"}
BY DEF WaitPoints, Granted, Failed

(* The queues are left alone, and so are those who wait in them.           *)
LEMMA WaitPlain ==
    ASSUME QueueType, WaitInv, waitq' = waitq,
           \A u \in Threads : pc[u] \in WaitPoints => pc'[u] = pc[u]
    PROVE  WaitInv'
<1>1. \A x \in Sems : waitq'[x] = waitq[x]
  OBVIOUS
<1> QED BY <1>1 DEF WaitInv, QueueType

(* A thread that did not wait goes to the end of a queue.                  *)
LEMMA WaitJoin ==
    ASSUME QueueType, WaitInv, NEW t \in Threads, NEW x \in Sems, NEW w \in WaitPoints,
           pc[t] \notin WaitPoints, pc' = [pc EXCEPT ![t] = w],
           waitq' = [waitq EXCEPT ![x] = Append(@, t)]
    PROVE  /\ WaitInv' /\ waitq' \in [Sems -> Seq(Threads)]
           /\ \A y \in Sems, u \in Threads :
                 Contains(waitq'[y], u) <=> Contains(waitq[y], u) \/ (y = x /\ u = t)
<1>1. waitq[x] \in Seq(Threads) /\ Distinct(waitq[x]) /\ ~Contains(waitq[x], t)
  BY DEF WaitInv, QueueType
<1>2. /\ Append(waitq[x], t) \in Seq(Threads) /\ Distinct(Append(waitq[x], t))
      /\ \A u : Contains(Append(waitq[x], t), u) <=> Contains(waitq[x], u) \/ u = t
  BY <1>1, AppendDistinct
<1>3. waitq'[x] = Append(waitq[x], t) /\ \A y \in Sems : y # x => waitq'[y] = waitq[y]
  BY DEF QueueType
<1>4. waitq' \in [Sems -> Seq(Threads)]
  BY <1>2 DEF QueueType
<1>5. \A y \in Sems, u \in Threads :
         Contains(waitq'[y], u) <=> Contains(waitq[y], u) \/ (y = x /\ u = t)
  BY <1>2, <1>3
<1>6. \A y \in Sems : Distinct(waitq'[y])
  BY <1>2, <1>3 DEF WaitInv
<1>7. pc'[t] = w /\ \A u \in Threads : u # t => pc'[u] = pc[u]
  BY DEF QueueType
<1>8. \A y \in Sems, u \in Threads : Contains(waitq'[y], u) => pc'[u] \in WaitPoints
  BY <1>5, <1>7 DEF WaitInv
<1>9. \A y, z \in Sems, u \in Threads :
         Contains(waitq'[y], u) /\ Contains(waitq'[z], u) => y = z
  BY <1>5 DEF WaitInv
<1> QED BY <1>4, <1>5, <1>6, <1>8, <1>9 DEF WaitInv

(* A thread leaves the queue it is in.                                     *)
LEMMA WaitLeave ==
    ASSUME QueueType, WaitInv, NEW h \in Threads, NEW x \in Sems, NEW q \in Seq(Threads),
           Distinct(q), Contains(waitq[x], h),
           \A u : Contains(q, u) <=> Contains(waitq[x], u) /\ u # h,
           waitq' = [waitq EXCEPT ![x] = q],
           \A u \in Threads : u # h /\ pc[u] \in WaitPoints => pc'[u] = pc[u]
    PROVE  /\ WaitInv' /\ waitq' \in [Sems -> Seq(Threads)]
           /\ \A y \in Sems, u \in Threads :
                 Contains(waitq'[y], u) <=> Contains(waitq[y], u) /\ u # h
<1>1. waitq'[x] = q /\ \A y \in Sems : y # x => waitq'[y] = waitq[y]
  BY DEF QueueType
<1>2. waitq' \in [Sems -> Seq(Threads)]
  BY DEF QueueType
<1>3. \A y \in Sems, u \in Threads :
         Contains(waitq'[y], u) <=> Contains(waitq[y], u) /\ u # h
  BY <1>1 DEF WaitInv
<1>4. \A y \in Sems : Distinct(waitq'[y])
  BY <1>1 DEF WaitInv
<1>5. \A y \in Sems, u \in Threads : Contains(waitq'[y], u) => pc'[u] \in WaitPoints
  BY <1>3 DEF WaitInv
<1>6. \A y, z \in Sems, u \in Threads :
         Contains(waitq'[y], u) /\ Contains(waitq'[z], u) => y = z
  BY <1>3 DEF WaitInv
<1> QED BY <1>2, <1>3, <1>4, <1>5, <1>6 DEF WaitInv

(* acquire_sem_etc moves the thread that calls it and no other.            *)
LEMMA AcquireFacts ==
    ASSUME QueueType, WaitInv, units \in [Sems -> Nat],
           NEW t \in Threads, NEW x \in Sems, NEW g \in Points, NEW w \in WaitPoints,
           NEW f \in Points, pc[t] \notin WaitPoints, Acquire(t, x, g, w, f)
    PROVE  /\ QueueType' /\ WaitInv' /\ units' \in [Sems -> Nat] /\ live' = live
           /\ pc'[t] \in {g, w, f} /\ \A u \in Threads : u # t => pc'[u] = pc[u]
<1>1. CASE ~live[x] /\ Goto(t, f) /\ UNCHANGED semVars
  <2>1. waitq' = waitq /\ units' = units /\ live' = live /\ pc' = [pc EXCEPT ![t] = f]
    BY <1>1 DEF semVars, Goto
  <2> QED BY <2>1, WaitPlain DEF QueueType
<1>2. CASE /\ live[x] /\ units[x] > 0 /\ units' = [units EXCEPT ![x] = @ - 1]
           /\ Goto(t, g) /\ UNCHANGED <<live, waitq>>
  <2>1. waitq' = waitq /\ live' = live /\ pc' = [pc EXCEPT ![t] = g]
    BY <1>2 DEF Goto
  <2>2. units' \in [Sems -> Nat]
    BY <1>2
  <2> QED BY <2>1, <2>2, WaitPlain DEF QueueType
<1>3. CASE /\ live[x] /\ units[x] = 0 /\ waitq' = [waitq EXCEPT ![x] = Append(@, t)]
           /\ Goto(t, w) /\ UNCHANGED <<live, units>>
  <2>1. /\ waitq' = [waitq EXCEPT ![x] = Append(@, t)] /\ live' = live /\ units' = units
        /\ pc' = [pc EXCEPT ![t] = w] /\ w \in Points
    BY <1>3 DEF Goto, WaitPoints, Points
  <2>2. WaitInv' /\ waitq' \in [Sems -> Seq(Threads)]
    BY <2>1, WaitJoin
  <2> QED BY <2>1, <2>2 DEF QueueType
<1> QED BY <1>1, <1>2, <1>3 DEF Acquire

(* release_sem moves the thread that calls it, and the first that waits.   *)
LEMMA ReleaseFacts ==
    ASSUME QueueType, WaitInv, units \in [Sems -> Nat],
           NEW t \in Threads, NEW x \in Sems, pc[t] \notin WaitPoints, Release(t, x)
    PROVE  /\ QueueType' /\ WaitInv' /\ units' \in [Sems -> Nat] /\ live' = live
           /\ pc'[t] = "run"
           /\ \A u \in Threads : u # t =>
                 \/ pc'[u] = pc[u]
                 \/ pc[u] \in WaitPoints /\ pc'[u] = Granted(pc[u])
<1>1. CASE waitq' = waitq /\ Goto(t, "run") /\ live' = live /\ units' \in [Sems -> Nat]
  <2>1. pc' = [pc EXCEPT ![t] = "run"] /\ "run" \in Points
    BY <1>1 DEF Goto, Points
  <2> QED BY <1>1, <2>1, WaitPlain DEF QueueType
<1>2. CASE /\ live[x] /\ waitq[x] # <<>> /\ waitq' = [waitq EXCEPT ![x] = Tail(@)]
           /\ pc' = [pc EXCEPT ![t] = "run",
                               ![Head(waitq[x])] = Granted(pc[Head(waitq[x])])]
           /\ UNCHANGED <<live, units>>
  <2>1. PICK q \in Seq(Threads), h \in Threads :
           /\ q = Tail(waitq[x]) /\ h = Head(waitq[x]) /\ Contains(waitq[x], h)
           /\ Distinct(q) /\ \A u : Contains(q, u) <=> Contains(waitq[x], u) /\ u # h
    <3>1. waitq[x] \in Seq(Threads) /\ Distinct(waitq[x])
      BY DEF QueueType, WaitInv
    <3>2. /\ Tail(waitq[x]) \in Seq(Threads) /\ Head(waitq[x]) \in Threads
          /\ Contains(waitq[x], Head(waitq[x])) /\ Distinct(Tail(waitq[x]))
          /\ \A u : Contains(Tail(waitq[x]), u) <=> Contains(waitq[x], u) /\ u # Head(waitq[x])
      BY <1>2, <3>1, TailDistinct
    <3>3. \A q, h : q = Tail(waitq[x]) /\ h = Head(waitq[x]) =>
             /\ Contains(waitq[x], h) /\ Distinct(q)
             /\ \A u : Contains(q, u) <=> Contains(waitq[x], u) /\ u # h
      BY <3>2, Zenon
    <3> QED BY <3>2, <3>3, Zenon
  <2>2. h # t /\ pc[h] \in WaitPoints
    BY <2>1 DEF WaitInv
  <2>3. waitq' = [waitq EXCEPT ![x] = q] /\ pc' = [pc EXCEPT ![t] = "run", ![h] = Granted(pc[h])]
    BY <1>2, <2>1 DEF QueueType
  <2>4. Granted(pc[h]) \in {"rtake", "wfill", "bpeek"}
    BY <2>2, GrantedType
  <2>5. /\ pc'[t] = "run" /\ pc'[h] = Granted(pc[h])
        /\ \A u \in Threads : u \notin {t, h} => pc'[u] = pc[u]
        /\ pc' \in [Threads -> Points]
    BY <2>2, <2>3, <2>4 DEF QueueType, Points
  <2>6. WaitInv' /\ waitq' \in [Sems -> Seq(Threads)]
    BY <2>1, <2>2, <2>3, <2>5, WaitLeave
  <2> QED BY <1>2, <2>2, <2>5, <2>6 DEF QueueType
<1>3. CASE ~live[x] /\ Goto(t, "run") /\ UNCHANGED semVars
  BY <1>1, <1>3 DEF semVars
<1>4. CASE /\ live[x] /\ waitq[x] = <<>> /\ units' = [units EXCEPT ![x] = @ + 1]
           /\ Goto(t, "run") /\ UNCHANGED <<live, waitq>>
  <2>1. units' \in [Sems -> Nat]
    BY <1>4
  <2> QED BY <1>1, <1>4, <2>1
<1> QED BY <1>2, <1>3, <1>4 DEF Release

(* A wait that a timeout or a kill ends.                                   *)
LEMMA GiveUpFacts ==
    ASSUME QueueType, WaitInv, NEW t \in Threads, GiveUp(t)
    PROVE  /\ QueueType' /\ WaitInv'
           /\ pc[t] \in WaitPoints /\ pc'[t] = Failed(pc[t])
           /\ \A u \in Threads : u # t => pc'[u] = pc[u]
           /\ \A y \in Sems, u \in Threads :
                 Contains(waitq'[y], u) <=> Contains(waitq[y], u) /\ u # t
<1>1. PICK x \in Sems : \E k \in 1 .. Len(waitq[x]) :
         /\ waitq[x][k] = t /\ waitq' = [waitq EXCEPT ![x] = RemoveAt(@, k)]
         /\ pc' = [pc EXCEPT ![t] = Failed(pc[t])]
  BY DEF GiveUp, Goto
<1>a. PICK k \in 1 .. Len(waitq[x]) :
         /\ waitq[x][k] = t /\ waitq' = [waitq EXCEPT ![x] = RemoveAt(@, k)]
         /\ pc' = [pc EXCEPT ![t] = Failed(pc[t])]
  BY <1>1
<1>2. waitq[x] \in Seq(Threads) /\ Distinct(waitq[x]) /\ Contains(waitq[x], t)
  BY <1>a DEF QueueType, WaitInv, Contains
<1>3. PICK q \in Seq(Threads) :
         /\ q = RemoveAt(waitq[x], k) /\ Distinct(q)
         /\ \A u : Contains(q, u) <=> Contains(waitq[x], u) /\ u # t
  BY <1>a, <1>2, RemoveAtElements, RemoveAtDistinct
<1>4. waitq' = [waitq EXCEPT ![x] = q]
  BY <1>a, <1>3 DEF QueueType
<1>5. pc[t] \in WaitPoints /\ Failed(pc[t]) \in {"bpeek", "run"}
  BY <1>2, GrantedType DEF WaitInv
<1>6. /\ pc'[t] = Failed(pc[t]) /\ pc' \in [Threads -> Points]
      /\ \A u \in Threads : u # t => pc'[u] = pc[u]
  BY <1>a, <1>5 DEF QueueType, Points
<1> QED BY <1>2, <1>3, <1>4, <1>5, <1>6, WaitLeave DEF QueueType

(* delete_sem empties a queue and fails everybody in it.                   *)
LEMMA DeleteSemFacts ==
    ASSUME QueueType, WaitInv, NEW t \in Threads, tgen[t] \in Ids, DeleteSem(t)
    PROVE  /\ QueueType' /\ WaitInv'
           /\ pc[t] \in {"dread", "dwrite"} /\ pc'[t] \in {"dwrite", "run"}
           /\ \A u \in Threads : u # t =>
                 \/ pc'[u] = pc[u]
                 \/ pc[u] \in WaitPoints /\ pc'[u] = Failed(pc[u])
           /\ \E x \in Sems : live' = [live EXCEPT ![x] = FALSE]
<1>1. PICK x \in Sems :
         /\ live' = [live EXCEPT ![x] = FALSE] /\ waitq' = [waitq EXCEPT ![x] = <<>>]
         /\ pc' = [u \in Threads |->
                      IF u = t THEN (IF pc[t] = "dread" THEN "dwrite" ELSE "run")
                      ELSE IF u \in Woken(x) THEN Failed(pc[u]) ELSE pc[u]]
  <2>1. PICK x : x = IF pc[t] = "dread" THEN <<"read", tgen[t]>> ELSE <<"write", tgen[t]>>
    OBVIOUS
  <2>2. x \in Sems
    BY <2>1 DEF Sems
  <2> QED BY <2>1, <2>2 DEF DeleteSem
<1>2. \A u \in Threads : u \in Woken(x) <=> Contains(waitq[x], u)
  BY DEF Woken, Contains
<1>3. \A u \in Threads : u \in Woken(x) => pc[u] \in WaitPoints /\ Failed(pc[u]) \in {"bpeek", "run"}
  BY <1>2, GrantedType DEF WaitInv
<1>4. pc[t] \in {"dread", "dwrite"} /\ pc'[t] \in {"dwrite", "run"}
  BY <1>1 DEF DeleteSem
<1>5. pc' \in [Threads -> Points]
  <2>1. \A u \in Threads : pc[u] \in Points
    BY DEF QueueType
  <2>2. \A u \in Threads : pc'[u] \in Points
    BY <1>1, <1>3, <1>4, <2>1 DEF Points
  <2> QED BY <1>1, <2>2
<1>6. \A u \in Threads : u # t =>
         \/ pc'[u] = pc[u]
         \/ pc[u] \in WaitPoints /\ pc'[u] = Failed(pc[u])
  BY <1>1, <1>3
<1>7. waitq'[x] = <<>> /\ \A y \in Sems : y # x => waitq'[y] = waitq[y]
  BY <1>1 DEF QueueType
<1>8. waitq' \in [Sems -> Seq(Threads)]
  BY <1>1 DEF QueueType
<1>9. \A y \in Sems, u \in Threads : Contains(waitq'[y], u) =>
         Contains(waitq[y], u) /\ u \notin Woken(x) /\ u # t
  <2>1. ~\E u : Contains(<<>>, u)
    BY DEF Contains
  <2>2. SUFFICES ASSUME NEW y \in Sems, NEW u \in Threads, Contains(waitq'[y], u)
                 PROVE  Contains(waitq[y], u) /\ u \notin Woken(x) /\ u # t
    OBVIOUS
  <2>3. y # x
    BY <1>7, <2>1, <2>2
  <2>4. Contains(waitq[y], u)
    BY <1>7, <2>2, <2>3
  <2>5. pc[t] \notin WaitPoints
    BY <1>4 DEF WaitPoints
  <2> QED BY <1>2, <2>3, <2>4, <2>5 DEF WaitInv
<1>10. WaitInv'
  <2>1. \A y \in Sems : Distinct(waitq'[y])
    <3>1. Distinct(<<>>)
      BY DEF Distinct
    <3> QED BY <1>7, <3>1 DEF WaitInv
  <2>2. \A y \in Sems, u \in Threads : Contains(waitq'[y], u) => pc'[u] \in WaitPoints
    BY <1>1, <1>9 DEF WaitInv
  <2>3. \A y, z \in Sems, u \in Threads :
           Contains(waitq'[y], u) /\ Contains(waitq'[z], u) => y = z
    BY <1>9 DEF WaitInv
  <2> QED BY <2>1, <2>2, <2>3 DEF WaitInv
<1> QED BY <1>1, <1>4, <1>5, <1>6, <1>8, <1>10 DEF QueueType

-----------------------------------------------------------------------------
(* The table.                                                              *)

(* The types without the queues.                                           *)
SlotType ==
    /\ pid \in [Slots -> Ids \cup {-1}] /\ gen \in [Slots -> Ids]
    /\ closed \in [Slots -> BOOLEAN] /\ capacity \in [Slots -> Nat]
    /\ head \in [Slots -> Nat] /\ tail \in [Slots -> Nat]
    /\ plock \in [Slots -> Threads \cup {NoThread}] /\ next_port \in Nat
HeapType ==
    /\ freed \subseteq Ids /\ freedBufs \subseteq Messages
    /\ live \in [Sems -> BOOLEAN] /\ units \in [Sems -> Nat]
    /\ tid \in [Threads -> Ids] /\ tgen \in [Threads -> Ids]
    /\ nmsg \in 0 .. MaxMsgs /\ fault \in Faults

(* The types of the slots, of the heap and of the queues, apart.           *)
LEMMA TypeParts == PortTypeOK <=> SlotType /\ HeapType /\ QueueType
BY DEF PortTypeOK, SlotType, HeapType, QueueType, Points

(* The same after a step.                                                  *)
LEMMA TypePartsNext == PortTypeOK' <=> SlotType' /\ HeapType' /\ QueueType'
BY DEF PortTypeOK, SlotType, HeapType, QueueType, Points

(* A step that leaves port.c's table alone keeps its types.                *)
LEMMA SlotsSame ==
    ASSUME SlotType, UNCHANGED slotVars
    PROVE  SlotType'
BY DEF SlotType, slotVars

(* A step that leaves the table alone: a call that is inside goes on, or   *)
(* starts for a port that is there.                                        *)
TableFrame ==
    /\ pid' = pid /\ gen' = gen /\ capacity' = capacity /\ next_port' = next_port
    /\ freed' = freed
    /\ \A u \in Threads : pc'[u] # "run" =>
          \/ pc[u] # "run" /\ tid'[u] = tid[u]
          \/ \E s \in Slots : pid[s] # -1 /\ tid'[u] = pid[s]
    /\ \A u \in Threads : pc'[u] \in {"dtake", "dfree"} =>
          pc[u] = pc'[u] /\ tgen'[u] = tgen[u] /\ tid'[u] = tid[u]

(* Such a step keeps what the table promises.                              *)
LEMMA FrameStep ==
    ASSUME TableInv, DeleteInv, TableFrame
    PROVE  TableInv' /\ DeleteInv'
<1>1. /\ pid' = pid /\ gen' = gen /\ capacity' = capacity /\ next_port' = next_port
      /\ freed' = freed
  BY DEF TableFrame
<1>2. \A s \in Slots : pid'[s] # -1 =>
          /\ gen'[s] = pid'[s] /\ SlotOf(pid'[s]) = s
          /\ capacity'[s] \in Capacities
          /\ pid'[s] < next_port' /\ pid'[s] \notin freed'
  BY <1>1 DEF TableInv
<1>3. \A p \in freed' : p < next_port'
  BY <1>1 DEF TableInv
<1>4. \A u \in Threads : pc'[u] # "run" => capacity'[SlotOf(tid'[u])] \in Capacities
  <2>1. SUFFICES ASSUME NEW u \in Threads, pc'[u] # "run"
                 PROVE  capacity[SlotOf(tid'[u])] \in Capacities
    BY <1>1
  <2>2. CASE pc[u] # "run" /\ tid'[u] = tid[u]
    BY <2>2 DEF TableInv
  <2>3. CASE \E s \in Slots : pid[s] # -1 /\ tid'[u] = pid[s]
    <3>1. PICK s \in Slots : pid[s] # -1 /\ tid'[u] = pid[s]
      BY <2>3
    <3> QED BY <3>1 DEF TableInv
  <2> QED BY <2>1, <2>2, <2>3 DEF TableFrame
<1>5. TableInv'
  BY <1>2, <1>3, <1>4 DEF TableInv, SlotOf
<1>6. ASSUME NEW u \in Threads, pc'[u] = "dtake"
      PROVE  /\ gen'[SlotOf(tid'[u])] = tid'[u] /\ tid'[u] < next_port'
             /\ \A s \in Slots : pid'[s] # tid'[u]
  <2>1. pc[u] = "dtake" /\ tid'[u] = tid[u]
    BY <1>6 DEF TableFrame
  <2> QED BY <1>1, <2>1 DEF DeleteInv
<1>7. ASSUME NEW u \in Threads, pc'[u] = "dfree"
      PROVE  tgen'[u] < next_port' /\ \A s \in Slots : pid'[s] # tgen'[u]
  <2>1. pc[u] = "dfree" /\ tgen'[u] = tgen[u]
    BY <1>7 DEF TableFrame
  <2> QED BY <1>1, <2>1 DEF DeleteInv
<1>8. DeleteInv'
  BY <1>6, <1>7 DEF DeleteInv, SlotOf
<1> QED BY <1>5, <1>8

(* A new port has a new id, a new ring and a slot of its own.              *)
LEMMA CreateTable ==
    ASSUME TableInductive, NEW t \in Threads, NEW i \in Slots, NEW cap \in Capacities,
           \A u \in Threads \ {t} : pc[u] # "dtake", create_port(t, i, cap)
    PROVE  TableInductive'
<1>1. PortTypeOK /\ WaitInv /\ TableInv /\ DeleteInv /\ SlotType /\ HeapType /\ QueueType
  BY TypeParts DEF TableInductive
<1>2. PICK p \in Nat : p = NextIdFor(i) /\ p >= next_port /\ SlotOf(p) = i
  BY <1>1, NextIdFacts DEF SlotType
<1>3. /\ pc[t] = "run" /\ pid[i] = -1 /\ p <= MaxId
      /\ live' = [live EXCEPT ![<<"read", p>>] = TRUE, ![<<"write", p>>] = TRUE]
      /\ units' = [units EXCEPT ![<<"write", p>>] = cap]
      /\ pid' = [pid EXCEPT ![i] = p] /\ next_port' = p + 1
      /\ gen' = [gen EXCEPT ![i] = p] /\ capacity' = [capacity EXCEPT ![i] = cap]
      /\ head' = [head EXCEPT ![i] = 0] /\ tail' = [tail EXCEPT ![i] = 0]
      /\ plock' = [plock EXCEPT ![i] = NoThread]
      /\ closed' = closed /\ freed' = freed /\ freedBufs' = freedBufs
      /\ waitq' = waitq /\ pc' = pc /\ tid' = tid /\ tgen' = tgen /\ nmsg' = nmsg
      /\ fault' = fault
  BY <1>2 DEF create_port, Places, histVars
<1>4. p \in Ids /\ cap \in Nat
  BY <1>2, <1>3, PortAssumption DEF Ids
<1>5. SlotType'
  BY <1>1, <1>2, <1>3, <1>4 DEF SlotType
<1>6. HeapType' /\ QueueType'
  BY <1>1, <1>3, <1>4 DEF HeapType, QueueType
<1>7. WaitInv'
  BY <1>1, <1>3, WaitPlain
<1>8. /\ pid'[i] = p /\ gen'[i] = p /\ capacity'[i] = cap
      /\ \A s \in Slots : s # i => pid'[s] = pid[s] /\ gen'[s] = gen[s] /\ capacity'[s] = capacity[s]
  BY <1>1, <1>3 DEF SlotType
<1>9. next_port \in Nat /\ \A q \in freed : q \in Nat /\ q < next_port
  BY <1>1 DEF TableInv, SlotType, HeapType, Ids
<1>10. TableInv'
  <2>1. ASSUME NEW s \in Slots, pid'[s] # -1
        PROVE  /\ gen'[s] = pid'[s] /\ SlotOf(pid'[s]) = s
               /\ capacity'[s] \in Capacities
               /\ pid'[s] < next_port' /\ pid'[s] \notin freed'
    <3>1. CASE s = i
      BY <1>2, <1>3, <1>8, <1>9, <3>1
    <3>2. CASE s # i
      <4>1. /\ pid[s] # -1 /\ gen[s] = pid[s] /\ SlotOf(pid[s]) = s
            /\ capacity[s] \in Capacities /\ pid[s] < next_port /\ pid[s] \notin freed
        BY <1>1, <1>8, <2>1, <3>2 DEF TableInv
      <4>2. pid[s] \in Nat
        BY <1>1, <4>1 DEF SlotType, Ids
      <4> QED BY <1>2, <1>3, <1>8, <1>9, <3>2, <4>1, <4>2
    <3> QED BY <3>1, <3>2
  <2>2. \A q \in freed' : q < next_port'
    BY <1>2, <1>3, <1>9
  <2>3. ASSUME NEW u \in Threads, pc'[u] # "run"
        PROVE  capacity'[SlotOf(tid'[u])] \in Capacities
    <3>1. SlotOf(tid[u]) \in Slots
      BY <1>1, SlotOfType DEF HeapType
    <3>2. capacity[SlotOf(tid[u])] \in Capacities
      BY <1>1, <1>3, <2>3 DEF TableInv
    <3> QED BY <1>3, <1>8, <3>1, <3>2
  <2> QED BY <2>1, <2>2, <2>3 DEF TableInv, SlotOf
<1>11. DeleteInv'
  <2>1. \A u \in Threads : pc'[u] # "dtake"
    BY <1>3
  <2>2. ASSUME NEW u \in Threads, pc'[u] = "dfree"
        PROVE  tgen'[u] < next_port' /\ \A s \in Slots : pid'[s] # tgen'[u]
    <3>1. tgen[u] < next_port /\ \A s \in Slots : pid[s] # tgen[u]
      BY <1>1, <1>3, <2>2 DEF DeleteInv
    <3>2. tgen[u] \in Nat
      BY <1>1 DEF HeapType, Ids
    <3> QED BY <1>2, <1>3, <1>8, <1>9, <3>1, <3>2
  <2> QED BY <2>1, <2>2 DEF DeleteInv
<1> QED BY <1>5, <1>6, <1>7, <1>10, <1>11, TypePartsNext DEF TableInductive

(* delete_port takes the port out of its slot.                             *)
LEMMA DeleteMarkTable ==
    ASSUME TableInductive, NEW t \in Threads, NEW s \in Slots, DeleteMark(t, s)
    PROVE  TableInductive'
<1>1. PortTypeOK /\ WaitInv /\ TableInv /\ DeleteInv /\ SlotType /\ HeapType /\ QueueType
  BY TypeParts DEF TableInductive
<1>2. /\ pc[t] = "run" /\ pid[s] # -1
      /\ pid' = [pid EXCEPT ![s] = -1] /\ plock' = [plock EXCEPT ![s] = t]
      /\ tid' = [tid EXCEPT ![t] = pid[s]] /\ pc' = [pc EXCEPT ![t] = "dtake"]
      /\ gen' = gen /\ closed' = closed /\ capacity' = capacity /\ head' = head
      /\ tail' = tail /\ next_port' = next_port /\ freed' = freed
      /\ freedBufs' = freedBufs /\ live' = live /\ units' = units /\ waitq' = waitq
      /\ tgen' = tgen /\ nmsg' = nmsg /\ fault' = fault
  BY DEF DeleteMark, Found, Invalid, Goto, heapVars, semVars, histVars
<1>3. pid[s] \in Ids /\ gen[s] = pid[s] /\ SlotOf(pid[s]) = s /\ pid[s] < next_port
  BY <1>1, <1>2 DEF SlotType, TableInv
<1>4. SlotType'
  BY <1>1, <1>2 DEF SlotType
<1>5. HeapType' /\ QueueType'
  BY <1>1, <1>2, <1>3 DEF HeapType, QueueType, Points
<1>6. /\ pid'[s] = -1 /\ \A r \in Slots : r # s => pid'[r] = pid[r]
      /\ tid'[t] = pid[s] /\ pc'[t] = "dtake"
      /\ \A u \in Threads : u # t => tid'[u] = tid[u] /\ pc'[u] = pc[u]
  BY <1>1, <1>2 DEF SlotType, HeapType, QueueType
<1>7. WaitInv'
  <2>1. \A u \in Threads : pc[u] \in WaitPoints => pc'[u] = pc[u]
    BY <1>2, <1>6 DEF WaitPoints
  <2> QED BY <1>1, <1>2, <2>1, WaitPlain
<1>8. TableInv'
  <2>1. ASSUME NEW r \in Slots, pid'[r] # -1
        PROVE  /\ gen'[r] = pid'[r] /\ SlotOf(pid'[r]) = r
               /\ capacity'[r] \in Capacities
               /\ pid'[r] < next_port' /\ pid'[r] \notin freed'
    <3>1. r # s /\ pid'[r] = pid[r]
      BY <1>6, <2>1
    <3> QED BY <1>1, <1>2, <2>1, <3>1 DEF TableInv
  <2>2. \A p \in freed' : p < next_port'
    BY <1>1, <1>2 DEF TableInv
  <2>3. ASSUME NEW u \in Threads, pc'[u] # "run"
        PROVE  capacity'[SlotOf(tid'[u])] \in Capacities
    <3>1. CASE u = t
      BY <1>1, <1>2, <1>3, <1>6, <3>1 DEF TableInv
    <3>2. CASE u # t
      BY <1>1, <1>2, <1>6, <2>3, <3>2 DEF TableInv
    <3> QED BY <3>1, <3>2
  <2> QED BY <2>1, <2>2, <2>3 DEF TableInv, SlotOf
<1>9. DeleteInv'
  <2>1. ASSUME NEW u \in Threads, pc'[u] = "dtake"
        PROVE  /\ gen'[SlotOf(tid'[u])] = tid'[u] /\ tid'[u] < next_port'
               /\ \A r \in Slots : pid'[r] # tid'[u]
    <3>1. CASE u = t
      <4>1. \A r \in Slots : pid'[r] # pid[s]
        <5>1. SUFFICES ASSUME NEW r \in Slots, pid'[r] = pid[s] PROVE FALSE
          OBVIOUS
        <5>2. r # s /\ pid[r] = pid[s]
          BY <1>2, <1>6, <5>1
        <5>3. SlotOf(pid[r]) = r
          BY <1>1, <1>2, <5>2 DEF TableInv
        <5> QED BY <1>3, <5>2, <5>3
      <4> QED BY <1>2, <1>3, <1>6, <3>1, <4>1
    <3>2. CASE u # t
      <4>1. /\ gen[SlotOf(tid[u])] = tid[u] /\ tid[u] < next_port
            /\ \A r \in Slots : pid[r] # tid[u]
        BY <1>1, <1>6, <2>1, <3>2 DEF DeleteInv
      <4>2. tid[u] \in Nat
        BY <1>1 DEF HeapType, Ids
      <4>3. \A r \in Slots : pid'[r] # tid[u]
        BY <1>6, <4>1, <4>2
      <4> QED BY <1>2, <1>6, <3>2, <4>1, <4>3
    <3> QED BY <3>1, <3>2
  <2>2. ASSUME NEW u \in Threads, pc'[u] = "dfree"
        PROVE  tgen'[u] < next_port' /\ \A r \in Slots : pid'[r] # tgen'[u]
    <3>1. pc[u] = "dfree" /\ tgen[u] \in Nat
      BY <1>1, <1>6, <2>2 DEF HeapType, Ids
    <3>2. tgen[u] < next_port /\ \A r \in Slots : pid[r] # tgen[u]
      BY <1>1, <3>1 DEF DeleteInv
    <3> QED BY <1>2, <1>6, <3>1, <3>2
  <2> QED BY <2>1, <2>2 DEF DeleteInv, SlotOf
<1> QED BY <1>4, <1>5, <1>7, <1>8, <1>9, TypePartsNext DEF TableInductive

(* What delete_port then remembers and frees is in no slot.                *)
LEMMA DeleteTakeTable ==
    ASSUME TableInductive, NEW t \in Threads, DeleteTake(t)
    PROVE  TableInductive'
<1>1. PortTypeOK /\ WaitInv /\ TableInv /\ DeleteInv /\ SlotType /\ HeapType /\ QueueType
  BY TypeParts DEF TableInductive
<1>2. PICK s \in Slots : s = SlotOf(tid[t])
  BY <1>1, SlotOfType DEF HeapType
<1>3. /\ pc[t] = "dtake" /\ tgen' = [tgen EXCEPT ![t] = gen[s]]
      /\ plock' = [plock EXCEPT ![s] = NoThread] /\ pc' = [pc EXCEPT ![t] = "dfree"]
      /\ pid' = pid /\ gen' = gen /\ closed' = closed /\ capacity' = capacity
      /\ head' = head /\ tail' = tail /\ next_port' = next_port /\ freed' = freed
      /\ freedBufs' = freedBufs /\ live' = live /\ units' = units /\ waitq' = waitq
      /\ tid' = tid /\ nmsg' = nmsg /\ fault' = fault
  BY <1>2 DEF DeleteTake, Goto, heapVars, semVars, histVars
<1>4. gen[s] \in Ids /\ gen[s] = tid[t] /\ tid[t] < next_port /\ \A r \in Slots : pid[r] # tid[t]
  BY <1>1, <1>2, <1>3 DEF SlotType, DeleteInv
<1>5. SlotType'
  BY <1>1, <1>3 DEF SlotType
<1>6. HeapType' /\ QueueType'
  BY <1>1, <1>3, <1>4 DEF HeapType, QueueType, Points
<1>7. /\ tgen'[t] = tid[t] /\ pc'[t] = "dfree"
      /\ \A u \in Threads : u # t => tgen'[u] = tgen[u] /\ pc'[u] = pc[u]
  BY <1>1, <1>3, <1>4 DEF HeapType, QueueType
<1>8. WaitInv'
  <2>1. \A u \in Threads : pc[u] \in WaitPoints => pc'[u] = pc[u]
    BY <1>3, <1>7 DEF WaitPoints
  <2> QED BY <1>1, <1>3, <2>1, WaitPlain
<1>9. TableInv'
  <2>1. ASSUME NEW u \in Threads, pc'[u] # "run"
        PROVE  capacity'[SlotOf(tid'[u])] \in Capacities
    <3>1. pc[u] # "run"
      BY <1>3, <1>7, <2>1
    <3> QED BY <1>1, <1>3, <3>1 DEF TableInv
  <2>2. /\ \A r \in Slots : pid'[r] # -1 =>
              /\ gen'[r] = pid'[r] /\ SlotOf(pid'[r]) = r
              /\ capacity'[r] \in Capacities
              /\ pid'[r] < next_port' /\ pid'[r] \notin freed'
        /\ \A p \in freed' : p < next_port'
    BY <1>1, <1>3 DEF TableInv
  <2> QED BY <2>1, <2>2 DEF TableInv, SlotOf
<1>10. DeleteInv'
  <2>1. ASSUME NEW u \in Threads, pc'[u] = "dtake"
        PROVE  /\ gen'[SlotOf(tid'[u])] = tid'[u] /\ tid'[u] < next_port'
               /\ \A r \in Slots : pid'[r] # tid'[u]
    <3>1. pc[u] = "dtake"
      BY <1>3, <1>7, <2>1
    <3> QED BY <1>1, <1>3, <3>1 DEF DeleteInv
  <2>2. ASSUME NEW u \in Threads, pc'[u] = "dfree"
        PROVE  tgen'[u] < next_port' /\ \A r \in Slots : pid'[r] # tgen'[u]
    <3>1. CASE u = t
      BY <1>3, <1>4, <1>7, <3>1
    <3>2. CASE u # t
      BY <1>1, <1>3, <1>7, <2>2, <3>2 DEF DeleteInv
    <3> QED BY <3>1, <3>2
  <2> QED BY <2>1, <2>2 DEF DeleteInv, SlotOf
<1> QED BY <1>5, <1>6, <1>8, <1>9, <1>10, TypePartsNext DEF TableInductive

(* delete_port frees the ring it took, which no slot points to.            *)
LEMMA DeleteFreeTable ==
    ASSUME TableInductive, NEW t \in Threads, DeleteFree(t)
    PROVE  TableInductive'
<1>1. PortTypeOK /\ WaitInv /\ TableInv /\ DeleteInv /\ SlotType /\ HeapType /\ QueueType
  BY TypeParts DEF TableInductive
<1>2. /\ pc[t] = "dfree" /\ freed' = freed \cup {tgen[t]}
      /\ freedBufs' = freedBufs \cup (Bufs(tgen[t]) \cap Messages)
      /\ fault' \in {"bad free", fault} /\ pc' = [pc EXCEPT ![t] = "dread"]
      /\ pid' = pid /\ gen' = gen /\ closed' = closed /\ capacity' = capacity
      /\ head' = head /\ tail' = tail /\ plock' = plock /\ next_port' = next_port
      /\ live' = live /\ units' = units /\ waitq' = waitq
      /\ tid' = tid /\ tgen' = tgen /\ nmsg' = nmsg
  BY DEF DeleteFree, Goto, slotVars, semVars, histVars
<1>3. tgen[t] \in Ids /\ tgen[t] < next_port /\ \A r \in Slots : pid[r] # tgen[t]
  BY <1>1, <1>2 DEF HeapType, DeleteInv
<1>4. SlotType'
  BY <1>1, <1>2 DEF SlotType
<1>5. QueueType'
  BY <1>1, <1>2 DEF QueueType, Points
<1>6. HeapType'
  <2>1. freed' \subseteq Ids /\ freedBufs' \subseteq Messages
    BY <1>1, <1>2, <1>3 DEF HeapType
  <2>2. fault' \in Faults
    BY <1>1, <1>2 DEF HeapType, Faults
  <2> QED BY <1>1, <1>2, <2>1, <2>2 DEF HeapType
<1>7. pc'[t] = "dread" /\ \A u \in Threads : u # t => pc'[u] = pc[u]
  BY <1>1, <1>2 DEF QueueType
<1>8. WaitInv'
  <2>1. \A u \in Threads : pc[u] \in WaitPoints => pc'[u] = pc[u]
    BY <1>2, <1>7 DEF WaitPoints
  <2> QED BY <1>1, <1>2, <2>1, WaitPlain
<1>9. TableInv'
  <2>1. ASSUME NEW u \in Threads, pc'[u] # "run"
        PROVE  capacity'[SlotOf(tid'[u])] \in Capacities
    <3>1. pc[u] # "run"
      BY <1>2, <1>7, <2>1
    <3> QED BY <1>1, <1>2, <3>1 DEF TableInv
  <2>2. /\ \A r \in Slots : pid'[r] # -1 =>
              /\ gen'[r] = pid'[r] /\ SlotOf(pid'[r]) = r
              /\ capacity'[r] \in Capacities
              /\ pid'[r] < next_port' /\ pid'[r] \notin freed'
        /\ \A p \in freed' : p < next_port'
    BY <1>1, <1>2, <1>3 DEF TableInv
  <2> QED BY <2>1, <2>2 DEF TableInv, SlotOf
<1>10. DeleteInv'
  <2>1. \A u \in Threads : pc'[u] \in {"dtake", "dfree"} => pc[u] = pc'[u]
    BY <1>7
  <2> QED BY <1>1, <1>2, <2>1 DEF DeleteInv, SlotOf
<1> QED BY <1>4, <1>5, <1>6, <1>8, <1>9, <1>10, TypePartsNext DEF TableInductive

(* delete_port deletes the two semaphores and wakes who waits.             *)
LEMMA DeleteSemTable ==
    ASSUME TableInductive, NEW t \in Threads, DeleteSem(t)
    PROVE  TableInductive'
<1>1. PortTypeOK /\ WaitInv /\ TableInv /\ DeleteInv /\ SlotType /\ HeapType /\ QueueType
  BY TypeParts DEF TableInductive
<1>2. /\ QueueType' /\ WaitInv'
      /\ pc[t] \in {"dread", "dwrite"} /\ pc'[t] \in {"dwrite", "run"}
      /\ \A u \in Threads : u # t =>
            \/ pc'[u] = pc[u]
            \/ pc[u] \in WaitPoints /\ pc'[u] = Failed(pc[u])
      /\ \E x \in Sems : live' = [live EXCEPT ![x] = FALSE]
  BY <1>1, DeleteSemFacts DEF HeapType
<1>3. /\ UNCHANGED slotVars /\ freed' = freed /\ freedBufs' = freedBufs /\ units' = units
      /\ tid' = tid /\ tgen' = tgen /\ nmsg' = nmsg /\ fault' = fault
  BY DEF DeleteSem, heapVars, histVars
<1>4. HeapType'
  BY <1>1, <1>2, <1>3 DEF HeapType
<1>5. \A u \in Threads : /\ pc'[u] # "run" => pc[u] # "run"
                         /\ pc'[u] \in {"dtake", "dfree"} => pc[u] = pc'[u]
  BY <1>2, GrantedType DEF WaitPoints
<1>6. TableFrame
  BY <1>3, <1>5 DEF TableFrame, slotVars
<1> QED BY <1>1, <1>2, <1>3, <1>4, <1>6, SlotsSame, FrameStep, TypePartsNext DEF TableInductive

(* A call that looks at a slot of the table and begins.                    *)
LEMMA EnterTable ==
    ASSUME TableInductive, NEW t \in Threads, NEW s \in Slots,
           ReadEnter(t, s) \/ WriteEnter(t, s) \/ BufferEnter(t, s)
    PROVE  TableInductive'
<1>1. PortTypeOK /\ WaitInv /\ TableInv /\ DeleteInv /\ SlotType /\ HeapType /\ QueueType
  BY TypeParts DEF TableInductive
<1>2. /\ pc[t] = "run" /\ pid[s] # -1 /\ tid' = [tid EXCEPT ![t] = pid[s]]
      /\ \E q \in {"racq", "wacq", "bacq"} : pc' = [pc EXCEPT ![t] = q]
      /\ UNCHANGED slotVars /\ freed' = freed /\ freedBufs' = freedBufs
      /\ live' = live /\ units' = units /\ waitq' = waitq /\ fault' = fault
      /\ tgen' \in {tgen, [tgen EXCEPT ![t] = gen[s]]}
      /\ nmsg' = nmsg \/ (nmsg < MaxMsgs /\ nmsg' = nmsg + 1)
  BY DEF ReadEnter, WriteEnter, BufferEnter, Found, Goto, heapVars, semVars, histVars
<1>3. pid[s] \in Ids /\ gen[s] \in Ids
  BY <1>1, <1>2 DEF SlotType
<1>4. QueueType'
  BY <1>1, <1>2 DEF QueueType, Points
<1>5. tid' \in [Threads -> Ids] /\ tgen' \in [Threads -> Ids]
  BY <1>1, <1>2, <1>3 DEF HeapType
<1>6. nmsg' \in 0 .. MaxMsgs
  BY <1>1, <1>2, PortAssumption DEF HeapType
<1>7. HeapType'
  BY <1>1, <1>2, <1>5, <1>6 DEF HeapType
<1>8. /\ pc'[t] \in {"racq", "wacq", "bacq"} /\ tid'[t] = pid[s]
      /\ \A u \in Threads : u # t => pc'[u] = pc[u] /\ tid'[u] = tid[u] /\ tgen'[u] = tgen[u]
  BY <1>1, <1>2 DEF QueueType, HeapType
<1>9. WaitInv'
  <2>1. \A u \in Threads : pc[u] \in WaitPoints => pc'[u] = pc[u]
    BY <1>2, <1>8 DEF WaitPoints
  <2> QED BY <1>1, <1>2, <2>1, WaitPlain
<1>10. TableFrame
  <2>1. \A u \in Threads : pc'[u] # "run" =>
           \/ pc[u] # "run" /\ tid'[u] = tid[u]
           \/ \E r \in Slots : pid[r] # -1 /\ tid'[u] = pid[r]
    BY <1>2, <1>8
  <2>2. \A u \in Threads : pc'[u] \in {"dtake", "dfree"} =>
           pc[u] = pc'[u] /\ tgen'[u] = tgen[u] /\ tid'[u] = tid[u]
    BY <1>8
  <2> QED BY <1>2, <2>1, <2>2 DEF TableFrame, slotVars
<1> QED BY <1>1, <1>2, <1>4, <1>7, <1>9, <1>10, SlotsSame, FrameStep, TypePartsNext
        DEF TableInductive

(* A call that is inside goes on or returns.                               *)
LEMMA InsideTable ==
    ASSUME TableInductive, SlotType', HeapType', QueueType', WaitInv',
           pid' = pid, gen' = gen, capacity' = capacity, next_port' = next_port,
           freed' = freed, tid' = tid,
           \A u \in Threads : /\ pc'[u] # "run" => pc[u] # "run"
                              /\ pc'[u] \in {"dtake", "dfree"} =>
                                    pc[u] = pc'[u] /\ tgen'[u] = tgen[u]
    PROVE  TableInductive'
<1>1. TableInv /\ DeleteInv
  BY DEF TableInductive
<1>2. TableFrame
  BY DEF TableFrame
<1> QED BY <1>1, <1>2, FrameStep, TypePartsNext DEF TableInductive

(* Steps that change neither the queues nor the semaphores.                *)
LEMMA PlainTable ==
    ASSUME TableInductive, NEW t \in Threads,
           \/ CreateFull(t) \/ DeadRing(t) \/ WriteFail(t) \/ ReadTake(t) \/ WriteAttach(t)
           \/ \E s \in Slots : close_port(t, s)
    PROVE  TableInductive'
<1>1. PortTypeOK /\ WaitInv /\ TableInv /\ DeleteInv /\ SlotType /\ HeapType /\ QueueType
  BY TypeParts DEF TableInductive
<1>2. CASE CreateFull(t) \/ DeadRing(t) \/ WriteFail(t)
  <2>1. /\ UNCHANGED slotVars /\ freed' = freed /\ freedBufs' = freedBufs
        /\ live' = live /\ units' = units /\ waitq' = waitq /\ tid' = tid /\ tgen' = tgen
        /\ nmsg' = nmsg /\ fault' \in {fault, "double free", "use after free"}
        /\ pc' = pc \/ (pc[t] = "wfill" /\ pc' = [pc EXCEPT ![t] = "run"])
    BY <1>2 DEF CreateFull, DeadRing, WriteFail, Goto, heapVars, semVars, histVars
  <2>2. HeapType'
    BY <1>1, <2>1 DEF HeapType, Faults
  <2>3. QueueType' /\ \A u \in Threads : pc'[u] = pc[u] \/ (pc[u] = "wfill" /\ pc'[u] = "run")
    BY <1>1, <2>1 DEF QueueType, Points
  <2>4. WaitInv'
    <3>1. \A u \in Threads : pc[u] \in WaitPoints => pc'[u] = pc[u]
      BY <2>3 DEF WaitPoints
    <3> QED BY <1>1, <2>1, <3>1, WaitPlain
  <2>5. \A u \in Threads : /\ pc'[u] # "run" => pc[u] # "run"
                           /\ pc'[u] \in {"dtake", "dfree"} =>
                                 pc[u] = pc'[u] /\ tgen'[u] = tgen[u]
    BY <2>1, <2>3
  <2>6. pid' = pid /\ gen' = gen /\ capacity' = capacity /\ next_port' = next_port
    BY <2>1 DEF slotVars
  <2> QED BY <1>1, <2>1, <2>2, <2>3, <2>4, <2>5, <2>6, SlotsSame, InsideTable
<1>3. CASE \E s \in Slots : close_port(t, s)
  <2>1. PICK s \in Slots : close_port(t, s)
    BY <1>3
  <2>2. /\ closed' = [closed EXCEPT ![s] = TRUE] /\ pid' = pid /\ gen' = gen
        /\ capacity' = capacity /\ head' = head /\ tail' = tail /\ plock' = plock
        /\ next_port' = next_port /\ freed' = freed /\ freedBufs' = freedBufs
        /\ live' = live /\ units' = units /\ waitq' = waitq /\ pc' = pc /\ tid' = tid
        /\ tgen' = tgen /\ nmsg' = nmsg /\ fault' = fault
    BY <2>1 DEF close_port, heapVars, semVars, histVars
  <2>3. SlotType' /\ HeapType' /\ QueueType'
    BY <1>1, <2>2 DEF SlotType, HeapType, QueueType
  <2>4. WaitInv'
    BY <1>1, <2>2, WaitPlain
  <2> QED BY <2>2, <2>3, <2>4, InsideTable
<1>4. CASE ReadTake(t) \/ WriteAttach(t)
  <2>1. PICK s \in Slots : s = SlotOf(tid[t])
    BY <1>1, SlotOfType DEF HeapType
  <2>2. /\ pc[t] \in {"rtake", "wfill"}
        /\ \E q \in {"rrel", "wrel"} : pc' = [pc EXCEPT ![t] = q]
        /\ head' \in {head, [head EXCEPT ![s] = After(@, capacity[s])]}
        /\ tail' \in {tail, [tail EXCEPT ![s] = After(@, capacity[s])]}
        /\ tgen' = [tgen EXCEPT ![t] = gen[s]]
        /\ pid' = pid /\ gen' = gen /\ closed' = closed /\ capacity' = capacity
        /\ plock' = plock /\ next_port' = next_port /\ freed' = freed
        /\ freedBufs' = freedBufs /\ live' = live /\ units' = units /\ waitq' = waitq
        /\ tid' = tid /\ nmsg' = nmsg /\ fault' = fault
    BY <1>4, <2>1 DEF ReadTake, WriteAttach, Goto, semVars
  <2>3. capacity[s] \in Nat \ {0}
    <3>1. capacity[s] \in Capacities
      BY <1>1, <2>1, <2>2 DEF TableInv
    <3> QED BY <3>1, PortAssumption
  <2>4. /\ After(head[s], capacity[s]) \in Nat /\ After(tail[s], capacity[s]) \in Nat
        /\ gen[s] \in Ids
    BY <1>1, <2>3 DEF SlotType, After
  <2>5. SlotType'
    BY <1>1, <2>2, <2>4 DEF SlotType
  <2>6. HeapType' /\ QueueType'
    BY <1>1, <2>2, <2>4 DEF HeapType, QueueType, Points
  <2>7. /\ pc'[t] \in {"rrel", "wrel"}
        /\ \A u \in Threads : u # t => pc'[u] = pc[u] /\ tgen'[u] = tgen[u]
    BY <1>1, <2>2 DEF QueueType, HeapType
  <2>8. WaitInv'
    <3>1. \A u \in Threads : pc[u] \in WaitPoints => pc'[u] = pc[u]
      BY <2>2, <2>7 DEF WaitPoints
    <3> QED BY <1>1, <2>2, <3>1, WaitPlain
  <2>9. \A u \in Threads : /\ pc'[u] # "run" => pc[u] # "run"
                           /\ pc'[u] \in {"dtake", "dfree"} =>
                                 pc[u] = pc'[u] /\ tgen'[u] = tgen[u]
    BY <2>2, <2>7
  <2> QED BY <2>2, <2>5, <2>6, <2>8, <2>9, InsideTable
<1> QED BY <1>2, <1>3, <1>4

(* Steps that wait for a semaphore, release one or stop to wait.           *)
LEMMA SemTable ==
    ASSUME TableInductive, NEW t \in Threads,
           \/ ReadAcquire(t) \/ WriteAcquire(t) \/ BufferAcquire(t)
           \/ ReadRelease(t) \/ WriteRelease(t) \/ BufferPeek(t) \/ GiveUp(t)
    PROVE  TableInductive'
<1>1. PortTypeOK /\ WaitInv /\ TableInv /\ DeleteInv /\ SlotType /\ HeapType /\ QueueType
  BY TypeParts DEF TableInductive
<1>2. /\ UNCHANGED slotVars /\ freed' = freed
      /\ tid' = tid /\ tgen' = tgen /\ nmsg' = nmsg
      /\ freedBufs' = freedBufs \/ freedBufs' = freedBufs \cup ({tmsg[t]} \cap Messages)
      /\ fault' \in {fault, "bad free"}
  BY DEF ReadAcquire, WriteAcquire, BufferAcquire, ReadRelease, WriteRelease, BufferPeek,
         GiveUp, heapVars, histVars
<1>3. freedBufs' \subseteq Messages /\ fault' \in Faults
  BY <1>1, <1>2 DEF HeapType, Faults
<1>4. PICK s \in Slots : s = SlotOf(tid[t])
  BY <1>1, SlotOfType DEF HeapType
<1>5. /\ <<"read", tgen[t]>> \in Sems /\ <<"write", tgen[t]>> \in Sems
      /\ <<"read", gen[s]>> \in Sems
  BY <1>1 DEF HeapType, SlotType, Sems
<1>6. SlotType' /\ pid' = pid /\ gen' = gen /\ capacity' = capacity /\ next_port' = next_port
  BY <1>1, <1>2, SlotsSame DEF slotVars
<1>7. SUFFICES /\ QueueType' /\ WaitInv' /\ units' \in [Sems -> Nat]
               /\ live' \in [Sems -> BOOLEAN]
               /\ \A u \in Threads : /\ pc'[u] # "run" => pc[u] # "run"
                                     /\ pc'[u] \in {"dtake", "dfree"} => pc[u] = pc'[u]
  <2>1. HeapType'
    BY <1>1, <1>2, <1>3, <1>7 DEF HeapType
  <2> QED BY <1>2, <1>6, <1>7, <2>1, InsideTable
<1>8. units \in [Sems -> Nat] /\ live \in [Sems -> BOOLEAN]
  BY <1>1 DEF HeapType
<1>9. CASE ReadAcquire(t) \/ WriteAcquire(t) \/ BufferAcquire(t)
  <2>1. PICK x \in Sems, g \in {"rtake", "wfill", "bpeek"}, w \in WaitPoints,
             f \in {"run", "bpeek"} :
           Acquire(t, x, g, w, f) /\ pc[t] \in {"racq", "wacq", "bacq"}
    BY <1>4, <1>5, <1>9 DEF ReadAcquire, WriteAcquire, BufferAcquire, WaitPoints
  <2>2. g \in Points /\ f \in Points /\ pc[t] \notin WaitPoints
    BY <2>1 DEF Points, WaitPoints
  <2>3. /\ QueueType' /\ WaitInv' /\ units' \in [Sems -> Nat] /\ live' = live
        /\ pc'[t] \in {g, w, f} /\ \A u \in Threads : u # t => pc'[u] = pc[u]
    BY <1>1, <1>8, <2>1, <2>2, AcquireFacts
  <2> QED BY <1>8, <2>1, <2>3 DEF WaitPoints
<1>10. CASE ReadRelease(t) \/ WriteRelease(t) \/ BufferPeek(t)
  <2>1. PICK x \in Sems : Release(t, x) /\ pc[t] \in {"rrel", "wrel", "bpeek"}
    BY <1>4, <1>5, <1>10 DEF ReadRelease, WriteRelease, BufferPeek
  <2>2. pc[t] \notin WaitPoints
    BY <2>1 DEF WaitPoints
  <2>3. /\ QueueType' /\ WaitInv' /\ units' \in [Sems -> Nat] /\ live' = live
        /\ pc'[t] = "run"
        /\ \A u \in Threads : u # t =>
              \/ pc'[u] = pc[u]
              \/ pc[u] \in WaitPoints /\ pc'[u] = Granted(pc[u])
    BY <1>1, <1>8, <2>1, <2>2, ReleaseFacts
  <2> QED BY <1>8, <2>3, GrantedType DEF WaitPoints
<1>11. CASE GiveUp(t)
  <2>1. /\ QueueType' /\ WaitInv'
        /\ pc[t] \in WaitPoints /\ pc'[t] = Failed(pc[t])
        /\ \A u \in Threads : u # t => pc'[u] = pc[u]
    BY <1>1, <1>11, GiveUpFacts
  <2>2. units' = units /\ live' = live
    BY <1>11 DEF GiveUp
  <2> QED BY <1>8, <2>1, <2>2, GrantedType DEF WaitPoints
<1> QED BY <1>9, <1>10, <1>11

(* Every step keeps the table, when nobody else is inside the critical     *)
(* section of a deletion.                                                  *)
LEMMA TableStep ==
    ASSUME TableInductive, NEW t \in Threads, \A u \in Threads \ {t} : pc[u] # "dtake",
           Call(t) \/ Finish(t) \/ GiveUp(t)
    PROVE  TableInductive'
<1>1. CASE Call(t)
  <2>1. CASE \E i \in Slots, cap \in Capacities : create_port(t, i, cap)
    BY <2>1, CreateTable
  <2>2. CASE CreateFull(t)
    BY <2>2, PlainTable
  <2>3. CASE \E s \in Slots : \/ close_port(t, s) \/ DeleteMark(t, s)
                              \/ ReadEnter(t, s) \/ WriteEnter(t, s) \/ BufferEnter(t, s)
    BY <2>3, PlainTable, DeleteMarkTable, EnterTable
  <2> QED BY <1>1, <2>1, <2>2, <2>3 DEF Call
<1>2. CASE Finish(t) \/ GiveUp(t)
  BY <1>2, DeleteTakeTable, DeleteFreeTable, DeleteSemTable, PlainTable, SemTable DEF Finish
<1> QED BY <1>1, <1>2

(* The initial states.                                                     *)
LEMMA TableInit ==
    ASSUME port_init
    PROVE  TableInductive
<1>1. PortTypeOK
  <2>1. 0 \in Ids /\ 0 \in 0 .. MaxMsgs
    BY PortAssumption DEF Ids
  <2>2. SlotType
    BY <2>1 DEF port_init, SlotType
  <2>3. HeapType /\ QueueType
    BY <2>1 DEF port_init, HeapType, QueueType, Points, Faults
  <2> QED BY <2>2, <2>3, TypeParts
<1>2. \A x \in Sems : waitq[x] = <<>>
  BY DEF port_init
<1>3. WaitInv
  BY <1>2 DEF WaitInv, Distinct, Contains
<1>4. \A s \in Slots : pid[s] = -1
  BY DEF port_init
<1>5. \A t \in Threads : pc[t] = "run"
  BY DEF port_init
<1>6. TableInv /\ DeleteInv
  BY <1>4, <1>5 DEF TableInv, DeleteInv, port_init
<1> QED BY <1>1, <1>3, <1>6 DEF TableInductive

(* create_port and delete_port racing in one slot with reads and writes,   *)
(* on one CPU: the table stays well formed, ids are not given out again,   *)
(* and no deletion frees what a slot of the table points to.               *)
THEOREM PortTableInvariant ==
    ASSUME ~Smp
    PROVE  Spec => []TableInductive
<1>1. port_init => TableInductive
  BY TableInit
<1>2. TableInductive /\ [Next]_vars => TableInductive'
  <2>1. SUFFICES ASSUME TableInductive, [Next]_vars
                 PROVE  TableInductive'
    OBVIOUS
  <2>2. CASE Next
    <3>1. PICK t \in Threads : MayRun(t) /\ (Call(t) \/ Finish(t) \/ GiveUp(t))
      BY <2>2 DEF Next
    <3>2. \A u \in Threads \ {t} : pc[u] # "dtake"
      BY <3>1 DEF MayRun
    <3> QED BY <2>1, <3>1, <3>2, TableStep
  <2>3. CASE UNCHANGED vars
    BY <2>1, <2>3 DEF vars, TableInductive, PortTypeOK, WaitInv, TableInv, DeleteInv, SlotOf
  <2> QED BY <2>1, <2>2, <2>3
<1> QED BY <1>1, <1>2, PTL DEF Spec

(* create_port and delete_port on one CPU, racing in one slot with reads   *)
(* and writes, leave every port in the table with its own ring.            *)
THEOREM PortTableKeptAlways ==
    ASSUME ~Smp
    PROVE  Spec => []PortTableKept
<1>1. TableInductive => PortTableKept
  BY DEF TableInductive, TableInv, PortTableKept, LivePortHasRing
<1> QED BY <1>1, PortTableInvariant, PTL

-----------------------------------------------------------------------------
(* Counting threads.                                                       *)

Bit(b) == IF b THEN 1 ELSE 0

InW(t, p) == pc[t] \in {"wfill", "rrel"} /\ tgen[t] = p
InR(t, p) == pc[t] \in {"rtake", "wrel"} /\ tgen[t] = p
InB(t, p) == pc[t] = "bpeek" /\ tid[t] = p

CountW(p) == Cardinality({t \in Threads : InW(t, p)})
CountR(p) == Cardinality({t \in Threads : InR(t, p)})
CountB(p) == Cardinality({t \in Threads : InB(t, p)})

(* One thread comes or goes.                                               *)
LEMMA CardOne ==
    ASSUME NEW S \in SUBSET Threads, NEW T \in SUBSET Threads, NEW t \in Threads,
           \A u \in Threads : u # t => (u \in T <=> u \in S)
    PROVE  /\ Cardinality(S) \in Nat /\ Cardinality(T) \in Nat
           /\ Cardinality(T) = Cardinality(S) + Bit(t \in T) - Bit(t \in S)
<1>1. IsFiniteSet(S) /\ IsFiniteSet(T) /\ IsFiniteSet(S \ {t})
  BY PortAssumption, FS_Subset
<1>2. Cardinality(S) \in Nat /\ Cardinality(T) \in Nat /\ Cardinality(S \ {t}) \in Nat
  BY <1>1, FS_CardinalityType
<1>3. ASSUME NEW U \in SUBSET Threads, U \ {t} = S \ {t}
      PROVE  Cardinality(U) = Cardinality(S \ {t}) + Bit(t \in U)
  <2>1. CASE t \in U
    <3>1. U = (S \ {t}) \cup {t} /\ t \notin S \ {t}
      BY <1>3, <2>1
    <3>2. Cardinality((S \ {t}) \cup {t}) = Cardinality(S \ {t}) + 1
      BY <1>1, FS_AddElement
    <3> QED BY <2>1, <3>1, <3>2 DEF Bit
  <2>2. CASE t \notin U
    <3>1. U = S \ {t}
      BY <1>3, <2>2
    <3> QED BY <1>2, <2>2, <3>1 DEF Bit
  <2> QED BY <2>1, <2>2
<1>4. Cardinality(S) = Cardinality(S \ {t}) + Bit(t \in S)
  BY <1>3
<1>5. Cardinality(T) = Cardinality(S \ {t}) + Bit(t \in T)
  <2>1. T \ {t} = S \ {t}
    OBVIOUS
  <2> QED BY <1>3, <2>1
<1>6. Bit(t \in S) \in Int /\ Bit(t \in T) \in Int
  BY DEF Bit
<1> QED BY <1>2, <1>4, <1>5, <1>6

(* Two threads do.                                                         *)
LEMMA CardTwo ==
    ASSUME NEW S \in SUBSET Threads, NEW T \in SUBSET Threads,
           NEW t \in Threads, NEW h \in Threads, t # h,
           \A u \in Threads : u \notin {t, h} => (u \in T <=> u \in S)
    PROVE  /\ Cardinality(S) \in Nat /\ Cardinality(T) \in Nat
           /\ Cardinality(T) = Cardinality(S) + Bit(t \in T) - Bit(t \in S)
                               + Bit(h \in T) - Bit(h \in S)
<1>1. PICK M \in SUBSET Threads : M = (S \ {t}) \cup (T \cap {t})
  OBVIOUS
<1>2. \A u \in Threads : u # t => (u \in M <=> u \in S)
  BY <1>1
<1>3. \A u \in Threads : u # h => (u \in T <=> u \in M)
  BY <1>1
<1>4. (t \in M <=> t \in T) /\ (h \in M <=> h \in S)
  BY <1>1
<1>5. /\ Cardinality(S) \in Nat /\ Cardinality(M) \in Nat
      /\ Cardinality(M) = Cardinality(S) + Bit(t \in M) - Bit(t \in S)
  BY <1>2, CardOne
<1>6. /\ Cardinality(T) \in Nat
      /\ Cardinality(T) = Cardinality(M) + Bit(h \in T) - Bit(h \in M)
  BY <1>3, CardOne
<1>7. Bit(t \in M) = Bit(t \in T) /\ Bit(h \in M) = Bit(h \in S)
  BY <1>4 DEF Bit
<1>8. Bit(t \in T) \in Int /\ Bit(t \in S) \in Int /\ Bit(h \in T) \in Int /\ Bit(h \in S) \in Int
  BY DEF Bit
<1> QED BY <1>5, <1>6, <1>7, <1>8

(* The numbers of threads that hold permissions are natural numbers.       *)
LEMMA CountTypes ==
    ASSUME NEW p
    PROVE  CountW(p) \in Nat /\ CountR(p) \in Nat /\ CountB(p) \in Nat
<1>1. \A S \in SUBSET Threads : Cardinality(S) \in Nat
  BY PortAssumption, FS_Subset, FS_CardinalityType
<1> QED BY <1>1 DEF CountW, CountR, CountB

(* One thread moves.                                                       *)
LEMMA OneMoves ==
    ASSUME NEW t \in Threads, NEW p,
           \A u \in Threads : u # t => pc'[u] = pc[u] /\ tgen'[u] = tgen[u] /\ tid'[u] = tid[u]
    PROVE  /\ CountW(p)' = CountW(p) + Bit(InW(t, p)') - Bit(InW(t, p))
           /\ CountR(p)' = CountR(p) + Bit(InR(t, p)') - Bit(InR(t, p))
           /\ CountB(p)' = CountB(p) + Bit(InB(t, p)') - Bit(InB(t, p))
<1>1. \A u \in Threads : u # t => /\ InW(u, p)' <=> InW(u, p)
                                  /\ InR(u, p)' <=> InR(u, p)
                                  /\ InB(u, p)' <=> InB(u, p)
  BY DEF InW, InR, InB
<1>2. CountW(p)' = CountW(p) + Bit(InW(t, p)') - Bit(InW(t, p))
  <2>1. PICK S \in SUBSET Threads : S = {u \in Threads : InW(u, p)}
    OBVIOUS
  <2>2. PICK T \in SUBSET Threads : T = {u \in Threads : InW(u, p)'}
    OBVIOUS
  <2>3. \A u \in Threads : u # t => (u \in T <=> u \in S)
    BY <1>1, <2>1, <2>2
  <2>4. Cardinality(T) = Cardinality(S) + Bit(t \in T) - Bit(t \in S)
    BY <2>3, CardOne
  <2>5. Bit(t \in T) = Bit(InW(t, p)') /\ Bit(t \in S) = Bit(InW(t, p))
    BY <2>1, <2>2 DEF Bit
  <2> QED BY <2>1, <2>2, <2>4, <2>5 DEF CountW
<1>3. CountR(p)' = CountR(p) + Bit(InR(t, p)') - Bit(InR(t, p))
  <2>1. PICK S \in SUBSET Threads : S = {u \in Threads : InR(u, p)}
    OBVIOUS
  <2>2. PICK T \in SUBSET Threads : T = {u \in Threads : InR(u, p)'}
    OBVIOUS
  <2>3. \A u \in Threads : u # t => (u \in T <=> u \in S)
    BY <1>1, <2>1, <2>2
  <2>4. Cardinality(T) = Cardinality(S) + Bit(t \in T) - Bit(t \in S)
    BY <2>3, CardOne
  <2>5. Bit(t \in T) = Bit(InR(t, p)') /\ Bit(t \in S) = Bit(InR(t, p))
    BY <2>1, <2>2 DEF Bit
  <2> QED BY <2>1, <2>2, <2>4, <2>5 DEF CountR
<1>4. CountB(p)' = CountB(p) + Bit(InB(t, p)') - Bit(InB(t, p))
  <2>1. PICK S \in SUBSET Threads : S = {u \in Threads : InB(u, p)}
    OBVIOUS
  <2>2. PICK T \in SUBSET Threads : T = {u \in Threads : InB(u, p)'}
    OBVIOUS
  <2>3. \A u \in Threads : u # t => (u \in T <=> u \in S)
    BY <1>1, <2>1, <2>2
  <2>4. Cardinality(T) = Cardinality(S) + Bit(t \in T) - Bit(t \in S)
    BY <2>3, CardOne
  <2>5. Bit(t \in T) = Bit(InB(t, p)') /\ Bit(t \in S) = Bit(InB(t, p))
    BY <2>1, <2>2 DEF Bit
  <2> QED BY <2>1, <2>2, <2>4, <2>5 DEF CountB
<1> QED BY <1>2, <1>3, <1>4

(* Two threads move: one releases a unit, the other had waited for it.     *)
LEMMA TwoMove ==
    ASSUME NEW t \in Threads, NEW h \in Threads, t # h, NEW p,
           \A u \in Threads : u \notin {t, h} => pc'[u] = pc[u],
           tgen' = tgen, tid' = tid
    PROVE  /\ CountW(p)' = CountW(p) + Bit(InW(t, p)') - Bit(InW(t, p))
                           + Bit(InW(h, p)') - Bit(InW(h, p))
           /\ CountR(p)' = CountR(p) + Bit(InR(t, p)') - Bit(InR(t, p))
                           + Bit(InR(h, p)') - Bit(InR(h, p))
           /\ CountB(p)' = CountB(p) + Bit(InB(t, p)') - Bit(InB(t, p))
                           + Bit(InB(h, p)') - Bit(InB(h, p))
<1>1. \A u \in Threads : u \notin {t, h} => /\ InW(u, p)' <=> InW(u, p)
                                            /\ InR(u, p)' <=> InR(u, p)
                                            /\ InB(u, p)' <=> InB(u, p)
  BY DEF InW, InR, InB
<1>2. CountW(p)' = CountW(p) + Bit(InW(t, p)') - Bit(InW(t, p))
                                + Bit(InW(h, p)') - Bit(InW(h, p))
  <2>1. PICK S \in SUBSET Threads : S = {u \in Threads : InW(u, p)}
    OBVIOUS
  <2>2. PICK T \in SUBSET Threads : T = {u \in Threads : InW(u, p)'}
    OBVIOUS
  <2>3. \A u \in Threads : u \notin {t, h} => (u \in T <=> u \in S)
    BY <1>1, <2>1, <2>2
  <2>4. Cardinality(T) = Cardinality(S) + Bit(t \in T) - Bit(t \in S)
                                        + Bit(h \in T) - Bit(h \in S)
    BY <2>3, CardTwo
  <2>5. /\ Bit(t \in T) = Bit(InW(t, p)') /\ Bit(t \in S) = Bit(InW(t, p))
        /\ Bit(h \in T) = Bit(InW(h, p)') /\ Bit(h \in S) = Bit(InW(h, p))
    BY <2>1, <2>2 DEF Bit
  <2> QED BY <2>1, <2>2, <2>4, <2>5 DEF CountW
<1>3. CountR(p)' = CountR(p) + Bit(InR(t, p)') - Bit(InR(t, p))
                                + Bit(InR(h, p)') - Bit(InR(h, p))
  <2>1. PICK S \in SUBSET Threads : S = {u \in Threads : InR(u, p)}
    OBVIOUS
  <2>2. PICK T \in SUBSET Threads : T = {u \in Threads : InR(u, p)'}
    OBVIOUS
  <2>3. \A u \in Threads : u \notin {t, h} => (u \in T <=> u \in S)
    BY <1>1, <2>1, <2>2
  <2>4. Cardinality(T) = Cardinality(S) + Bit(t \in T) - Bit(t \in S)
                                        + Bit(h \in T) - Bit(h \in S)
    BY <2>3, CardTwo
  <2>5. /\ Bit(t \in T) = Bit(InR(t, p)') /\ Bit(t \in S) = Bit(InR(t, p))
        /\ Bit(h \in T) = Bit(InR(h, p)') /\ Bit(h \in S) = Bit(InR(h, p))
    BY <2>1, <2>2 DEF Bit
  <2> QED BY <2>1, <2>2, <2>4, <2>5 DEF CountR
<1>4. CountB(p)' = CountB(p) + Bit(InB(t, p)') - Bit(InB(t, p))
                                + Bit(InB(h, p)') - Bit(InB(h, p))
  <2>1. PICK S \in SUBSET Threads : S = {u \in Threads : InB(u, p)}
    OBVIOUS
  <2>2. PICK T \in SUBSET Threads : T = {u \in Threads : InB(u, p)'}
    OBVIOUS
  <2>3. \A u \in Threads : u \notin {t, h} => (u \in T <=> u \in S)
    BY <1>1, <2>1, <2>2
  <2>4. Cardinality(T) = Cardinality(S) + Bit(t \in T) - Bit(t \in S)
                                        + Bit(h \in T) - Bit(h \in S)
    BY <2>3, CardTwo
  <2>5. /\ Bit(t \in T) = Bit(InB(t, p)') /\ Bit(t \in S) = Bit(InB(t, p))
        /\ Bit(h \in T) = Bit(InB(h, p)') /\ Bit(h \in S) = Bit(InB(h, p))
    BY <2>1, <2>2 DEF Bit
  <2> QED BY <2>1, <2>2, <2>4, <2>5 DEF CountB
<1> QED BY <1>2, <1>3, <1>4

(* What the permissions to write, and those to read, come to.              *)
Load(p) == units[<<"write", p>>] + CountW(p) + Pending(p)
Credit(p) == units[<<"read", p>>] + CountR(p) + CountB(p) - Pending(p)

(* UnitsBacked in terms of these numbers.                                  *)
LEMMA UnitsBackedIs ==
    UnitsBacked <=> \A s \in Slots : pid[s] # -1 =>
       /\ units[<<"write", pid[s]>>] + CountW(pid[s])
             + Len(sent[pid[s]]) - Len(got[pid[s]]) <= capacity[s]
       /\ units[<<"read", pid[s]>>] + CountR(pid[s]) + CountB(pid[s])
             = Len(sent[pid[s]]) - Len(got[pid[s]])
<1>1. ASSUME NEW p
      PROVE  /\ CountW(p) = Cardinality(At({"wfill", "rrel"}, p))
             /\ CountR(p) = Cardinality(At({"rtake", "wrel"}, p))
             /\ CountB(p) = Cardinality({t \in Threads : pc[t] = "bpeek" /\ tid[t] = p})
  BY DEF CountW, CountR, CountB, InW, InR, InB, At
<1> QED BY <1>1 DEF UnitsBacked, PlacesBacked, MessagesBacked

(* The same after a step.                                                  *)
LEMMA UnitsBackedNext ==
    ASSUME \A s \in Slots, p \in Ids : pid'[s] = p =>
              /\ units'[<<"write", p>>] + CountW(p)' + Len(sent'[p]) - Len(got'[p])
                    <= capacity'[s]
              /\ units'[<<"read", p>>] + CountR(p)' + CountB(p)'
                    = Len(sent'[p]) - Len(got'[p]),
           pid' \in [Slots -> Ids \cup {-1}]
    PROVE  UnitsBacked'
<1>1. ASSUME NEW s \in Slots, pid'[s] # -1
      PROVE  /\ units'[<<"write", pid'[s]>>]
                   + Cardinality({t \in Threads : pc'[t] \in {"wfill", "rrel"} /\ tgen'[t] = pid'[s]})
                   + Len(sent'[pid'[s]]) - Len(got'[pid'[s]]) <= capacity'[s]
             /\ units'[<<"read", pid'[s]>>]
                   + Cardinality({t \in Threads : pc'[t] \in {"rtake", "wrel"} /\ tgen'[t] = pid'[s]})
                   + Cardinality({t \in Threads : pc'[t] = "bpeek" /\ tid'[t] = pid'[s]})
                   = Len(sent'[pid'[s]]) - Len(got'[pid'[s]])
  <2>1. PICK p \in Ids : p = pid'[s]
    BY <1>1
  <2>2. /\ CountW(p)' = Cardinality({t \in Threads : pc'[t] \in {"wfill", "rrel"} /\ tgen'[t] = p})
        /\ CountR(p)' = Cardinality({t \in Threads : pc'[t] \in {"rtake", "wrel"} /\ tgen'[t] = p})
        /\ CountB(p)' = Cardinality({t \in Threads : pc'[t] = "bpeek" /\ tid'[t] = p})
    BY DEF CountW, CountR, CountB, InW, InR, InB
  <2> QED BY <2>1, <2>2
<1> QED BY <1>1 DEF UnitsBacked, PlacesBacked, MessagesBacked, At

(* The terms of the accounts are numbers.                                  *)
LEMMA LoadTypes ==
    ASSUME units \in [Sems -> Nat], OrderInv, NEW p \in Ids
    PROVE  /\ units[<<"write", p>>] \in Nat /\ units[<<"read", p>>] \in Nat
           /\ Len(sent[p]) \in Nat /\ Len(got[p]) \in Nat /\ Pending(p) \in Int
           /\ CountW(p) \in Nat /\ CountR(p) \in Nat /\ CountB(p) \in Nat
           /\ sent[p] \in Seq(Messages) /\ got[p] \in Seq(Messages)
<1>1. <<"write", p>> \in Sems /\ <<"read", p>> \in Sems
  BY DEF Sems
<1>2. units[<<"write", p>>] \in Nat /\ units[<<"read", p>>] \in Nat
  BY <1>1
<1>3. Len(sent[p]) \in Nat /\ Len(got[p]) \in Nat
  BY DEF OrderInv
<1> QED BY <1>2, <1>3, CountTypes DEF Pending, OrderInv

(* No port gains permissions.                                              *)
LEMMA UnitsStep ==
    ASSUME units \in [Sems -> Nat], units' \in [Sems -> Nat], OrderInv, OrderInv',
           pid \in [Slots -> Ids \cup {-1}], capacity \in [Slots -> Nat],
           UnitsBacked, pid' = pid, capacity' = capacity,
           \A p \in Ids : Load(p)' <= Load(p) /\ Credit(p)' = Credit(p)
    PROVE  UnitsBacked'
<1>1. SUFFICES ASSUME NEW s \in Slots, NEW p \in Ids, pid[s] = p
               PROVE  /\ units'[<<"write", p>>] + CountW(p)' + Len(sent'[p]) - Len(got'[p])
                            <= capacity[s]
                      /\ units'[<<"read", p>>] + CountR(p)' + CountB(p)'
                            = Len(sent'[p]) - Len(got'[p])
  BY UnitsBackedNext
<1>2. p # -1
  BY DEF Ids
<1>3. /\ units[<<"write", p>>] + CountW(p) + Len(sent[p]) - Len(got[p]) <= capacity[s]
      /\ units[<<"read", p>>] + CountR(p) + CountB(p) = Len(sent[p]) - Len(got[p])
  BY <1>1, <1>2, UnitsBackedIs
<1>4. /\ units[<<"write", p>>] \in Nat /\ units[<<"read", p>>] \in Nat
      /\ Len(sent[p]) \in Nat /\ Len(got[p]) \in Nat
      /\ CountW(p) \in Nat /\ CountR(p) \in Nat /\ CountB(p) \in Nat
  BY LoadTypes
<1>5. /\ units'[<<"write", p>>] \in Nat /\ units'[<<"read", p>>] \in Nat
      /\ Len(sent'[p]) \in Nat /\ Len(got'[p]) \in Nat
      /\ CountW(p)' \in Nat /\ CountR(p)' \in Nat /\ CountB(p)' \in Nat
  <2>1. <<"write", p>> \in Sems /\ <<"read", p>> \in Sems
    BY DEF Sems
  <2>2. \A S \in SUBSET Threads : Cardinality(S) \in Nat
    BY PortAssumption, FS_Subset, FS_CardinalityType
  <2>3. CountW(p)' \in Nat /\ CountR(p)' \in Nat /\ CountB(p)' \in Nat
    BY <2>2 DEF CountW, CountR, CountB
  <2> QED BY <2>1, <2>3 DEF OrderInv
<1>6. capacity[s] \in Nat
  OBVIOUS
<1>7. /\ units'[<<"write", p>>] + CountW(p)' + (Len(sent'[p]) - Len(got'[p]))
            <= units[<<"write", p>>] + CountW(p) + (Len(sent[p]) - Len(got[p]))
      /\ units'[<<"read", p>>] + CountR(p)' + CountB(p)' - (Len(sent'[p]) - Len(got'[p]))
            = units[<<"read", p>>] + CountR(p) + CountB(p) - (Len(sent[p]) - Len(got[p]))
  BY DEF Load, Credit, Pending
<1>8. /\ units'[<<"write", p>>] + CountW(p)' + Len(sent'[p]) - Len(got'[p]) <= capacity[s]
      /\ units'[<<"read", p>>] + CountR(p)' + CountB(p)' = Len(sent'[p]) - Len(got'[p])
  <2>1. PICK a \in Nat, b \in Nat, l \in Nat, g \in Nat, w \in Nat, r \in Nat, z \in Nat :
           /\ a = units[<<"write", p>>] /\ b = units[<<"read", p>>] /\ l = Len(sent[p])
           /\ g = Len(got[p]) /\ w = CountW(p) /\ r = CountR(p) /\ z = CountB(p)
    BY <1>4
  <2>2. PICK a1 \in Nat, b1 \in Nat, l1 \in Nat, g1 \in Nat, w1 \in Nat, r1 \in Nat, z1 \in Nat :
           /\ a1 = units'[<<"write", p>>] /\ b1 = units'[<<"read", p>>] /\ l1 = Len(sent'[p])
           /\ g1 = Len(got'[p]) /\ w1 = CountW(p)' /\ r1 = CountR(p)' /\ z1 = CountB(p)'
    BY <1>5
  <2>3. PICK k \in Nat : k = capacity[s]
    BY <1>6
  <2>4. a + w + l - g <= k /\ b + r + z = l - g
    BY <1>3, <2>1, <2>3
  <2>5. /\ a1 + w1 + (l1 - g1) <= a + w + (l - g)
        /\ b1 + r1 + z1 - (l1 - g1) = b + r + z - (l - g)
    BY <1>7, <2>1, <2>2
  <2>6. a1 + w1 + l1 - g1 <= k /\ b1 + r1 + z1 = l1 - g1
    BY <2>4, <2>5
  <2> QED BY <2>2, <2>3, <2>6
<1> QED BY <1>8

-----------------------------------------------------------------------------
(* The ring.                                                               *)

(* Going round the ring: places are distinct until it is full.             *)
LEMMA PlaceFacts ==
    ASSUME NEW cap \in Nat \ {0}, NEW k \in 0 .. cap - 1
    PROVE  /\ Place(k, 0, cap) = k /\ Place(k, 1, cap) = After(k, cap)
           /\ \A i \in 0 .. cap : Place(k, i, cap) \in 0 .. cap - 1
           /\ \A i \in 0 .. cap - 1 :
                 /\ Place(After(k, cap), i, cap) = Place(k, i + 1, cap)
                 /\ After(Place(k, i, cap), cap) = Place(k, i + 1, cap)
           /\ \A i, j \in 0 .. cap - 1 : Place(k, i, cap) = Place(k, j, cap) => i = j
<1>1. After(k, cap) = IF k + 1 < cap THEN k + 1 ELSE 0
  BY AfterFacts
<1>2. Place(k, 0, cap) = k /\ Place(k, 1, cap) = After(k, cap)
  BY <1>1 DEF Place
<1>3. \A i \in 0 .. cap : Place(k, i, cap) \in 0 .. cap - 1
  BY DEF Place
<1>4. ASSUME NEW i \in 0 .. cap - 1
      PROVE  /\ Place(After(k, cap), i, cap) = Place(k, i + 1, cap)
             /\ After(Place(k, i, cap), cap) = Place(k, i + 1, cap)
  <2>1. Place(After(k, cap), i, cap) = Place(k, i + 1, cap)
    BY <1>1 DEF Place
  <2>2. PICK q \in 0 .. cap - 1 : q = Place(k, i, cap)
    BY <1>3
  <2>3. After(q, cap) = IF q + 1 < cap THEN q + 1 ELSE 0
    BY AfterFacts
  <2> QED BY <2>1, <2>2, <2>3 DEF Place
<1>5. \A i, j \in 0 .. cap - 1 : Place(k, i, cap) = Place(k, j, cap) => i = j
  BY DEF Place
<1> QED BY <1>2, <1>3, <1>4, <1>5

(* RingInv, one port at a time.                                            *)
RingOf(s, p) ==
    /\ DOMAIN ring[p] = 0 .. capacity[s] - 1
    /\ head[s] \in 0 .. capacity[s] - 1 /\ tail[s] \in 0 .. capacity[s] - 1
    /\ Pending(p) >= 0 /\ head[s] = Place(tail[s], Pending(p), capacity[s])
    /\ \A i \in 0 .. Pending(p) - 1 :
          ring[p][Place(tail[s], i, capacity[s])]
             = [code |-> sent[p][Len(got[p]) + i + 1],
                buf |-> Buf(sent[p][Len(got[p]) + i + 1])]

(* The ring of one port in the table.                                      *)
LEMMA RingIs ==
    ASSUME RingInv, NEW s \in Slots, NEW p \in Ids, pid[s] = p
    PROVE  RingOf(s, p)
<1>1. p # -1
  BY DEF Ids
<1> QED BY <1>1 DEF RingInv, RingOf

(* The rings of all ports after a step.                                    *)
LEMMA RingNext ==
    ASSUME pid' \in [Slots -> Ids \cup {-1}],
           \A s \in Slots, p \in Ids : pid'[s] = p => RingOf(s, p)'
    PROVE  RingInv'
<1>1. SUFFICES ASSUME NEW s \in Slots, pid'[s] # -1
               PROVE  /\ DOMAIN ring'[pid'[s]] = 0 .. capacity'[s] - 1
                      /\ head'[s] \in 0 .. capacity'[s] - 1 /\ tail'[s] \in 0 .. capacity'[s] - 1
                      /\ Len(sent'[pid'[s]]) - Len(got'[pid'[s]]) >= 0
                      /\ head'[s] = Place(tail'[s], Len(sent'[pid'[s]]) - Len(got'[pid'[s]]), capacity'[s])
                      /\ \A i \in 0 .. (Len(sent'[pid'[s]]) - Len(got'[pid'[s]])) - 1 :
                            ring'[pid'[s]][Place(tail'[s], i, capacity'[s])]
                               = [code |-> sent'[pid'[s]][Len(got'[pid'[s]]) + i + 1],
                                  buf |-> Buf(sent'[pid'[s]][Len(got'[pid'[s]]) + i + 1])]
  BY DEF RingInv, Pending, Place, Buf
<1>2. PICK p \in Ids : p = pid'[s]
  BY <1>1
<1>3. RingOf(s, p)'
  BY <1>2
<1> QED BY <1>2, <1>3 DEF RingOf, Pending, Place, Buf

(* A port whose ring, places and messages are left alone.                  *)
LEMMA RingSame ==
    ASSUME NEW s \in Slots, NEW p \in Ids, RingOf(s, p),
           ring'[p] = ring[p], head'[s] = head[s], tail'[s] = tail[s],
           capacity'[s] = capacity[s], sent'[p] = sent[p], got'[p] = got[p]
    PROVE  RingOf(s, p)'
BY DEF RingOf, Pending, Place, Buf

-----------------------------------------------------------------------------
(* What a step without deletions leaves alone.                             *)

KeepFrame ==
    /\ pid' = pid /\ gen' = gen /\ capacity' = capacity /\ next_port' = next_port
    /\ plock' = plock /\ freed' = freed /\ live' = live /\ fault' = fault

(* A step that leaves the table alone, without deletions.                  *)
LEMMA KeepTableStep ==
    ASSUME KeepTable, KeepFrame, DOMAIN ring' = DOMAIN ring, DOMAIN tmsg' = DOMAIN tmsg,
           \A u \in Threads : pc'[u] \notin {"dtake", "dfree", "dread", "dwrite"},
           \A p \in Ids : p >= next_port =>
              /\ units'[<<"read", p>>] = units[<<"read", p>>]
              /\ sent'[p] = sent[p] /\ got'[p] = got[p]
    PROVE  KeepTable'
BY DEF KeepTable, KeepFrame

(* A step in which threads stay in their calls or enter one.               *)
LEMMA CallStep ==
    ASSUME CallInv, pid' = pid,
           \A u \in Threads : pc'[u] # "run" =>
              \/ pc[u] # "run" /\ tid'[u] = tid[u]
              \/ pid[SlotOf(tid'[u])] = tid'[u],
           \A u \in Threads : pc'[u] \notin {"run", "bacq", "bwait", "bpeek"} =>
              \/ /\ pc[u] \notin {"run", "bacq", "bwait", "bpeek"}
                 /\ tgen'[u] = tgen[u] /\ tid'[u] = tid[u]
              \/ tgen'[u] = tid'[u],
           \A x \in Sems, u \in Threads : Contains(waitq'[x], u) =>
              \/ Contains(waitq[x], u) /\ pc'[u] = pc[u] /\ tid'[u] = tid[u]
              \/ x[2] = tid'[u] /\ (x[1] = "write" <=> pc'[u] = "wwait")
    PROVE  CallInv'
<1>1. \A u \in Threads : pc'[u] # "run" => pid'[SlotOf(tid'[u])] = tid'[u]
  BY DEF CallInv
<1>2. \A u \in Threads : pc'[u] \notin {"run", "bacq", "bwait", "bpeek"} => tgen'[u] = tid'[u]
  BY DEF CallInv
<1>3. \A x \in Sems, u \in Threads : Contains(waitq'[x], u) =>
         x[2] = tid'[u] /\ (x[1] = "write" <=> pc'[u] = "wwait")
  <2>1. SUFFICES ASSUME NEW x \in Sems, NEW u \in Threads, Contains(waitq'[x], u)
                 PROVE  x[2] = tid'[u] /\ (x[1] = "write" <=> pc'[u] = "wwait")
    OBVIOUS
  <2>2. CASE Contains(waitq[x], u) /\ pc'[u] = pc[u] /\ tid'[u] = tid[u]
    BY <2>2 DEF CallInv
  <2> QED BY <2>1, <2>2
<1> QED BY <1>1, <1>2, <1>3 DEF CallInv, SlotOf

(* A step in which nothing is sent or read.                                *)
LEMMA OrderSame ==
    ASSUME OrderInv, sent' = sent, got' = got
    PROVE  OrderInv'
BY DEF OrderInv

(* A step in which no thread gets a message it did not have.               *)
LEMMA MsgShrink ==
    ASSUME MsgInv, sent' = sent, got' = got, nmsg' = nmsg, freedBufs' = freedBufs,
           \A u \in Threads : pc'[u] \in {"wacq", "wwait", "wfill", "rrel"} => tmsg'[u] = tmsg[u],
           \A u \in Threads : pc'[u] \in {"wacq", "wwait", "wfill"} =>
              pc[u] \in {"wacq", "wwait", "wfill"},
           \A u \in Threads : pc'[u] = "rrel" => pc[u] = "rrel"
    PROVE  MsgInv'
<1>1. Writers' \subseteq Writers /\ \A u \in Writers' : tmsg'[u] = tmsg[u]
  BY DEF Writers
<1>2. Readers' \subseteq Readers /\ \A u \in Readers' : tmsg'[u] = tmsg[u]
  BY DEF Readers
<1> QED BY <1>1, <1>2 DEF MsgInv

KeepRest == KeepTable /\ CallInv /\ OrderInv /\ RingInv /\ UnitsBacked /\ MsgInv

(* The parts of the inductive invariant.                                   *)
LEMMA KeepParts ==
    ASSUME KeepInductive
    PROVE  /\ SlotType /\ HeapType /\ QueueType /\ PortTypeOK /\ WaitInv /\ TableInv
           /\ KeepTable /\ CallInv /\ OrderInv /\ RingInv /\ UnitsBacked /\ MsgInv
           /\ units \in [Sems -> Nat] /\ pid \in [Slots -> Ids \cup {-1}]
           /\ capacity \in [Slots -> Nat]
<1>1. PortTypeOK /\ WaitInv /\ TableInv
  BY DEF KeepInductive
<1>2. SlotType /\ HeapType /\ QueueType
  BY <1>1, TypeParts
<1> QED BY <1>1, <1>2 DEF KeepInductive, SlotType, HeapType

(* Without deletions the table is kept on any number of CPUs.              *)
LEMMA KeepBase ==
    ASSUME KeepInductive, NEW t \in Threads, Call(t) \/ Finish(t) \/ GiveUp(t)
    PROVE  PortTypeOK' /\ WaitInv' /\ TableInv' /\ units' \in [Sems -> Nat]
           /\ pid' \in [Slots -> Ids \cup {-1}]
<1>1. \A u \in Threads : pc[u] \notin {"dtake", "dfree"}
  BY DEF KeepInductive, KeepTable
<1>2. TableInductive
  BY <1>1 DEF KeepInductive, TableInductive, DeleteInv
<1>3. TableInductive'
  BY <1>1, <1>2, TableStep
<1>4. SlotType' /\ HeapType'
  BY <1>3, TypePartsNext DEF TableInductive
<1> QED BY <1>3, <1>4 DEF TableInductive, SlotType, HeapType

(* A thread inside a call has a port, which is there.                      *)
LEMMA InsideFacts ==
    ASSUME KeepInductive, NEW t \in Threads, pc[t] # "run"
    PROVE  \E s \in Slots, p \in Ids :
              /\ s = SlotOf(tid[t]) /\ p = tid[t] /\ pid[s] = p /\ gen[s] = p
              /\ p < next_port /\ next_port \in Nat /\ capacity[s] \in Nat \ {0}
              /\ <<"read", p>> \in Sems /\ <<"write", p>> \in Sems
              /\ live[<<"read", p>>] /\ live[<<"write", p>>]
<1>1. PICK p \in Ids : p = tid[t]
  BY KeepParts DEF HeapType
<1>2. PICK s \in Slots : s = SlotOf(p)
  BY SlotOfType
<1>3. pid[s] = p /\ p # -1
  BY <1>1, <1>2, KeepParts DEF CallInv, Ids
<1>4. gen[s] = p /\ p < next_port /\ capacity[s] \in Nat \ {0}
  BY <1>3, KeepParts, PortAssumption DEF TableInv
<1>5. <<"read", p>> \in Sems /\ <<"write", p>> \in Sems
  BY DEF Sems
<1>6. live[<<"read", p>>] /\ live[<<"write", p>>] /\ next_port \in Nat
  BY <1>3, KeepParts DEF KeepTable, SlotType
<1> QED BY <1>1, <1>2, <1>3, <1>4, <1>5, <1>6

(* Two ports in the table are the same when they are in one slot.          *)
LEMMA OneSlot ==
    ASSUME KeepInductive, NEW s \in Slots, NEW r \in Slots, NEW p \in Ids, NEW q \in Ids,
           pid[s] = p, pid[r] = q
    PROVE  s = r <=> p = q
<1>1. SlotOf(p) = s /\ SlotOf(q) = r
  BY KeepParts DEF TableInv, Ids
<1> QED BY <1>1

(* What a thread does at its semaphore when the semaphore is there.        *)
LEMMA AcquireKeep ==
    ASSUME KeepInductive, NEW t \in Threads, NEW x \in Sems, NEW g, NEW w \in WaitPoints,
           NEW f, pc[t] \notin WaitPoints, live[x], Acquire(t, x, g, w, f)
    PROVE  /\ live' = live
           /\ \/ /\ units[x] > 0 /\ units' = [units EXCEPT ![x] = @ - 1]
                 /\ pc' = [pc EXCEPT ![t] = g] /\ waitq' = waitq
              \/ /\ units' = units /\ pc' = [pc EXCEPT ![t] = w]
                 /\ \A y \in Sems, u \in Threads :
                       Contains(waitq'[y], u) <=> Contains(waitq[y], u) \/ (y = x /\ u = t)
<1>1. CASE /\ live[x] /\ units[x] > 0 /\ units' = [units EXCEPT ![x] = @ - 1]
           /\ Goto(t, g) /\ UNCHANGED <<live, waitq>>
  BY <1>1 DEF Goto
<1>2. CASE /\ live[x] /\ units[x] = 0 /\ waitq' = [waitq EXCEPT ![x] = Append(@, t)]
           /\ Goto(t, w) /\ UNCHANGED <<live, units>>
  <2>1. pc' = [pc EXCEPT ![t] = w] /\ units' = units /\ live' = live
    BY <1>2 DEF Goto
  <2>2. \A y \in Sems, u \in Threads :
           Contains(waitq'[y], u) <=> Contains(waitq[y], u) \/ (y = x /\ u = t)
    BY <1>2, <2>1, KeepParts, WaitJoin
  <2> QED BY <2>1, <2>2
<1> QED BY <1>1, <1>2 DEF Acquire

(* What a release does when the semaphore is there.                        *)
LEMMA ReleaseKeep ==
    ASSUME KeepInductive, NEW t \in Threads, NEW x \in Sems, pc[t] \notin WaitPoints,
           live[x], Release(t, x)
    PROVE  /\ live' = live
           /\ \/ /\ units' = [units EXCEPT ![x] = @ + 1]
                 /\ pc' = [pc EXCEPT ![t] = "run"] /\ waitq' = waitq
              \/ \E h \in Threads :
                    /\ h # t /\ Contains(waitq[x], h) /\ pc[h] \in WaitPoints
                    /\ units' = units
                    /\ pc'[t] = "run" /\ pc'[h] = Granted(pc[h])
                    /\ \A u \in Threads : u \notin {t, h} => pc'[u] = pc[u]
                    /\ \A y \in Sems, u \in Threads :
                          Contains(waitq'[y], u) <=> Contains(waitq[y], u) /\ u # h
<1>1. CASE /\ live[x] /\ waitq[x] = <<>> /\ units' = [units EXCEPT ![x] = @ + 1]
           /\ Goto(t, "run") /\ UNCHANGED <<live, waitq>>
  BY <1>1 DEF Goto
<1>2. CASE /\ live[x] /\ waitq[x] # <<>> /\ waitq' = [waitq EXCEPT ![x] = Tail(@)]
           /\ pc' = [pc EXCEPT ![t] = "run",
                               ![Head(waitq[x])] = Granted(pc[Head(waitq[x])])]
           /\ UNCHANGED <<live, units>>
  <2>0. QueueType /\ WaitInv
    BY KeepParts
  <2>1. PICK q \in Seq(Threads), h \in Threads :
           /\ q = Tail(waitq[x]) /\ h = Head(waitq[x]) /\ Contains(waitq[x], h)
           /\ Distinct(q) /\ \A u : Contains(q, u) <=> Contains(waitq[x], u) /\ u # h
    <3>1. waitq[x] \in Seq(Threads) /\ Distinct(waitq[x])
      BY <2>0 DEF QueueType, WaitInv
    <3>2. /\ Tail(waitq[x]) \in Seq(Threads) /\ Head(waitq[x]) \in Threads
          /\ Contains(waitq[x], Head(waitq[x])) /\ Distinct(Tail(waitq[x]))
          /\ \A u : Contains(Tail(waitq[x]), u) <=> Contains(waitq[x], u) /\ u # Head(waitq[x])
      BY <1>2, <3>1, TailDistinct
    <3>3. \A q, h : q = Tail(waitq[x]) /\ h = Head(waitq[x]) =>
             /\ Contains(waitq[x], h) /\ Distinct(q)
             /\ \A u : Contains(q, u) <=> Contains(waitq[x], u) /\ u # h
      BY <3>2, Zenon
    <3> QED BY <3>2, <3>3, Zenon
  <2>2. h # t /\ pc[h] \in WaitPoints
    BY <2>0, <2>1 DEF WaitInv
  <2>3. waitq' = [waitq EXCEPT ![x] = q] /\ pc' = [pc EXCEPT ![t] = "run", ![h] = Granted(pc[h])]
    BY <1>2, <2>0, <2>1 DEF QueueType
  <2>4. /\ pc'[t] = "run" /\ pc'[h] = Granted(pc[h])
        /\ \A u \in Threads : u \notin {t, h} => pc'[u] = pc[u]
    BY <2>0, <2>2, <2>3 DEF QueueType
  <2>5. \A y \in Sems, u \in Threads :
           Contains(waitq'[y], u) <=> Contains(waitq[y], u) /\ u # h
    <3>1. \A u \in Threads : u # h /\ pc[u] \in WaitPoints => pc'[u] = pc[u]
      BY <2>4
    <3> QED BY <2>0, <2>1, <2>3, <3>1, WaitLeave
  <2>6. units' = units /\ live' = live
    BY <1>2
  <2> QED BY <2>1, <2>2, <2>4, <2>5, <2>6
<1> QED BY <1>1, <1>2 DEF Release

-----------------------------------------------------------------------------
(* The semaphores' steps without deletions.                                *)

(* A step at the semaphores that leaves ring and messages alone.           *)
LEMMA SemRest ==
    ASSUME KeepInductive, NEW t \in Threads, Finish(t) \/ GiveUp(t),
           UNCHANGED slotVars, ring' = ring, freed' = freed, live' = live, fault' = fault,
           tid' = tid, tgen' = tgen, tmsg' = tmsg, UNCHANGED histVars,
           \A u \in Threads : /\ pc'[u] \notin {"dtake", "dfree", "dread", "dwrite"}
                              /\ pc'[u] # "run" => pc[u] # "run"
                              /\ pc'[u] \notin {"run", "bacq", "bwait", "bpeek"} =>
                                    pc[u] \notin {"run", "bacq", "bwait", "bpeek"},
           \A p \in Ids : p >= next_port => units'[<<"read", p>>] = units[<<"read", p>>],
           \A x \in Sems, u \in Threads : Contains(waitq'[x], u) =>
              \/ Contains(waitq[x], u) /\ pc'[u] = pc[u]
              \/ x[2] = tid[u] /\ (x[1] = "write" <=> pc'[u] = "wwait"),
           \A p \in Ids : Load(p)' <= Load(p) /\ Credit(p)' = Credit(p),
           MsgInv'
    PROVE  KeepRest'
<1>1. /\ pid' = pid /\ gen' = gen /\ capacity' = capacity /\ next_port' = next_port
      /\ plock' = plock /\ head' = head /\ tail' = tail /\ sent' = sent /\ got' = got
  BY DEF slotVars, histVars
<1>2. KeepTable'
  BY <1>1, KeepParts, KeepTableStep DEF KeepFrame
<1>3. CallInv'
  BY <1>1, KeepParts, CallStep
<1>4. OrderInv'
  BY <1>1, KeepParts, OrderSame
<1>5. RingInv'
  <2>1. \A s \in Slots, p \in Ids : pid'[s] = p => RingOf(s, p)'
    BY <1>1, KeepParts, RingIs, RingSame
  <2> QED BY <1>1, <2>1, KeepParts, RingNext
<1>6. UnitsBacked'
  BY <1>1, <1>4, KeepParts, KeepBase, UnitsStep
<1> QED BY <1>2, <1>3, <1>4, <1>5, <1>6 DEF KeepRest

(* The calls that wait: for which semaphore, from where, and where to.     *)
Waiting(k, a, g, w) ==
    \/ k = "read" /\ a = "racq" /\ g = "rtake" /\ w = "rwait"
    \/ k = "write" /\ a = "wacq" /\ g = "wfill" /\ w = "wwait"
    \/ k = "read" /\ a = "bacq" /\ g = "bpeek" /\ w = "bwait"

(* A thread that waits takes a unit or a place in the queue.               *)
LEMMA AcquireStep ==
    ASSUME KeepInductive, NEW t \in Threads, Finish(t),
           NEW k, NEW a, NEW g, NEW w, NEW f, Waiting(k, a, g, w),
           pc[t] = a, Acquire(t, <<k, tid[t]>>, g, w, f),
           UNCHANGED <<slotVars, heapVars, tid, tgen, tmsg, histVars, fault>>
    PROVE  KeepRest'
<1>0. \/ k = "read" /\ a = "racq" /\ g = "rtake" /\ w = "rwait"
      \/ k = "write" /\ a = "wacq" /\ g = "wfill" /\ w = "wwait"
      \/ k = "read" /\ a = "bacq" /\ g = "bpeek" /\ w = "bwait"
  BY DEF Waiting
<1>1. pc[t] \notin WaitPoints /\ w \in WaitPoints /\ pc[t] # "run"
  BY <1>0 DEF WaitPoints
<1>2. PICK s \in Slots, p \in Ids :
         /\ s = SlotOf(tid[t]) /\ p = tid[t] /\ pid[s] = p /\ gen[s] = p
         /\ p < next_port /\ next_port \in Nat /\ capacity[s] \in Nat \ {0}
         /\ <<"read", p>> \in Sems /\ <<"write", p>> \in Sems
         /\ live[<<"read", p>>] /\ live[<<"write", p>>]
  BY <1>1, InsideFacts
<1>3. <<k, p>> \in Sems /\ live[<<k, p>>]
  BY <1>0, <1>2
<1>4. /\ live' = live
      /\ \/ /\ units[<<k, p>>] > 0 /\ units' = [units EXCEPT ![<<k, p>>] = @ - 1]
            /\ pc' = [pc EXCEPT ![t] = g] /\ waitq' = waitq
         \/ /\ units' = units /\ pc' = [pc EXCEPT ![t] = w]
            /\ \A y \in Sems, u \in Threads :
                  Contains(waitq'[y], u) <=> Contains(waitq[y], u) \/ (y = <<k, p>> /\ u = t)
  BY <1>1, <1>2, <1>3, AcquireKeep
<1>5. /\ UNCHANGED slotVars /\ ring' = ring /\ freed' = freed /\ freedBufs' = freedBufs
      /\ fault' = fault /\ tid' = tid /\ tgen' = tgen /\ tmsg' = tmsg /\ UNCHANGED histVars
  BY DEF heapVars
<1>6. SlotType /\ HeapType /\ QueueType /\ KeepTable /\ CallInv /\ MsgInv /\ OrderInv
  BY KeepParts
<1>7. pc'[t] \in {g, w} /\ \A u \in Threads : u # t => pc'[u] = pc[u]
  BY <1>4, <1>6 DEF QueueType
<1>8. \A u \in Threads : pc[u] \notin {"dtake", "dfree", "dread", "dwrite"}
  BY <1>6 DEF KeepTable
<1>9. \A u \in Threads : /\ pc'[u] \notin {"dtake", "dfree", "dread", "dwrite"}
                         /\ pc'[u] # "run" => pc[u] # "run"
                         /\ pc'[u] \notin {"run", "bacq", "bwait", "bpeek"} =>
                               pc[u] \notin {"run", "bacq", "bwait", "bpeek"}
  BY <1>0, <1>7, <1>8
<1>10. ASSUME NEW q \in Ids, q >= next_port
       PROVE  units'[<<"read", q>>] = units[<<"read", q>>]
  <2>1. q # p
    BY <1>2, <1>10 DEF Ids
  <2>2. <<"read", q>> \in Sems /\ <<"read", q>> # <<k, p>>
    BY <2>1 DEF Sems
  <2> QED BY <1>4, <1>6, <2>2 DEF HeapType
<1>11. ASSUME NEW x \in Sems, NEW u \in Threads, Contains(waitq'[x], u)
       PROVE  \/ Contains(waitq[x], u) /\ pc'[u] = pc[u]
              \/ x[2] = tid[u] /\ (x[1] = "write" <=> pc'[u] = "wwait")
  <2>1. CASE Contains(waitq[x], u)
    <3>1. pc[u] \in WaitPoints
      BY <2>1, KeepParts DEF WaitInv
    <3> QED BY <1>1, <1>7, <2>1, <3>1
  <2>2. CASE ~Contains(waitq[x], u)
    <3>1. x = <<k, p>> /\ u = t /\ pc' = [pc EXCEPT ![t] = w]
      BY <1>4, <1>11, <2>2
    <3>2. x[1] = k /\ x[2] = p /\ pc'[u] = w
      BY <1>6, <3>1 DEF QueueType
    <3> QED BY <1>0, <1>2, <3>1, <3>2
  <2> QED BY <2>1, <2>2
<1>12. MsgInv'
  <2>1. \A u \in Threads : pc'[u] \in {"wacq", "wwait", "wfill"} =>
           pc[u] \in {"wacq", "wwait", "wfill"}
    BY <1>0, <1>7
  <2>2. \A u \in Threads : pc'[u] = "rrel" => pc[u] = "rrel"
    BY <1>0, <1>7
  <2> QED BY <1>5, <1>6, <2>1, <2>2, MsgShrink DEF histVars
<1>13. ASSUME NEW q \in Ids
       PROVE  Load(q)' <= Load(q) /\ Credit(q)' = Credit(q)
  <2>1. /\ units[<<"write", q>>] \in Nat /\ units[<<"read", q>>] \in Nat
        /\ Pending(q) \in Int
        /\ CountW(q) \in Nat /\ CountR(q) \in Nat /\ CountB(q) \in Nat
    BY KeepParts, LoadTypes
  <2>2. Pending(q)' = Pending(q)
    BY <1>5 DEF Pending, histVars
  <2>3. /\ CountW(q)' = CountW(q) + Bit(InW(t, q)') - Bit(InW(t, q))
        /\ CountR(q)' = CountR(q) + Bit(InR(t, q)') - Bit(InR(t, q))
        /\ CountB(q)' = CountB(q) + Bit(InB(t, q)') - Bit(InB(t, q))
    BY <1>5, <1>7, OneMoves
  <2>4. ~InW(t, q) /\ ~InR(t, q) /\ ~InB(t, q)
    BY <1>0 DEF InW, InR, InB
  <2>5. a # "bacq" => tgen[t] = p
    BY <1>0, <1>2, <1>6 DEF CallInv
  <2>6. CASE pc'[t] = w /\ units' = units
    <3>1. ~InW(t, q)' /\ ~InR(t, q)' /\ ~InB(t, q)'
      BY <1>0, <2>6 DEF InW, InR, InB
    <3> QED BY <2>1, <2>2, <2>3, <2>4, <2>6, <3>1 DEF Bit, Load, Credit
  <2>7. CASE pc'[t] = g /\ units' = [units EXCEPT ![<<k, p>>] = @ - 1]
    <3>1. /\ InW(t, q)' <=> k = "write" /\ q = p
          /\ InR(t, q)' <=> a = "racq" /\ q = p
          /\ InB(t, q)' <=> a = "bacq" /\ q = p
      BY <1>0, <1>2, <1>5, <2>5, <2>7 DEF InW, InR, InB
    <3>2. <<"write", q>> \in Sems /\ <<"read", q>> \in Sems
      BY DEF Sems
    <3>3. /\ units'[<<"write", q>>] = units[<<"write", q>>] - Bit(k = "write" /\ q = p)
          /\ units'[<<"read", q>>] = units[<<"read", q>>] - Bit(k = "read" /\ q = p)
      BY <1>0, <1>6, <2>1, <2>7, <3>2 DEF HeapType, Bit
    <3>4. CASE q # p
      BY <2>1, <2>2, <2>3, <2>4, <3>1, <3>3, <3>4 DEF Bit, Load, Credit
    <3>5. CASE q = p
      <4>1. CASE k = "write"
        BY <1>0, <2>1, <2>2, <2>3, <2>4, <3>1, <3>3, <3>5, <4>1 DEF Bit, Load, Credit
      <4>2. CASE k = "read" /\ a = "racq"
        BY <2>1, <2>2, <2>3, <2>4, <3>1, <3>3, <3>5, <4>2 DEF Bit, Load, Credit
      <4>3. CASE k = "read" /\ a = "bacq"
        <5>1. ~InW(t, q)' /\ ~InR(t, q)' /\ InB(t, q)'
          BY <3>1, <3>5, <4>3
        <5>2. /\ units'[<<"write", q>>] = units[<<"write", q>>]
              /\ units'[<<"read", q>>] = units[<<"read", q>>] - 1
          BY <2>1, <3>3, <3>5, <4>3 DEF Bit
        <5>3. CountW(q)' = CountW(q) /\ CountR(q)' = CountR(q) /\ CountB(q)' = CountB(q) + 1
          BY <2>1, <2>3, <2>4, <5>1 DEF Bit
        <5> QED BY <2>1, <2>2, <5>2, <5>3 DEF Load, Credit
      <4> QED BY <1>0, <4>1, <4>2, <4>3
    <3> QED BY <3>4, <3>5
  <2> QED BY <1>4, <1>6, <2>6, <2>7 DEF QueueType
<1> QED BY <1>4, <1>5, <1>9, <1>10, <1>11, <1>12, <1>13, SemRest

(* The calls that give a unit back: to which semaphore, and from where.    *)
Giving(k, b) ==
    \/ k = "write" /\ b = "rrel"
    \/ k = "read" /\ b = "wrel"
    \/ k = "read" /\ b = "bpeek"

(* A unit given back goes to the pool or to the first who waits.           *)
LEMMA ReleaseStep ==
    ASSUME KeepInductive, NEW t \in Threads, Finish(t), NEW k, NEW b, Giving(k, b),
           pc[t] = b, Release(t, <<k, tid[t]>>),
           UNCHANGED slotVars, ring' = ring, freed' = freed, fault' = fault,
           tid' = tid, tgen' = tgen, tmsg' = tmsg, UNCHANGED histVars,
           (\A u \in Threads : /\ pc'[u] \in {"wacq", "wwait", "wfill"} =>
                                     pc[u] \in {"wacq", "wwait", "wfill"}
                               /\ pc'[u] = "rrel" => pc[u] = "rrel" /\ u # t) => MsgInv'
    PROVE  KeepRest'
<1>0. \/ k = "write" /\ b = "rrel"
      \/ k = "read" /\ b = "wrel"
      \/ k = "read" /\ b = "bpeek"
  BY DEF Giving
<1>1. pc[t] \notin WaitPoints /\ pc[t] # "run"
  BY <1>0 DEF WaitPoints
<1>2. PICK s \in Slots, p \in Ids :
         /\ s = SlotOf(tid[t]) /\ p = tid[t] /\ pid[s] = p /\ gen[s] = p
         /\ p < next_port /\ next_port \in Nat /\ capacity[s] \in Nat \ {0}
         /\ <<"read", p>> \in Sems /\ <<"write", p>> \in Sems
         /\ live[<<"read", p>>] /\ live[<<"write", p>>]
  BY <1>1, InsideFacts
<1>3. <<k, p>> \in Sems /\ live[<<k, p>>]
  BY <1>0, <1>2
<1>4. SlotType /\ HeapType /\ QueueType /\ KeepTable /\ CallInv /\ OrderInv /\ WaitInv
  BY KeepParts
<1>5. \A u \in Threads : pc[u] \notin {"dtake", "dfree", "dread", "dwrite"}
  BY <1>4 DEF KeepTable
<1>6. b # "bpeek" => tgen[t] = p
  BY <1>0, <1>2, <1>4 DEF CallInv
<1>7. ASSUME NEW q \in Ids
      PROVE  /\ <<"write", q>> \in Sems /\ <<"read", q>> \in Sems
             /\ units[<<"write", q>>] \in Nat /\ units[<<"read", q>>] \in Nat
             /\ Pending(q) \in Int /\ Pending(q)' = Pending(q)
             /\ CountW(q) \in Nat /\ CountR(q) \in Nat /\ CountB(q) \in Nat
             /\ InW(t, q) <=> b = "rrel" /\ q = p
             /\ InR(t, q) <=> b = "wrel" /\ q = p
             /\ InB(t, q) <=> b = "bpeek" /\ q = p
  <2>1. /\ units[<<"write", q>>] \in Nat /\ units[<<"read", q>>] \in Nat
        /\ Pending(q) \in Int
        /\ CountW(q) \in Nat /\ CountR(q) \in Nat /\ CountB(q) \in Nat
    BY KeepParts, LoadTypes
  <2>2. Pending(q)' = Pending(q)
    BY DEF Pending, histVars
  <2>3. /\ InW(t, q) <=> b = "rrel" /\ q = p
        /\ InR(t, q) <=> b = "wrel" /\ q = p
        /\ InB(t, q) <=> b = "bpeek" /\ q = p
    BY <1>0, <1>2, <1>6 DEF InW, InR, InB
  <2> QED BY <2>1, <2>2, <2>3 DEF Sems
<1>8. /\ live' = live
      /\ \/ /\ units' = [units EXCEPT ![<<k, p>>] = @ + 1]
            /\ pc' = [pc EXCEPT ![t] = "run"] /\ waitq' = waitq
         \/ \E h \in Threads :
               /\ h # t /\ Contains(waitq[<<k, p>>], h) /\ pc[h] \in WaitPoints
               /\ units' = units
               /\ pc'[t] = "run" /\ pc'[h] = Granted(pc[h])
               /\ \A u \in Threads : u \notin {t, h} => pc'[u] = pc[u]
               /\ \A y \in Sems, u \in Threads :
                     Contains(waitq'[y], u) <=> Contains(waitq[y], u) /\ u # h
  BY <1>1, <1>2, <1>3, ReleaseKeep
<1>9. CASE /\ units' = [units EXCEPT ![<<k, p>>] = @ + 1]
           /\ pc' = [pc EXCEPT ![t] = "run"] /\ waitq' = waitq
  <2>1. pc'[t] = "run" /\ \A u \in Threads : u # t => pc'[u] = pc[u]
    BY <1>4, <1>9 DEF QueueType
  <2>2. \A u \in Threads : /\ pc'[u] \notin {"dtake", "dfree", "dread", "dwrite"}
                           /\ pc'[u] # "run" => pc[u] # "run"
                           /\ pc'[u] \notin {"run", "bacq", "bwait", "bpeek"} =>
                                 pc[u] \notin {"run", "bacq", "bwait", "bpeek"}
    BY <1>5, <2>1
  <2>3. ASSUME NEW q \in Ids, q >= next_port
        PROVE  units'[<<"read", q>>] = units[<<"read", q>>]
    <3>1. q # p
      BY <1>2, <2>3 DEF Ids
    <3>2. <<"read", q>> \in Sems /\ <<"read", q>> # <<k, p>>
      BY <3>1 DEF Sems
    <3> QED BY <1>4, <1>9, <3>2 DEF HeapType
  <2>4. ASSUME NEW x \in Sems, NEW u \in Threads, Contains(waitq'[x], u)
        PROVE  Contains(waitq[x], u) /\ pc'[u] = pc[u]
    <3>1. Contains(waitq[x], u) /\ pc[u] \in WaitPoints
      BY <1>4, <1>9, <2>4 DEF WaitInv
    <3> QED BY <1>1, <2>1, <3>1
  <2>5. MsgInv'
    BY <2>1
  <2>6. ASSUME NEW q \in Ids
        PROVE  Load(q)' <= Load(q) /\ Credit(q)' = Credit(q)
    <3>1. /\ CountW(q)' = CountW(q) + Bit(InW(t, q)') - Bit(InW(t, q))
          /\ CountR(q)' = CountR(q) + Bit(InR(t, q)') - Bit(InR(t, q))
          /\ CountB(q)' = CountB(q) + Bit(InB(t, q)') - Bit(InB(t, q))
      BY <2>1, OneMoves
    <3>2. ~InW(t, q)' /\ ~InR(t, q)' /\ ~InB(t, q)'
      BY <2>1 DEF InW, InR, InB
    <3>3. /\ units'[<<"write", q>>] = units[<<"write", q>>] + Bit(k = "write" /\ q = p)
          /\ units'[<<"read", q>>] = units[<<"read", q>>] + Bit(k = "read" /\ q = p)
      BY <1>0, <1>4, <1>7, <1>9 DEF HeapType, Bit
    <3>4. CASE q # p
      BY <1>7, <3>1, <3>2, <3>3, <3>4 DEF Bit, Load, Credit
    <3>5. CASE q = p /\ b = "rrel"
      BY <1>0, <1>7, <3>1, <3>2, <3>3, <3>5 DEF Bit, Load, Credit
    <3>6. CASE q = p /\ b = "wrel"
      BY <1>0, <1>7, <3>1, <3>2, <3>3, <3>6 DEF Bit, Load, Credit
    <3>7. CASE q = p /\ b = "bpeek"
      BY <1>0, <1>7, <3>1, <3>2, <3>3, <3>7 DEF Bit, Load, Credit
    <3> QED BY <1>0, <3>4, <3>5, <3>6, <3>7
  <2> QED BY <1>8, <2>2, <2>3, <2>4, <2>5, <2>6, SemRest
<1>10. CASE \E h \in Threads :
               /\ h # t /\ Contains(waitq[<<k, p>>], h) /\ pc[h] \in WaitPoints
               /\ units' = units
               /\ pc'[t] = "run" /\ pc'[h] = Granted(pc[h])
               /\ \A u \in Threads : u \notin {t, h} => pc'[u] = pc[u]
               /\ \A y \in Sems, u \in Threads :
                     Contains(waitq'[y], u) <=> Contains(waitq[y], u) /\ u # h
  <2>1. PICK h \in Threads :
               /\ h # t /\ Contains(waitq[<<k, p>>], h) /\ pc[h] \in WaitPoints
               /\ units' = units
               /\ pc'[t] = "run" /\ pc'[h] = Granted(pc[h])
               /\ \A u \in Threads : u \notin {t, h} => pc'[u] = pc[u]
               /\ \A y \in Sems, u \in Threads :
                     Contains(waitq'[y], u) <=> Contains(waitq[y], u) /\ u # h
    BY <1>10
  <2>2. tid[h] = p /\ (k = "write" <=> pc[h] = "wwait")
    <3>1. PICK x \in Sems : x = <<k, p>> /\ x[1] = k /\ x[2] = p
      BY <1>3
    <3> QED BY <1>4, <2>1, <3>1 DEF CallInv
  <2>3. \/ k = "write" /\ pc[h] = "wwait" /\ pc'[h] = "wfill" /\ tgen[h] = p
        \/ k = "read" /\ pc[h] = "rwait" /\ pc'[h] = "rtake" /\ tgen[h] = p
        \/ k = "read" /\ pc[h] = "bwait" /\ pc'[h] = "bpeek"
    BY <1>0, <1>4, <2>1, <2>2 DEF WaitPoints, Granted, CallInv
  <2>4. \A u \in Threads : /\ pc'[u] \notin {"dtake", "dfree", "dread", "dwrite"}
                           /\ pc'[u] # "run" => pc[u] # "run"
                           /\ pc'[u] \notin {"run", "bacq", "bwait", "bpeek"} =>
                                 pc[u] \notin {"run", "bacq", "bwait", "bpeek"}
    BY <1>5, <2>1, <2>3
  <2>5. ASSUME NEW x \in Sems, NEW u \in Threads, Contains(waitq'[x], u)
        PROVE  Contains(waitq[x], u) /\ pc'[u] = pc[u]
    <3>1. Contains(waitq[x], u) /\ pc[u] \in WaitPoints /\ u # h
      BY <1>4, <2>1, <2>5 DEF WaitInv
    <3> QED BY <1>1, <2>1, <3>1
  <2>6. MsgInv'
    BY <2>1, <2>3
  <2>7. ASSUME NEW q \in Ids
        PROVE  Load(q)' <= Load(q) /\ Credit(q)' = Credit(q)
    <3>1. /\ CountW(q)' = CountW(q) + Bit(InW(t, q)') - Bit(InW(t, q))
                          + Bit(InW(h, q)') - Bit(InW(h, q))
          /\ CountR(q)' = CountR(q) + Bit(InR(t, q)') - Bit(InR(t, q))
                          + Bit(InR(h, q)') - Bit(InR(h, q))
          /\ CountB(q)' = CountB(q) + Bit(InB(t, q)') - Bit(InB(t, q))
                          + Bit(InB(h, q)') - Bit(InB(h, q))
      BY <2>1, TwoMove
    <3>2. /\ ~InW(t, q)' /\ ~InR(t, q)' /\ ~InB(t, q)'
          /\ ~InW(h, q) /\ ~InR(h, q) /\ ~InB(h, q)
      BY <2>1, <2>3 DEF InW, InR, InB
    <3>3. /\ InW(h, q)' <=> k = "write" /\ q = p
          /\ InR(h, q)' <=> pc[h] = "rwait" /\ q = p
          /\ InB(h, q)' <=> pc[h] = "bwait" /\ q = p
      BY <2>2, <2>3 DEF InW, InR, InB
    <3>4. CASE q # p
      BY <1>7, <2>1, <3>1, <3>2, <3>3, <3>4 DEF Bit, Load, Credit
    <3>5. CASE q = p /\ k = "write"
      BY <1>0, <1>7, <2>1, <2>3, <3>1, <3>2, <3>3, <3>5 DEF Bit, Load, Credit
    <3>6. CASE q = p /\ k = "read" /\ b = "wrel"
      <4>1. CASE pc[h] = "rwait"
        BY <1>7, <2>1, <3>1, <3>2, <3>3, <3>6, <4>1 DEF Bit, Load, Credit
      <4>2. CASE pc[h] = "bwait"
        BY <1>7, <2>1, <3>1, <3>2, <3>3, <3>6, <4>2 DEF Bit, Load, Credit
      <4> QED BY <2>3, <3>6, <4>1, <4>2
    <3>7. CASE q = p /\ k = "read" /\ b = "bpeek"
      <4>1. CASE pc[h] = "rwait"
        BY <1>7, <2>1, <3>1, <3>2, <3>3, <3>7, <4>1 DEF Bit, Load, Credit
      <4>2. CASE pc[h] = "bwait"
        BY <1>7, <2>1, <3>1, <3>2, <3>3, <3>7, <4>2 DEF Bit, Load, Credit
      <4> QED BY <2>3, <3>7, <4>1, <4>2
    <3> QED BY <1>0, <3>4, <3>5, <3>6, <3>7
  <2> QED BY <1>8, <2>1, <2>4, <2>5, <2>6, <2>7, SemRest
<1> QED BY <1>8, <1>9, <1>10

(* The three calls that wait for a semaphore.                              *)
LEMMA AcquiresKeep ==
    ASSUME KeepInductive, NEW t \in Threads,
           ReadAcquire(t) \/ WriteAcquire(t) \/ BufferAcquire(t)
    PROVE  KeepRest'
<1>1. pc[t] \in {"racq", "wacq", "bacq"} /\ Finish(t)
  BY DEF ReadAcquire, WriteAcquire, BufferAcquire, Finish
<1>2. gen[SlotOf(tid[t])] = tid[t]
  BY <1>1, InsideFacts
<1>3. pc[t] \in {"racq", "wacq"} => tgen[t] = tid[t]
  BY KeepParts DEF CallInv
<1>4. CASE ReadAcquire(t)
  <2>1. /\ pc[t] = "racq" /\ Acquire(t, <<"read", tid[t]>>, "rtake", "rwait", "run")
        /\ UNCHANGED <<slotVars, heapVars, tid, tgen, tmsg, histVars, fault>>
    BY <1>3, <1>4 DEF ReadAcquire
  <2>2. Waiting("read", "racq", "rtake", "rwait")
    BY DEF Waiting
  <2> QED BY <1>1, <2>1, <2>2, AcquireStep
<1>5. CASE WriteAcquire(t)
  <2>1. /\ pc[t] = "wacq" /\ Acquire(t, <<"write", tid[t]>>, "wfill", "wwait", "run")
        /\ UNCHANGED <<slotVars, heapVars, tid, tgen, tmsg, histVars, fault>>
    BY <1>3, <1>5 DEF WriteAcquire
  <2>2. Waiting("write", "wacq", "wfill", "wwait")
    BY DEF Waiting
  <2> QED BY <1>1, <2>1, <2>2, AcquireStep
<1>6. CASE BufferAcquire(t)
  <2>1. /\ pc[t] = "bacq" /\ Acquire(t, <<"read", tid[t]>>, "bpeek", "bwait", "bpeek")
        /\ UNCHANGED <<slotVars, heapVars, tid, tgen, tmsg, histVars, fault>>
    BY <1>2, <1>6 DEF BufferAcquire
  <2>2. Waiting("read", "bacq", "bpeek", "bwait")
    BY DEF Waiting
  <2> QED BY <1>1, <2>1, <2>2, AcquireStep
<1> QED BY <1>4, <1>5, <1>6

(* A message that was read and released.                                   *)
LEMMA MsgFreed ==
    ASSUME KeepInductive, NEW t \in Threads, pc[t] = "rrel",
           sent' = sent, got' = got, nmsg' = nmsg, tmsg' = tmsg,
           freedBufs' = freedBufs \cup ({tmsg[t]} \cap Messages),
           \A u \in Threads : /\ pc'[u] \in {"wacq", "wwait", "wfill"} =>
                                    pc[u] \in {"wacq", "wwait", "wfill"}
                              /\ pc'[u] = "rrel" => pc[u] = "rrel" /\ u # t
    PROVE  MsgInv'
<1>1. MsgInv
  BY KeepParts
<1>2. Writers' \subseteq Writers /\ Readers' \subseteq Readers \ {t} /\ t \in Readers
  BY DEF Writers, Readers
<1>3. /\ \A p \in Ids : \A i \in 1 .. Len(sent'[p]) : sent'[p][i] <= nmsg'
      /\ \A p, q \in Ids : \A i \in 1 .. Len(sent'[p]), j \in 1 .. Len(sent'[q]) :
            sent'[p][i] = sent'[q][j] => p = q /\ i = j
  BY <1>1 DEF MsgInv
<1>4. \A u \in Writers' :
         /\ tmsg'[u] \in 1 .. nmsg'
         /\ \A p \in Ids : \A i \in 1 .. Len(sent'[p]) : sent'[p][i] # tmsg'[u]
         /\ \A v \in Writers' : tmsg'[v] = tmsg'[u] => v = u
  BY <1>1, <1>2 DEF MsgInv
<1>5. Null \notin Messages
  BY PortAssumption DEF Messages
<1>6. tmsg[t] # Null => /\ tmsg[t] \notin freedBufs
                        /\ \E p \in Ids : \E i \in 1 .. Len(got[p]) : sent[p][i] = tmsg[t]
                        /\ \A u \in Readers : tmsg[u] = tmsg[t] => u = t
  BY <1>1, <1>2 DEF MsgInv
<1>7. \A m \in freedBufs' : \E p \in Ids : \E i \in 1 .. Len(got'[p]) : sent'[p][i] = m
  <2>1. SUFFICES ASSUME NEW m \in freedBufs'
                 PROVE  \E p \in Ids : \E i \in 1 .. Len(got[p]) : sent[p][i] = m
    OBVIOUS
  <2>2. CASE m \in freedBufs
    BY <1>1, <2>2 DEF MsgInv
  <2>3. CASE m = tmsg[t] /\ m \in Messages
    BY <1>5, <1>6, <2>3
  <2> QED BY <2>1, <2>2, <2>3
<1>8. \A u \in Readers' : tmsg'[u] # Null =>
         /\ tmsg'[u] \notin freedBufs'
         /\ \E p \in Ids : \E i \in 1 .. Len(got'[p]) : sent'[p][i] = tmsg'[u]
         /\ \A v \in Readers' : tmsg'[v] = tmsg'[u] => v = u
  <2>1. SUFFICES ASSUME NEW u \in Readers', tmsg[u] # Null
                 PROVE  /\ tmsg[u] \notin freedBufs'
                        /\ \E p \in Ids : \E i \in 1 .. Len(got[p]) : sent[p][i] = tmsg[u]
                        /\ \A v \in Readers' : tmsg[v] = tmsg[u] => v = u
    OBVIOUS
  <2>2. /\ u \in Readers /\ u # t /\ tmsg[u] \notin freedBufs
        /\ \E p \in Ids : \E i \in 1 .. Len(got[p]) : sent[p][i] = tmsg[u]
        /\ \A v \in Readers : tmsg[v] = tmsg[u] => v = u
    BY <1>1, <1>2, <2>1 DEF MsgInv
  <2>3. tmsg[t] # tmsg[u]
    BY <1>2, <2>2
  <2> QED BY <1>2, <2>2, <2>3
<1> QED BY <1>3, <1>4, <1>7, <1>8 DEF MsgInv

(* The three calls that give a unit back.                                  *)
LEMMA ReleasesKeep ==
    ASSUME KeepInductive, NEW t \in Threads,
           ReadRelease(t) \/ WriteRelease(t) \/ BufferPeek(t)
    PROVE  KeepRest'
<1>1. pc[t] \in {"rrel", "wrel", "bpeek"} /\ Finish(t)
  BY DEF ReadRelease, WriteRelease, BufferPeek, Finish
<1>2. gen[SlotOf(tid[t])] = tid[t]
  BY <1>1, InsideFacts
<1>3. pc[t] \in {"rrel", "wrel"} => tgen[t] = tid[t]
  BY KeepParts DEF CallInv
<1>4. MsgInv /\ HeapType /\ OrderInv
  BY KeepParts
<1>5. CASE WriteRelease(t) \/ BufferPeek(t)
  <2>1. /\ UNCHANGED slotVars /\ ring' = ring /\ freed' = freed /\ freedBufs' = freedBufs
        /\ fault' = fault /\ tid' = tid /\ tgen' = tgen /\ tmsg' = tmsg
        /\ UNCHANGED histVars /\ sent' = sent /\ got' = got /\ nmsg' = nmsg
    BY <1>5 DEF WriteRelease, BufferPeek, heapVars, histVars
  <2>2. (\A u \in Threads : /\ pc'[u] \in {"wacq", "wwait", "wfill"} =>
                                  pc[u] \in {"wacq", "wwait", "wfill"}
                            /\ pc'[u] = "rrel" => pc[u] = "rrel" /\ u # t) => MsgInv'
    BY <1>4, <2>1, MsgShrink
  <2>3. \/ pc[t] = "wrel" /\ Release(t, <<"read", tid[t]>>)
        \/ pc[t] = "bpeek" /\ Release(t, <<"read", tid[t]>>)
    BY <1>2, <1>3, <1>5 DEF WriteRelease, BufferPeek
  <2>4. Giving("read", "wrel") /\ Giving("read", "bpeek")
    BY DEF Giving
  <2>5. CASE pc[t] = "wrel"
    BY <1>1, <2>1, <2>2, <2>3, <2>4, <2>5, ReleaseStep
  <2>6. CASE pc[t] = "bpeek"
    BY <1>1, <2>1, <2>2, <2>3, <2>4, <2>6, ReleaseStep
  <2> QED BY <2>3, <2>5, <2>6
<1>6. CASE ReadRelease(t)
  <2>1. /\ UNCHANGED slotVars /\ ring' = ring /\ freed' = freed
        /\ freedBufs' = freedBufs \cup ({tmsg[t]} \cap Messages)
        /\ fault' = IF tmsg[t] \in freedBufs \cup {Garbage} THEN "bad free" ELSE fault
        /\ tid' = tid /\ tgen' = tgen /\ tmsg' = tmsg
        /\ UNCHANGED histVars /\ sent' = sent /\ got' = got /\ nmsg' = nmsg
        /\ pc[t] = "rrel" /\ Release(t, <<"write", tid[t]>>)
    BY <1>3, <1>6 DEF ReadRelease, histVars
  <2>2. tmsg[t] \notin freedBufs \cup {Garbage}
    <3>1. /\ Null \notin Messages /\ Garbage \notin Messages /\ Null # Garbage
          /\ freedBufs \subseteq Messages
      BY <1>4, PortAssumption DEF HeapType, Messages
    <3>2. CASE tmsg[t] = Null
      BY <3>1, <3>2
    <3>3. CASE tmsg[t] # Null
      <4>1. /\ tmsg[t] \notin freedBufs
            /\ \E p \in Ids : \E i \in 1 .. Len(got[p]) : sent[p][i] = tmsg[t]
        BY <1>4, <2>1, <3>3 DEF MsgInv, Readers
      <4>2. PICK p \in Ids : \E i \in 1 .. Len(got[p]) : sent[p][i] = tmsg[t]
        BY <4>1
      <4>3. PICK i \in 1 .. Len(got[p]) : sent[p][i] = tmsg[t]
        BY <4>2
      <4>4. /\ sent[p] \in Seq(Messages) /\ Len(got[p]) <= Len(sent[p])
            /\ Len(got[p]) \in Nat /\ Len(sent[p]) \in Nat
        BY <1>4 DEF OrderInv
      <4>5. i \in 1 .. Len(sent[p])
        BY <4>3, <4>4
      <4>6. sent[p][i] \in Messages
        BY <4>4, <4>5, ElementOfSeq
      <4> QED BY <3>1, <4>1, <4>3, <4>6
    <3> QED BY <3>2, <3>3
  <2>3. fault' = fault
    BY <2>1, <2>2
  <2>4. (\A u \in Threads : /\ pc'[u] \in {"wacq", "wwait", "wfill"} =>
                                  pc[u] \in {"wacq", "wwait", "wfill"}
                            /\ pc'[u] = "rrel" => pc[u] = "rrel" /\ u # t) => MsgInv'
    BY <2>1, MsgFreed
  <2>5. Giving("write", "rrel")
    BY DEF Giving
  <2> QED BY <1>1, <2>1, <2>3, <2>4, <2>5, ReleaseStep
<1> QED BY <1>5, <1>6

(* A call that fails: the place a writer took is lost, a waiter leaves.    *)
LEMMA FailsKeep ==
    ASSUME KeepInductive, NEW t \in Threads,
           WriteFail(t) \/ (GiveUp(t) /\ pc'[t] # "bpeek")
    PROVE  KeepRest'
<1>1. /\ UNCHANGED slotVars /\ ring' = ring /\ freed' = freed /\ freedBufs' = freedBufs
      /\ fault' = fault /\ tid' = tid /\ tgen' = tgen /\ tmsg' = tmsg /\ live' = live
      /\ units' = units /\ UNCHANGED histVars /\ sent' = sent /\ got' = got /\ nmsg' = nmsg
  BY DEF WriteFail, GiveUp, heapVars, semVars, histVars
<1>2. QueueType /\ WaitInv /\ KeepTable /\ MsgInv
  BY KeepParts
<1>3. /\ pc[t] \in WaitPoints \cup {"wfill"} /\ pc'[t] = "run"
      /\ \A u \in Threads : u # t => pc'[u] = pc[u]
      /\ \A x \in Sems, u \in Threads : Contains(waitq'[x], u) =>
            Contains(waitq[x], u) /\ u # t
  <2>1. CASE WriteFail(t)
    <3>1. pc[t] = "wfill" /\ pc' = [pc EXCEPT ![t] = "run"] /\ waitq' = waitq
      BY <2>1 DEF WriteFail, Goto, semVars
    <3>2. \A x \in Sems, u \in Threads : Contains(waitq[x], u) => u # t
      BY <1>2, <3>1 DEF WaitInv, WaitPoints
    <3> QED BY <1>2, <3>1, <3>2 DEF QueueType
  <2>2. CASE GiveUp(t) /\ pc'[t] # "bpeek"
    <3>1. /\ pc[t] \in WaitPoints /\ pc'[t] = Failed(pc[t])
          /\ \A u \in Threads : u # t => pc'[u] = pc[u]
          /\ \A y \in Sems, u \in Threads :
                Contains(waitq'[y], u) <=> Contains(waitq[y], u) /\ u # t
      BY <1>2, <2>2, GiveUpFacts
    <3>2. Failed(pc[t]) \in {"bpeek", "run"}
      BY <3>1, GrantedType
    <3> QED BY <2>2, <3>1, <3>2
  <2> QED BY <2>1, <2>2
<1>4. \A u \in Threads : /\ pc'[u] \notin {"dtake", "dfree", "dread", "dwrite"}
                         /\ pc'[u] # "run" => pc[u] # "run"
                         /\ pc'[u] \notin {"run", "bacq", "bwait", "bpeek"} =>
                               pc[u] \notin {"run", "bacq", "bwait", "bpeek"}
  BY <1>2, <1>3 DEF KeepTable
<1>5. \A x \in Sems, u \in Threads : Contains(waitq'[x], u) =>
         Contains(waitq[x], u) /\ pc'[u] = pc[u]
  BY <1>3
<1>6. MsgInv'
  BY <1>1, <1>2, <1>3, MsgShrink
<1>7. ASSUME NEW q \in Ids
      PROVE  Load(q)' <= Load(q) /\ Credit(q)' = Credit(q)
  <2>1. /\ units[<<"write", q>>] \in Nat /\ units[<<"read", q>>] \in Nat
        /\ Pending(q) \in Int
        /\ CountW(q) \in Nat /\ CountR(q) \in Nat /\ CountB(q) \in Nat
    BY KeepParts, LoadTypes
  <2>2. Pending(q)' = Pending(q)
    BY <1>1 DEF Pending
  <2>3. /\ CountW(q)' = CountW(q) + Bit(InW(t, q)') - Bit(InW(t, q))
        /\ CountR(q)' = CountR(q) + Bit(InR(t, q)') - Bit(InR(t, q))
        /\ CountB(q)' = CountB(q) + Bit(InB(t, q)') - Bit(InB(t, q))
    BY <1>1, <1>3, OneMoves
  <2>4. ~InW(t, q)' /\ ~InR(t, q)' /\ ~InB(t, q)' /\ ~InR(t, q) /\ ~InB(t, q)
    BY <1>3 DEF InW, InR, InB, WaitPoints
  <2>5. Bit(InW(t, q)) \in {0, 1}
    BY DEF Bit
  <2> QED BY <1>1, <2>1, <2>2, <2>3, <2>4, <2>5 DEF Bit, Load, Credit
<1>8. Finish(t) \/ GiveUp(t)
  BY DEF Finish
<1> QED BY <1>1, <1>4, <1>5, <1>6, <1>7, <1>8, SemRest

-----------------------------------------------------------------------------
(* The calls begin.                                                        *)

(* A message gets its number and a writer.                                 *)
LEMMA MsgNew ==
    ASSUME KeepInductive, NEW t \in Threads, pc[t] = "run", pc'[t] = "wacq",
           nmsg' = nmsg + 1, tmsg'[t] = nmsg + 1, nmsg < MaxMsgs,
           sent' = sent, got' = got, freedBufs' = freedBufs,
           \A u \in Threads : u # t => pc'[u] = pc[u] /\ tmsg'[u] = tmsg[u]
    PROVE  MsgInv'
<1>1. MsgInv /\ OrderInv /\ nmsg \in 0 .. MaxMsgs /\ MaxMsgs \in Nat
  BY KeepParts, PortAssumption DEF PortTypeOK
<1>2. \A p \in Ids : \A i \in 1 .. Len(sent[p]) : sent[p][i] \in Nat /\ sent[p][i] <= nmsg
  <2>1. ASSUME NEW p \in Ids, NEW i \in 1 .. Len(sent[p])
        PROVE  sent[p][i] \in Messages
    <3>1. sent[p] \in Seq(Messages)
      BY <1>1 DEF OrderInv
    <3> QED BY <3>1, ElementOfSeq
  <2> QED BY <1>1, <2>1 DEF MsgInv, Messages
<1>3. Writers' = Writers \cup {t} /\ t \notin Writers /\ Readers' = Readers /\ t \notin Readers
  BY DEF Writers, Readers
<1>4. \A u \in Writers : u # t /\ tmsg'[u] = tmsg[u] /\ tmsg[u] \in 1 .. nmsg
  BY <1>1, <1>3 DEF MsgInv, Writers
<1>5. \A u \in Readers : u # t /\ tmsg'[u] = tmsg[u]
  BY <1>3 DEF Readers
<1>6. \A p \in Ids : \A i \in 1 .. Len(sent'[p]) : sent'[p][i] <= nmsg'
  BY <1>1, <1>2
<1>7. \A u \in Writers' :
         /\ tmsg'[u] \in 1 .. nmsg'
         /\ \A p \in Ids : \A i \in 1 .. Len(sent'[p]) : sent'[p][i] # tmsg'[u]
         /\ \A v \in Writers' : tmsg'[v] = tmsg'[u] => v = u
  <2>1. \A u \in Writers' : tmsg'[u] \in 1 .. nmsg'
    BY <1>1, <1>3, <1>4
  <2>2. \A u \in Writers' : \A p \in Ids : \A i \in 1 .. Len(sent'[p]) : sent'[p][i] # tmsg'[u]
    <3>1. SUFFICES ASSUME NEW u \in Writers', NEW p \in Ids, NEW i \in 1 .. Len(sent[p])
                   PROVE  sent[p][i] # tmsg'[u]
      OBVIOUS
    <3>2. CASE u = t
      BY <1>1, <1>2, <3>2
    <3>3. CASE u \in Writers
      BY <1>1, <1>4, <3>3 DEF MsgInv
    <3> QED BY <1>3, <3>2, <3>3
  <2>3. \A u, v \in Writers' : tmsg'[v] = tmsg'[u] => v = u
    <3>1. \A u \in Writers : tmsg'[u] # tmsg'[t]
      BY <1>1, <1>4
    <3>2. \A u, v \in Writers : tmsg'[v] = tmsg'[u] => v = u
      BY <1>1, <1>4 DEF MsgInv
    <3> QED BY <1>3, <3>1, <3>2
  <2> QED BY <2>1, <2>2, <2>3
<1>8. /\ \A p, q \in Ids : \A i \in 1 .. Len(sent'[p]), j \in 1 .. Len(sent'[q]) :
            sent'[p][i] = sent'[q][j] => p = q /\ i = j
      /\ \A m \in freedBufs' : \E p \in Ids : \E i \in 1 .. Len(got'[p]) : sent'[p][i] = m
  BY <1>1 DEF MsgInv
<1>9. \A u \in Readers' : tmsg'[u] # Null =>
         /\ tmsg'[u] \notin freedBufs'
         /\ \E p \in Ids : \E i \in 1 .. Len(got'[p]) : sent'[p][i] = tmsg'[u]
         /\ \A v \in Readers' : tmsg'[v] = tmsg'[u] => v = u
  BY <1>1, <1>3, <1>5 DEF MsgInv
<1> QED BY <1>6, <1>7, <1>8, <1>9 DEF MsgInv

(* A read, a write or a size query begins.                                 *)
LEMMA EntersKeep ==
    ASSUME KeepInductive, NEW t \in Threads, NEW s \in Slots,
           ReadEnter(t, s) \/ WriteEnter(t, s) \/ BufferEnter(t, s)
    PROVE  KeepRest'
<1>0. /\ SlotType /\ HeapType /\ QueueType /\ WaitInv /\ TableInv
      /\ KeepTable /\ CallInv /\ OrderInv /\ RingInv /\ UnitsBacked /\ MsgInv
      /\ units \in [Sems -> Nat] /\ pid \in [Slots -> Ids \cup {-1}]
      /\ capacity \in [Slots -> Nat]
  BY KeepParts
<1>1. pc[t] = "run" /\ pid[s] # -1
  BY DEF ReadEnter, WriteEnter, BufferEnter, Found
<1>2. PICK p \in Ids : p = pid[s] /\ gen[s] = p /\ SlotOf(p) = s
  BY <1>0, <1>1 DEF TableInv
<1>3. /\ pid' = pid /\ gen' = gen /\ capacity' = capacity /\ next_port' = next_port
      /\ plock' = plock /\ head' = head /\ tail' = tail /\ sent' = sent /\ got' = got
      /\ ring' = ring /\ freed' = freed /\ freedBufs' = freedBufs
      /\ live' = live /\ units' = units /\ waitq' = waitq /\ fault' = fault
  BY DEF ReadEnter, WriteEnter, BufferEnter, slotVars, heapVars, semVars, histVars
<1>4. /\ pc'[t] \in {"racq", "wacq", "bacq"} /\ tid'[t] = p
      /\ pc'[t] # "bacq" => tgen'[t] = p
      /\ \A u \in Threads : u # t => pc'[u] = pc[u] /\ tgen'[u] = tgen[u] /\ tid'[u] = tid[u]
  <2>1. CASE ReadEnter(t, s)
    BY <1>0, <1>2, <2>1 DEF ReadEnter, Goto, HeapType, QueueType
  <2>2. CASE WriteEnter(t, s)
    BY <1>0, <1>2, <2>2 DEF WriteEnter, Goto, HeapType, QueueType
  <2>3. CASE BufferEnter(t, s)
    BY <1>0, <1>2, <2>3 DEF BufferEnter, Goto, HeapType, QueueType
  <2> QED BY <2>1, <2>2, <2>3
<1>5. DOMAIN tmsg' = Threads /\ MsgInv'
  <2>1. CASE WriteEnter(t, s)
    <3>1. /\ nmsg < MaxMsgs /\ nmsg' = nmsg + 1 /\ tmsg' = [tmsg EXCEPT ![t] = nmsg + 1]
          /\ pc' = [pc EXCEPT ![t] = "wacq"]
      BY <2>1 DEF WriteEnter, Goto
    <3>2. /\ DOMAIN tmsg' = Threads /\ tmsg'[t] = nmsg + 1 /\ pc'[t] = "wacq"
          /\ \A u \in Threads : u # t => tmsg'[u] = tmsg[u]
      BY <1>0, <3>1 DEF KeepTable, QueueType
    <3> QED BY <1>1, <1>3, <1>4, <3>1, <3>2, MsgNew
  <2>2. CASE ReadEnter(t, s) \/ BufferEnter(t, s)
    <3>1. nmsg' = nmsg /\ tmsg' = tmsg /\ pc'[t] \in {"racq", "bacq"}
      BY <1>0, <2>2 DEF ReadEnter, BufferEnter, histVars, Goto, QueueType
    <3>2. \A u \in Threads : /\ pc'[u] \in {"wacq", "wwait", "wfill"} =>
                                   pc[u] \in {"wacq", "wwait", "wfill"}
                             /\ pc'[u] = "rrel" => pc[u] = "rrel"
      BY <1>4, <3>1
    <3>3. MsgInv'
      BY <1>0, <1>3, <3>1, <3>2, MsgShrink
    <3> QED BY <1>0, <3>1, <3>3 DEF KeepTable
  <2> QED BY <2>1, <2>2
<1>6. KeepTable'
  <2>1. \A u \in Threads : pc'[u] \notin {"dtake", "dfree", "dread", "dwrite"}
    BY <1>0, <1>4 DEF KeepTable
  <2>2. DOMAIN ring' = DOMAIN ring /\ DOMAIN tmsg' = DOMAIN tmsg
    BY <1>0, <1>3, <1>5 DEF KeepTable
  <2>3. KeepFrame
    BY <1>3 DEF KeepFrame
  <2> QED BY <1>0, <1>3, <2>1, <2>2, <2>3, KeepTableStep
<1>7. CallInv'
  <2>1. \A x \in Sems, u \in Threads : Contains(waitq'[x], u) =>
           Contains(waitq[x], u) /\ pc'[u] = pc[u] /\ tid'[u] = tid[u]
    BY <1>0, <1>1, <1>3, <1>4 DEF WaitInv, WaitPoints
  <2>2. \A u \in Threads : pc'[u] # "run" =>
              \/ pc[u] # "run" /\ tid'[u] = tid[u]
              \/ pid[SlotOf(tid'[u])] = tid'[u]
    BY <1>2, <1>4
  <2>3. \A u \in Threads : pc'[u] \notin {"run", "bacq", "bwait", "bpeek"} =>
              \/ /\ pc[u] \notin {"run", "bacq", "bwait", "bpeek"}
                 /\ tgen'[u] = tgen[u] /\ tid'[u] = tid[u]
              \/ tgen'[u] = tid'[u]
    BY <1>4
  <2> QED BY <1>0, <1>3, <2>1, <2>2, <2>3, CallStep
<1>8. OrderInv'
  BY <1>0, <1>3, OrderSame
<1>9. RingInv'
  <2>1. \A r \in Slots, q \in Ids : pid'[r] = q => RingOf(r, q)'
    BY <1>0, <1>3, RingIs, RingSame
  <2> QED BY <1>0, <1>3, <2>1, RingNext
<1>10. UnitsBacked'
  <2>1. ASSUME NEW q \in Ids
        PROVE  Load(q)' <= Load(q) /\ Credit(q)' = Credit(q)
    <3>1. /\ units[<<"write", q>>] \in Nat /\ units[<<"read", q>>] \in Nat
          /\ Pending(q) \in Int
          /\ CountW(q) \in Nat /\ CountR(q) \in Nat /\ CountB(q) \in Nat
      BY <1>0, LoadTypes
    <3>2. Pending(q)' = Pending(q)
      BY <1>3 DEF Pending
    <3>3. /\ CountW(q)' = CountW(q) + Bit(InW(t, q)') - Bit(InW(t, q))
          /\ CountR(q)' = CountR(q) + Bit(InR(t, q)') - Bit(InR(t, q))
          /\ CountB(q)' = CountB(q) + Bit(InB(t, q)') - Bit(InB(t, q))
      BY <1>4, OneMoves
    <3>4. /\ ~InW(t, q)' /\ ~InR(t, q)' /\ ~InB(t, q)'
          /\ ~InW(t, q) /\ ~InR(t, q) /\ ~InB(t, q)
      BY <1>1, <1>4 DEF InW, InR, InB
    <3> QED BY <1>3, <3>1, <3>2, <3>3, <3>4 DEF Bit, Load, Credit
  <2> QED BY <1>0, <1>3, <1>8, <2>1, UnitsStep
<1> QED BY <1>5, <1>6, <1>7, <1>8, <1>9, <1>10 DEF KeepRest

(* close_port changes nothing that a port under way relies on.             *)
LEMMA CloseKeep ==
    ASSUME KeepInductive, NEW t \in Threads, NEW s \in Slots, close_port(t, s)
    PROVE  KeepRest'
<1>1. /\ pid' = pid /\ gen' = gen /\ capacity' = capacity /\ next_port' = next_port
      /\ plock' = plock /\ head' = head /\ tail' = tail
      /\ ring' = ring /\ freed' = freed /\ freedBufs' = freedBufs
      /\ live' = live /\ units' = units /\ waitq' = waitq /\ fault' = fault
      /\ pc' = pc /\ tid' = tid /\ tgen' = tgen /\ tmsg' = tmsg
      /\ nmsg' = nmsg /\ sent' = sent /\ got' = got
  BY DEF close_port, heapVars, semVars, histVars
<1>2. KeepTable /\ CallInv /\ OrderInv /\ RingInv /\ UnitsBacked /\ MsgInv
  BY KeepParts
<1>3. KeepTable' /\ CallInv' /\ OrderInv'
  BY <1>1, <1>2 DEF KeepTable, CallInv, OrderInv, SlotOf
<1>4. RingInv'
  <2>1. \A r \in Slots, q \in Ids : pid'[r] = q => RingOf(r, q)'
    BY <1>1, <1>2, RingIs, RingSame
  <2> QED BY <1>1, <2>1, KeepParts, RingNext
<1>5. UnitsBacked'
  BY <1>1, <1>2 DEF UnitsBacked, PlacesBacked, MessagesBacked, At
<1>6. MsgInv'
  BY <1>1, <1>2 DEF MsgInv, Writers, Readers
<1> QED BY <1>3, <1>4, <1>5, <1>6 DEF KeepRest

-----------------------------------------------------------------------------
(* The ring is read and written.                                           *)

(* A thread that holds a permission is counted.                            *)
LEMMA CountPos ==
    ASSUME NEW t \in Threads, NEW p
    PROVE  /\ InW(t, p) => CountW(p) >= 1
           /\ InR(t, p) => CountR(p) >= 1
<1>1. ASSUME NEW S \in SUBSET Threads, t \in S
      PROVE  Cardinality(S) >= 1
  <2>1. IsFiniteSet(S)
    BY PortAssumption, FS_Subset
  <2>2. Cardinality(S) \in Nat /\ Cardinality(S) # 0
    BY <1>1, <2>1, FS_CardinalityType, FS_EmptySet
  <2> QED BY <2>2
<1>2. InW(t, p) => CountW(p) >= 1
  BY <1>1 DEF CountW
<1>3. InR(t, p) => CountR(p) >= 1
  BY <1>1 DEF CountR
<1> QED BY <1>2, <1>3

(* What a thread that comes from its semaphore finds: a reader a message,  *)
(* a writer a free place.                                                  *)
LEMMA RingFacts ==
    ASSUME KeepInductive, NEW t \in Threads, pc[t] \in {"rtake", "wfill"}
    PROVE  \E s \in Slots, p \in Ids, cap \in Nat \ {0}, n \in Nat, l \in Nat, g \in Nat :
              /\ s = SlotOf(tid[t]) /\ p = tid[t] /\ pid[s] = p /\ gen[s] = p
              /\ tgen[t] = p /\ p < next_port /\ next_port \in Nat
              /\ cap = capacity[s] /\ n = Pending(p) /\ l = Len(sent[p]) /\ g = Len(got[p])
              /\ n = l - g /\ n <= cap
              /\ pc[t] = "rtake" => n >= 1
              /\ pc[t] = "wfill" => n < cap
              /\ RingOf(s, p)
<1>1. PICK s \in Slots, p \in Ids :
         /\ s = SlotOf(tid[t]) /\ p = tid[t] /\ pid[s] = p /\ gen[s] = p
         /\ p < next_port /\ next_port \in Nat /\ capacity[s] \in Nat \ {0}
  BY InsideFacts
<1>2. tgen[t] = p /\ RingOf(s, p) /\ p # -1
  BY <1>1, KeepParts, RingIs DEF CallInv, Ids
<1>3. /\ units[<<"write", p>>] \in Nat /\ units[<<"read", p>>] \in Nat
      /\ Len(sent[p]) \in Nat /\ Len(got[p]) \in Nat
      /\ CountW(p) \in Nat /\ CountR(p) \in Nat /\ CountB(p) \in Nat
  BY KeepParts, LoadTypes
<1>4. /\ units[<<"write", p>>] + CountW(p) + Len(sent[p]) - Len(got[p]) <= capacity[s]
      /\ units[<<"read", p>>] + CountR(p) + CountB(p) = Len(sent[p]) - Len(got[p])
  BY <1>1, <1>2, KeepParts, UnitsBackedIs
<1>5. PICK a \in Nat, b \in Nat, l \in Nat, g \in Nat, w \in Nat, r \in Nat, z \in Nat :
         /\ a = units[<<"write", p>>] /\ b = units[<<"read", p>>] /\ l = Len(sent[p])
         /\ g = Len(got[p]) /\ w = CountW(p) /\ r = CountR(p) /\ z = CountB(p)
  BY <1>3
<1>6. PICK cap \in Nat \ {0} : cap = capacity[s]
  BY <1>1
<1>7. a + w + l - g <= cap /\ b + r + z = l - g
  BY <1>4, <1>5, <1>6
<1>8. (pc[t] = "rtake" => r >= 1) /\ (pc[t] = "wfill" => w >= 1)
  BY <1>2, <1>5, CountPos DEF InW, InR
<1>9. PICK n \in Nat : n = l - g
  BY <1>7
<1>10. n <= cap /\ (pc[t] = "rtake" => n >= 1) /\ (pc[t] = "wfill" => n < cap)
  BY <1>7, <1>8, <1>9
<1>11. n = Pending(p)
  BY <1>5, <1>9 DEF Pending
<1> QED BY <1>1, <1>2, <1>5, <1>6, <1>9, <1>10, <1>11

(* The first message is the next in the order it was sent.                 *)
LEMMA MsgRead ==
    ASSUME KeepInductive, NEW t \in Threads, NEW p \in Ids, NEW m \in Messages,
           pc[t] = "rtake", pc'[t] = "rrel",
           Len(got[p]) < Len(sent[p]), m = sent[p][Len(got[p]) + 1],
           sent' = sent, nmsg' = nmsg, freedBufs' = freedBufs, tmsg'[t] = Buf(m),
           Len(got'[p]) = Len(got[p]) + 1,
           \A q \in Ids : q # p => got'[q] = got[q],
           \A u \in Threads : u # t => pc'[u] = pc[u] /\ tmsg'[u] = tmsg[u]
    PROVE  MsgInv'
<1>1. MsgInv /\ OrderInv
  BY KeepParts
<1>2. \A q \in Ids : Len(got[q]) \in Nat /\ Len(sent[q]) \in Nat /\ Len(got[q]) <= Len(sent[q])
  BY <1>1 DEF OrderInv
<1>3. Writers' = Writers /\ Readers' = Readers \cup {t} /\ t \notin Readers /\ t \notin Writers
  BY DEF Writers, Readers
<1>4. \A u \in Writers \cup Readers : u # t /\ tmsg'[u] = tmsg[u]
  BY <1>3 DEF Writers, Readers
<1>5. \A q \in Ids : \A i \in 1 .. Len(got[q]) :
         i \in 1 .. Len(sent[q]) /\ i \in 1 .. Len(got'[q])
  BY <1>2
<1>6. Len(got[p]) + 1 \in 1 .. Len(sent[p]) /\ Len(got[p]) + 1 \in 1 .. Len(got'[p])
  BY <1>2
<1>7. ASSUME NEW q \in Ids, NEW i \in 1 .. Len(got[q])
      PROVE  sent[q][i] # m
  <2>1. SUFFICES ASSUME sent[q][i] = m
                 PROVE  FALSE
    OBVIOUS
  <2>2. q = p /\ i = Len(got[p]) + 1
    BY <1>1, <1>5, <1>6, <2>1 DEF MsgInv
  <2> QED BY <1>2, <2>2
<1>8. /\ \A q \in Ids : \A i \in 1 .. Len(sent'[q]) : sent'[q][i] <= nmsg'
      /\ \A q, r \in Ids : \A i \in 1 .. Len(sent'[q]), j \in 1 .. Len(sent'[r]) :
            sent'[q][i] = sent'[r][j] => q = r /\ i = j
  BY <1>1 DEF MsgInv
<1>9. \A u \in Writers' :
         /\ tmsg'[u] \in 1 .. nmsg'
         /\ \A q \in Ids : \A i \in 1 .. Len(sent'[q]) : sent'[q][i] # tmsg'[u]
         /\ \A v \in Writers' : tmsg'[v] = tmsg'[u] => v = u
  BY <1>1, <1>3, <1>4 DEF MsgInv
<1>10. \A x \in freedBufs' : \E q \in Ids : \E i \in 1 .. Len(got'[q]) : sent'[q][i] = x
  BY <1>1, <1>5 DEF MsgInv
<1>11. Buf(m) # Null => Buf(m) = m
  BY DEF Buf
<1>12. \A u \in Readers : tmsg[u] # Null =>
          \E q \in Ids : \E i \in 1 .. Len(got[q]) : sent[q][i] = tmsg[u]
  BY <1>1 DEF MsgInv
<1>13. m \notin freedBufs /\ \A u \in Readers : tmsg[u] # Null => tmsg[u] # m
  BY <1>1, <1>7, <1>12 DEF MsgInv
<1>14. \A u \in Readers' : tmsg'[u] # Null =>
          /\ tmsg'[u] \notin freedBufs'
          /\ \E q \in Ids : \E i \in 1 .. Len(got'[q]) : sent'[q][i] = tmsg'[u]
          /\ \A v \in Readers' : tmsg'[v] = tmsg'[u] => v = u
  <2>1. SUFFICES ASSUME NEW u \in Readers', tmsg'[u] # Null
                 PROVE  /\ tmsg'[u] \notin freedBufs
                        /\ \E q \in Ids : \E i \in 1 .. Len(got'[q]) : sent[q][i] = tmsg'[u]
                        /\ \A v \in Readers' : tmsg'[v] = tmsg'[u] => v = u
    OBVIOUS
  <2>2. CASE u = t
    <3>1. tmsg'[u] = m
      BY <1>11, <2>1, <2>2
    <3>2. \A v \in Readers : tmsg'[v] # m
      BY <1>4, <1>13, <2>1, <3>1
    <3>3. \E q \in Ids : \E i \in 1 .. Len(got'[q]) : sent[q][i] = m
      BY <1>6
    <3> QED BY <1>3, <1>13, <2>2, <3>1, <3>2, <3>3
  <2>3. CASE u \in Readers
    <3>1. /\ tmsg'[u] = tmsg[u] /\ tmsg[u] \notin freedBufs
          /\ \A v \in Readers : tmsg[v] = tmsg[u] => v = u
      BY <1>1, <1>4, <2>1, <2>3 DEF MsgInv
    <3>2. \E q \in Ids : \E i \in 1 .. Len(got'[q]) : sent[q][i] = tmsg[u]
      BY <1>5, <1>12, <2>1, <2>3, <3>1
    <3>3. tmsg'[t] # tmsg[u]
      BY <1>11, <1>13, <2>1, <2>3, <3>1
    <3> QED BY <1>3, <1>4, <3>1, <3>2, <3>3
  <2> QED BY <1>3, <2>1, <2>2, <2>3
<1> QED BY <1>8, <1>9, <1>10, <1>14 DEF MsgInv

(* A ring from which the message at its tail was taken.                    *)
RingBefore(s, p, cap, l, g) ==
    cap = capacity[s] /\ l = Len(sent[p]) /\ g = Len(got[p]) /\ RingOf(s, p)
TailTaken(s, p, cap, g) ==
    /\ DOMAIN ring'[p] = DOMAIN ring[p]
    /\ \A k \in DOMAIN ring[p] : k # tail[s] => ring'[p][k] = ring[p][k]
    /\ tail'[s] = After(tail[s], cap) /\ head'[s] = head[s] /\ capacity'[s] = cap
    /\ sent'[p] = sent[p] /\ Len(got'[p]) = g + 1

(* The rest of the ring is what was sent and not yet read.                 *)
LEMMA RingTaken ==
    ASSUME NEW s \in Slots, NEW p \in Ids, NEW cap \in Nat \ {0},
           NEW l \in Nat, NEW g \in Nat, NEW n \in Nat,
           n = l - g, n >= 1, n <= cap,
           RingBefore(s, p, cap, l, g), TailTaken(s, p, cap, g)
    PROVE  RingOf(s, p)'
<1>1. l - (g + 1) = n - 1
  OBVIOUS
<1>2. Pending(p) = n /\ Pending(p)' = n - 1
  BY <1>1 DEF Pending, RingBefore, TailTaken
<1>3. PICK k \in 0 .. cap - 1 : k = tail[s]
  BY DEF RingOf, RingBefore
<1>4. PICK a \in 0 .. cap - 1 : a = After(k, cap)
  BY AfterFacts
<1>5. /\ Place(k, 0, cap) = k
      /\ \A i \in 0 .. cap : Place(k, i, cap) \in 0 .. cap - 1
      /\ \A i \in 0 .. cap - 1 : Place(a, i, cap) = Place(k, i + 1, cap)
      /\ \A i, j \in 0 .. cap - 1 : Place(k, i, cap) = Place(k, j, cap) => i = j
  <2>1. /\ Place(k, 0, cap) = k
        /\ \A i \in 0 .. cap : Place(k, i, cap) \in 0 .. cap - 1
        /\ \A i \in 0 .. cap - 1 : Place(After(k, cap), i, cap) = Place(k, i + 1, cap)
        /\ \A i, j \in 0 .. cap - 1 : Place(k, i, cap) = Place(k, j, cap) => i = j
    BY ZenonT(30), PlaceFacts
  <2> QED BY <1>4, <2>1
<1>6. /\ DOMAIN ring[p] = 0 .. cap - 1 /\ head[s] \in 0 .. cap - 1
      /\ head[s] = Place(k, n, cap)
      /\ \A i \in 0 .. n - 1 :
            ring[p][Place(k, i, cap)]
               = [code |-> sent[p][g + i + 1], buf |-> Buf(sent[p][g + i + 1])]
  BY <1>2, <1>3 DEF RingOf, RingBefore
<1>7. head'[s] = Place(tail'[s], n - 1, cap)
  <2>1. n - 1 \in 0 .. cap - 1 /\ (n - 1) + 1 = n
    BY <1>2
  <2> QED BY <1>3, <1>4, <1>5, <1>6, <2>1 DEF TailTaken
<1>8. ASSUME NEW i \in 0 .. (n - 1) - 1
      PROVE  ring'[p][Place(a, i, cap)]
                = [code |-> sent'[p][(g + 1) + i + 1], buf |-> Buf(sent'[p][(g + 1) + i + 1])]
  <2>1. /\ i \in 0 .. cap - 1 /\ i + 1 \in 0 .. n - 1 /\ i + 1 \in 0 .. cap - 1
        /\ 0 \in 0 .. cap - 1 /\ i + 1 # 0 /\ g + (i + 1) + 1 = (g + 1) + i + 1
    BY <1>2
  <2>2. PICK j \in 0 .. cap - 1 : j = i + 1
    BY <2>1
  <2>3. /\ Place(a, i, cap) = Place(k, j, cap) /\ Place(k, j, cap) # k
        /\ Place(k, j, cap) \in 0 .. cap - 1
    BY <1>5, <2>1, <2>2
  <2>4. ring'[p][Place(k, j, cap)] = ring[p][Place(k, j, cap)]
    BY <1>3, <1>6, <2>3 DEF TailTaken
  <2> QED BY <1>6, <2>1, <2>2, <2>3, <2>4 DEF TailTaken
<1>9. /\ DOMAIN ring'[p] = 0 .. cap - 1
      /\ head'[s] \in 0 .. cap - 1 /\ tail'[s] \in 0 .. cap - 1 /\ n - 1 >= 0
      /\ tail'[s] = a /\ capacity'[s] = cap /\ Len(got'[p]) = g + 1
  BY <1>3, <1>4, <1>6 DEF TailTaken
<1> QED BY <1>2, <1>3, <1>4, <1>7, <1>8, <1>9 DEF RingOf, Place, Buf

(* A ring to which a message was attached at its head.                     *)
HeadFilled(s, p, cap, l, m) ==
    /\ DOMAIN ring'[p] = DOMAIN ring[p]
    /\ ring'[p][head[s]] = [code |-> m, buf |-> Buf(m)]
    /\ \A k \in DOMAIN ring[p] : k # head[s] => ring'[p][k] = ring[p][k]
    /\ head'[s] = After(head[s], cap) /\ tail'[s] = tail[s] /\ capacity'[s] = cap
    /\ got'[p] = got[p] /\ Len(sent'[p]) = l + 1 /\ sent'[p][l + 1] = m
    /\ \A i \in 1 .. l : sent'[p][i] = sent[p][i]

(* The ring ends with the message that was attached.                       *)
LEMMA RingFilled ==
    ASSUME NEW s \in Slots, NEW p \in Ids, NEW cap \in Nat \ {0},
           NEW l \in Nat, NEW g \in Nat, NEW n \in Nat, NEW m,
           n = l - g, n < cap,
           RingBefore(s, p, cap, l, g), HeadFilled(s, p, cap, l, m)
    PROVE  RingOf(s, p)'
<1>1. (l + 1) - g = n + 1
  OBVIOUS
<1>2. Pending(p) = n /\ Pending(p)' = n + 1
  BY <1>1 DEF Pending, RingBefore, HeadFilled
<1>3. PICK k \in 0 .. cap - 1 : k = tail[s]
  BY DEF RingOf, RingBefore
<1>5. /\ \A i \in 0 .. cap : Place(k, i, cap) \in 0 .. cap - 1
      /\ \A i \in 0 .. cap - 1 : After(Place(k, i, cap), cap) = Place(k, i + 1, cap)
      /\ \A i, j \in 0 .. cap - 1 : Place(k, i, cap) = Place(k, j, cap) => i = j
  BY PlaceFacts
<1>6. /\ DOMAIN ring[p] = 0 .. cap - 1 /\ head[s] \in 0 .. cap - 1
      /\ head[s] = Place(k, n, cap)
      /\ \A i \in 0 .. n - 1 :
            ring[p][Place(k, i, cap)]
               = [code |-> sent[p][g + i + 1], buf |-> Buf(sent[p][g + i + 1])]
  BY <1>2, <1>3 DEF RingOf, RingBefore
<1>7. n \in 0 .. cap - 1 /\ n + 1 \in 0 .. cap
  BY <1>2
<1>8. head'[s] = Place(k, n + 1, cap) /\ head'[s] \in 0 .. cap - 1
  BY <1>5, <1>6, <1>7 DEF HeadFilled
<1>9. ASSUME NEW i \in 0 .. (n + 1) - 1
      PROVE  ring'[p][Place(k, i, cap)]
                = [code |-> sent'[p][g + i + 1], buf |-> Buf(sent'[p][g + i + 1])]
  <2>1. CASE i = n
    <3>1. g + i + 1 = l + 1
      BY <1>1, <2>1
    <3> QED BY <1>6, <2>1, <3>1 DEF HeadFilled
  <2>2. CASE i < n
    <3>1. i \in 0 .. n - 1 /\ i \in 0 .. cap - 1 /\ i # n /\ g + i + 1 \in 1 .. l
      BY <1>1, <1>2, <2>2
    <3>2. Place(k, i, cap) # head[s] /\ Place(k, i, cap) \in 0 .. cap - 1
      <4>1. Place(k, i, cap) \in 0 .. cap - 1
        BY <1>5, <3>1
      <4>2. Place(k, i, cap) # Place(k, n, cap)
        BY <1>5, <1>7, <3>1
      <4> QED BY <1>6, <4>1, <4>2
    <3>3. ring'[p][Place(k, i, cap)] = ring[p][Place(k, i, cap)]
      BY <1>6, <3>2 DEF HeadFilled
    <3> QED BY <1>6, <3>1, <3>3 DEF HeadFilled
  <2> QED BY <2>1, <2>2
<1>10. DOMAIN ring'[p] = 0 .. cap - 1 /\ tail'[s] = k /\ n + 1 >= 0
       /\ capacity'[s] = cap /\ Len(got'[p]) = g
  BY <1>3, <1>6 DEF HeadFilled, RingBefore
<1> QED BY <1>2, <1>3, <1>8, <1>9, <1>10 DEF RingOf, Place, Buf

(* The order in which messages are read, one message later.                *)
LEMMA OrderRead ==
    ASSUME OrderInv, NEW p \in Ids, NEW m \in Messages, Len(got[p]) < Len(sent[p]),
           m = sent[p][Len(got[p]) + 1],
           sent' = sent, got' = [got EXCEPT ![p] = Append(@, m)]
    PROVE  /\ OrderInv' /\ Len(got'[p]) = Len(got[p]) + 1
           /\ \A q \in Ids : q # p => got'[q] = got[q]
<1>1. PICK g \in Seq(Messages), l \in Seq(Messages) : g = got[p] /\ l = sent[p]
  BY DEF OrderInv
<1>2. PICK h : h = Append(g, m)
  OBVIOUS
<1>3. /\ h \in Seq(Messages) /\ Len(h) = Len(g) + 1 /\ Len(g) \in Nat /\ Len(l) \in Nat
      /\ \A i \in 1 .. Len(g) : h[i] = g[i]
      /\ h[Len(g) + 1] = m
  BY <1>2
<1>4. /\ got' \in [Ids -> Seq(Messages)] /\ got'[p] = h
      /\ \A q \in Ids : q # p => got'[q] = got[q]
  BY <1>1, <1>2, <1>3 DEF OrderInv
<1>5. Len(g) <= Len(l) /\ \A i \in 1 .. Len(g) : g[i] = l[i]
  BY <1>1 DEF OrderInv
<1>6. Len(h) <= Len(l) /\ \A i \in 1 .. Len(h) : h[i] = l[i]
  <2>1. Len(g) < Len(l) /\ m = l[Len(g) + 1]
    BY <1>1
  <2>2. Len(h) <= Len(l) /\ \A i \in 1 .. Len(h) : i \in 1 .. Len(g) \/ i = Len(g) + 1
    BY <1>3, <2>1
  <2>3. ASSUME NEW i \in 1 .. Len(h)
        PROVE  h[i] = l[i]
    <3>1. CASE i \in 1 .. Len(g)
      BY <1>3, <1>5, <3>1
    <3>2. CASE i = Len(g) + 1
      BY <1>3, <2>1, <3>2
    <3> QED BY <2>2, <3>1, <3>2
  <2> QED BY <2>2, <2>3
<1>7. ASSUME NEW q \in Ids
      PROVE  /\ Len(got'[q]) <= Len(sent'[q])
             /\ \A i \in 1 .. Len(got'[q]) : got'[q][i] = sent'[q][i]
  <2>1. CASE q = p
    BY <1>1, <1>4, <1>6, <2>1
  <2>2. CASE q # p
    BY <1>4, <2>2 DEF OrderInv
  <2> QED BY <2>1, <2>2
<1> QED BY <1>1, <1>3, <1>4, <1>7 DEF OrderInv

(* One message more is sent.                                               *)
LEMMA OrderSent ==
    ASSUME OrderInv, NEW p \in Ids, NEW m \in Messages,
           got' = got, sent' = [sent EXCEPT ![p] = Append(@, m)]
    PROVE  /\ OrderInv' /\ Len(sent'[p]) = Len(sent[p]) + 1
           /\ sent'[p][Len(sent[p]) + 1] = m
           /\ \A i \in 1 .. Len(sent[p]) : sent'[p][i] = sent[p][i]
           /\ \A q \in Ids : q # p => sent'[q] = sent[q]
<1>1. PICK g \in Seq(Messages), l \in Seq(Messages) : g = got[p] /\ l = sent[p]
  BY DEF OrderInv
<1>2. PICK h : h = Append(l, m)
  OBVIOUS
<1>3. /\ h \in Seq(Messages) /\ Len(h) = Len(l) + 1 /\ Len(g) \in Nat /\ Len(l) \in Nat
      /\ \A i \in 1 .. Len(l) : h[i] = l[i]
      /\ h[Len(l) + 1] = m
  BY <1>2
<1>4. /\ sent' \in [Ids -> Seq(Messages)] /\ sent'[p] = h
      /\ \A q \in Ids : q # p => sent'[q] = sent[q]
  BY <1>1, <1>2, <1>3 DEF OrderInv
<1>5. Len(g) <= Len(l) /\ \A i \in 1 .. Len(g) : g[i] = l[i]
  BY <1>1 DEF OrderInv
<1>6. Len(g) <= Len(h) /\ \A i \in 1 .. Len(g) : g[i] = h[i]
  BY <1>3, <1>5
<1>7. ASSUME NEW q \in Ids
      PROVE  /\ Len(got'[q]) <= Len(sent'[q])
             /\ \A i \in 1 .. Len(got'[q]) : got'[q][i] = sent'[q][i]
  <2>1. CASE q = p
    BY <1>1, <1>4, <1>6, <2>1
  <2>2. CASE q # p
    BY <1>4, <2>2 DEF OrderInv
  <2> QED BY <2>1, <2>2
<1> QED BY <1>1, <1>3, <1>4, <1>7 DEF OrderInv

(* A writer's message is now one of those sent.                            *)
LEMMA MsgSent ==
    ASSUME KeepInductive, NEW t \in Threads, NEW p \in Ids, NEW l \in Nat,
           pc[t] = "wfill", pc'[t] = "wrel", l = Len(sent[p]),
           Len(sent'[p]) = l + 1, sent'[p][l + 1] = tmsg[t],
           \A i \in 1 .. l : sent'[p][i] = sent[p][i],
           \A q \in Ids : q # p => sent'[q] = sent[q],
           got' = got, nmsg' = nmsg, freedBufs' = freedBufs, tmsg' = tmsg,
           \A u \in Threads : u # t => pc'[u] = pc[u]
    PROVE  MsgInv'
<1>1. MsgInv /\ OrderInv /\ nmsg \in 0 .. MaxMsgs
  BY KeepParts DEF HeapType
<1>2. \A q \in Ids : Len(got[q]) \in Nat /\ Len(sent[q]) \in Nat /\ Len(got[q]) <= Len(sent[q])
  BY <1>1 DEF OrderInv
<1>3. Writers' = Writers \ {t} /\ t \in Writers /\ Readers' = Readers
  BY DEF Writers, Readers
<1>4. /\ tmsg[t] \in 1 .. nmsg
      /\ \A q \in Ids : \A i \in 1 .. Len(sent[q]) : sent[q][i] # tmsg[t]
      /\ \A u \in Writers : tmsg[u] = tmsg[t] => u = t
  BY <1>1, <1>3 DEF MsgInv
<1>5. ASSUME NEW q \in Ids, NEW i \in 1 .. Len(sent'[q])
      PROVE  \/ i \in 1 .. Len(sent[q]) /\ sent'[q][i] = sent[q][i]
             \/ q = p /\ i = l + 1 /\ sent'[q][i] = tmsg[t]
  <2>1. CASE q # p
    BY <1>5, <2>1
  <2>2. CASE q = p
    <3>1. i \in 1 .. l + 1
      BY <2>2
    <3> QED BY <2>2, <3>1
  <2> QED BY <2>1, <2>2
<1>6. \A q \in Ids : \A i \in 1 .. Len(sent'[q]) : sent'[q][i] <= nmsg'
  BY <1>1, <1>4, <1>5 DEF MsgInv
<1>7. ASSUME NEW q \in Ids, NEW r \in Ids,
             NEW i \in 1 .. Len(sent'[q]), NEW j \in 1 .. Len(sent'[r]),
             sent'[q][i] = sent'[r][j]
      PROVE  q = r /\ i = j
  <2>1. \/ i \in 1 .. Len(sent[q]) /\ sent'[q][i] = sent[q][i]
        \/ q = p /\ i = l + 1 /\ sent'[q][i] = tmsg[t]
    BY <1>5
  <2>2. \/ j \in 1 .. Len(sent[r]) /\ sent'[r][j] = sent[r][j]
        \/ r = p /\ j = l + 1 /\ sent'[r][j] = tmsg[t]
    BY <1>5
  <2>3. CASE i \in 1 .. Len(sent[q]) /\ sent'[q][i] = sent[q][i]
    BY <1>1, <1>4, <1>7, <2>2, <2>3 DEF MsgInv
  <2>4. CASE q = p /\ i = l + 1 /\ sent'[q][i] = tmsg[t]
    BY <1>4, <1>7, <2>2, <2>4
  <2> QED BY <2>1, <2>3, <2>4
<1>8. \A u \in Writers' :
         /\ tmsg'[u] \in 1 .. nmsg'
         /\ \A q \in Ids : \A i \in 1 .. Len(sent'[q]) : sent'[q][i] # tmsg'[u]
         /\ \A v \in Writers' : tmsg'[v] = tmsg'[u] => v = u
  <2>1. SUFFICES ASSUME NEW u \in Writers, u # t
                 PROVE  /\ tmsg[u] \in 1 .. nmsg
                        /\ \A q \in Ids : \A i \in 1 .. Len(sent'[q]) : sent'[q][i] # tmsg[u]
                        /\ \A v \in Writers : tmsg[v] = tmsg[u] => v = u
    BY <1>3
  <2>2. /\ tmsg[u] \in 1 .. nmsg
        /\ \A q \in Ids : \A i \in 1 .. Len(sent[q]) : sent[q][i] # tmsg[u]
        /\ \A v \in Writers : tmsg[v] = tmsg[u] => v = u
    BY <1>1 DEF MsgInv
  <2>3. tmsg[t] # tmsg[u]
    BY <1>4, <2>1
  <2>4. \A q \in Ids : \A i \in 1 .. Len(sent'[q]) : sent'[q][i] # tmsg[u]
    BY <1>5, <2>2, <2>3
  <2> QED BY <2>2, <2>4
<1>9. ASSUME NEW x, \E q \in Ids : \E i \in 1 .. Len(got[q]) : sent[q][i] = x
      PROVE  \E q \in Ids : \E i \in 1 .. Len(got'[q]) : sent'[q][i] = x
  <2>1. PICK q \in Ids : \E i \in 1 .. Len(got[q]) : sent[q][i] = x
    BY <1>9
  <2>2. PICK i \in 1 .. Len(got[q]) : sent[q][i] = x
    BY <2>1
  <2>3. i \in 1 .. Len(sent[q])
    BY <1>2, <2>2
  <2>4. sent'[q][i] = sent[q][i]
    BY <2>3
  <2> QED BY <2>2, <2>4
<1>10. \A x \in freedBufs' : \E q \in Ids : \E i \in 1 .. Len(got'[q]) : sent'[q][i] = x
  BY <1>1, <1>9 DEF MsgInv
<1>11. \A u \in Readers' : tmsg'[u] # Null =>
          /\ tmsg'[u] \notin freedBufs'
          /\ \E q \in Ids : \E i \in 1 .. Len(got'[q]) : sent'[q][i] = tmsg'[u]
          /\ \A v \in Readers' : tmsg'[v] = tmsg'[u] => v = u
  BY <1>1, <1>3, <1>9 DEF MsgInv
<1> QED BY <1>6, <1>7, <1>8, <1>10, <1>11 DEF MsgInv

(* What stays when one port's ring changes: the others, and the calls.     *)
LEMMA RingRest ==
    ASSUME KeepInductive, NEW t \in Threads, NEW s \in Slots, NEW p \in Ids,
           Finish(t), pid[s] = p, p < next_port, tid[t] = p, tgen'[t] = p,
           pid' = pid, gen' = gen, capacity' = capacity, next_port' = next_port,
           plock' = plock, freed' = freed, live' = live, fault' = fault,
           units' = units, waitq' = waitq, tid' = tid,
           DOMAIN ring' = DOMAIN ring, DOMAIN tmsg' = DOMAIN tmsg,
           pc[t] \in {"rtake", "wfill"}, pc'[t] \in {"rrel", "wrel"},
           \A u \in Threads : u # t => pc'[u] = pc[u] /\ tgen'[u] = tgen[u],
           \A q \in Ids : q # p => ring'[q] = ring[q] /\ sent'[q] = sent[q] /\ got'[q] = got[q],
           \A r \in Slots : r # s => head'[r] = head[r] /\ tail'[r] = tail[r],
           OrderInv', RingOf(s, p)', MsgInv',
           \A q \in Ids : Load(q)' <= Load(q) /\ Credit(q)' = Credit(q)
    PROVE  KeepRest'
<1>0. /\ SlotType /\ HeapType /\ QueueType /\ WaitInv /\ TableInv
      /\ KeepTable /\ CallInv /\ OrderInv /\ RingInv /\ UnitsBacked /\ MsgInv
      /\ units \in [Sems -> Nat] /\ pid \in [Slots -> Ids \cup {-1}]
      /\ capacity \in [Slots -> Nat]
  BY KeepParts
<1>1. KeepTable'
  <2>1. \A u \in Threads : pc'[u] \notin {"dtake", "dfree", "dread", "dwrite"}
    BY <1>0 DEF KeepTable
  <2>2. \A q \in Ids : q >= next_port => q # p
    BY <1>0 DEF SlotType, Ids
  <2>3. KeepFrame
    BY DEF KeepFrame
  <2> QED BY <1>0, <2>1, <2>2, <2>3, KeepTableStep
<1>2. CallInv'
  <2>1. \A x \in Sems, u \in Threads : Contains(waitq'[x], u) =>
           Contains(waitq[x], u) /\ pc'[u] = pc[u] /\ tid'[u] = tid[u]
    BY <1>0 DEF WaitInv, WaitPoints
  <2>2. \A u \in Threads : pc'[u] # "run" =>
              \/ pc[u] # "run" /\ tid'[u] = tid[u]
              \/ pid[SlotOf(tid'[u])] = tid'[u]
    OBVIOUS
  <2>3. \A u \in Threads : pc'[u] \notin {"run", "bacq", "bwait", "bpeek"} =>
              \/ /\ pc[u] \notin {"run", "bacq", "bwait", "bpeek"}
                 /\ tgen'[u] = tgen[u] /\ tid'[u] = tid[u]
              \/ tgen'[u] = tid'[u]
    OBVIOUS
  <2> QED BY <1>0, <2>1, <2>2, <2>3, CallStep
<1>3. RingInv'
  <2>1. ASSUME NEW r \in Slots, NEW q \in Ids, pid'[r] = q
        PROVE  RingOf(r, q)'
    <3>1. r = s <=> q = p
      BY <2>1, OneSlot
    <3>2. CASE r = s
      BY <3>1, <3>2
    <3>3. CASE r # s
      <4>1. RingOf(r, q)
        BY <1>0, <2>1, RingIs
      <4> QED BY <3>1, <3>3, <4>1, RingSame
    <3> QED BY <3>2, <3>3
  <2> QED BY <1>0, <2>1, RingNext
<1>4. UnitsBacked'
  BY <1>0, UnitsStep
<1> QED BY <1>1, <1>2, <1>3, <1>4 DEF KeepRest

(* read_port_etc takes the message at the tail.                            *)
LEMMA ReadTakeKeep ==
    ASSUME KeepInductive, NEW t \in Threads, ReadTake(t)
    PROVE  KeepRest'
<1>0. /\ SlotType /\ HeapType /\ QueueType /\ KeepTable /\ OrderInv /\ RingInv
      /\ units \in [Sems -> Nat]
  BY KeepParts
<1>1. pc[t] = "rtake" /\ Finish(t)
  BY DEF ReadTake, Finish
<1>2. PICK s \in Slots, p \in Ids, cap \in Nat \ {0}, n \in Nat, l \in Nat, g \in Nat :
         /\ s = SlotOf(tid[t]) /\ p = tid[t] /\ pid[s] = p /\ gen[s] = p
         /\ tgen[t] = p /\ p < next_port /\ next_port \in Nat
         /\ cap = capacity[s] /\ n = Pending(p) /\ l = Len(sent[p]) /\ g = Len(got[p])
         /\ n = l - g /\ n <= cap /\ n >= 1 /\ RingOf(s, p)
  <2>1. PICK s \in Slots, p \in Ids, cap \in Nat \ {0}, n \in Nat, l \in Nat, g \in Nat :
           /\ s = SlotOf(tid[t]) /\ p = tid[t] /\ pid[s] = p /\ gen[s] = p
           /\ tgen[t] = p /\ p < next_port /\ next_port \in Nat
           /\ cap = capacity[s] /\ n = Pending(p) /\ l = Len(sent[p]) /\ g = Len(got[p])
           /\ n = l - g /\ n <= cap
           /\ pc[t] = "rtake" => n >= 1
           /\ pc[t] = "wfill" => n < cap
           /\ RingOf(s, p)
    <3>1. pc[t] \in {"rtake", "wfill"}
      BY <1>1
    <3> QED BY <3>1, RingFacts
  <2> QED BY <1>1, <2>1
<1>3. PICK m \in Messages : m = sent[p][g + 1]
  <2>1. sent[p] \in Seq(Messages) /\ g + 1 \in 1 .. Len(sent[p])
    BY <1>0, <1>2 DEF OrderInv
  <2> QED BY <2>1, ElementOfSeq
<1>4. tail[s] \in DOMAIN ring[p] /\ ring[p][tail[s]] = [code |-> m, buf |-> Buf(m)]
  <2>0. 0 \in 0 .. n - 1
    BY <1>2
  <2>1. /\ tail[s] \in 0 .. cap - 1 /\ DOMAIN ring[p] = 0 .. cap - 1
        /\ \A i \in 0 .. n - 1 :
              ring[p][Place(tail[s], i, cap)]
                 = [code |-> sent[p][g + i + 1], buf |-> Buf(sent[p][g + i + 1])]
    BY <1>2 DEF RingOf
  <2>2. Place(tail[s], 0, cap) = tail[s]
    BY <2>1, PlaceFacts
  <2>3. ring[p][Place(tail[s], 0, cap)]
                 = [code |-> sent[p][g + 0 + 1], buf |-> Buf(sent[p][g + 0 + 1])]
    BY <2>0, <2>1
  <2>4. g + 0 + 1 = g + 1
    OBVIOUS
  <2> QED BY <1>3, <2>1, <2>2, <2>3, <2>4
<1>5. /\ tail' = [tail EXCEPT ![s] = After(@, capacity[s])]
      /\ ring' = [ring EXCEPT ![p][tail[s]].buf = Null]
      /\ tmsg' = [tmsg EXCEPT ![t] = Buf(m)]
      /\ tgen' = [tgen EXCEPT ![t] = p]
      /\ got' = [got EXCEPT ![p] = Append(@, m)]
      /\ pc' = [pc EXCEPT ![t] = "rrel"]
      /\ pid' = pid /\ gen' = gen /\ capacity' = capacity /\ head' = head
      /\ plock' = plock /\ next_port' = next_port /\ freed' = freed /\ freedBufs' = freedBufs
      /\ live' = live /\ units' = units /\ waitq' = waitq /\ tid' = tid /\ nmsg' = nmsg
      /\ sent' = sent /\ fault' = fault
  BY <1>2, <1>4 DEF ReadTake, Goto, semVars
<1>6. /\ tail'[s] = After(tail[s], cap) /\ \A r \in Slots : r # s => tail'[r] = tail[r]
      /\ tmsg'[t] = Buf(m) /\ \A u \in Threads : u # t => tmsg'[u] = tmsg[u]
      /\ tgen'[t] = p /\ \A u \in Threads : u # t => tgen'[u] = tgen[u]
      /\ pc'[t] = "rrel" /\ \A u \in Threads : u # t => pc'[u] = pc[u]
      /\ DOMAIN tmsg' = DOMAIN tmsg
  BY <1>0, <1>2, <1>5 DEF SlotType, HeapType, QueueType, KeepTable
<1>7. /\ DOMAIN ring' = DOMAIN ring /\ DOMAIN ring'[p] = DOMAIN ring[p]
      /\ \A k \in DOMAIN ring[p] : k # tail[s] => ring'[p][k] = ring[p][k]
      /\ \A q \in Ids : q # p => ring'[q] = ring[q]
  BY <1>0, <1>5 DEF KeepTable
<1>8. /\ OrderInv' /\ Len(got'[p]) = g + 1
      /\ \A q \in Ids : q # p => got'[q] = got[q]
  <2>1. Len(got[p]) < Len(sent[p]) /\ m = sent[p][Len(got[p]) + 1]
    BY <1>2, <1>3
  <2> QED BY <1>0, <1>2, <1>5, <2>1, OrderRead
<1>9. RingOf(s, p)'
  <2>1. RingBefore(s, p, cap, l, g)
    BY <1>2 DEF RingBefore
  <2>2. TailTaken(s, p, cap, g)
    BY <1>2, <1>5, <1>6, <1>7, <1>8 DEF TailTaken
  <2> QED BY <1>2, <2>1, <2>2, RingTaken
<1>10. MsgInv'
  <2>1. /\ Len(got[p]) < Len(sent[p]) /\ m = sent[p][Len(got[p]) + 1]
        /\ Len(got'[p]) = Len(got[p]) + 1
    BY <1>2, <1>3, <1>8
  <2> QED BY <1>1, <1>5, <1>6, <1>8, <2>1, MsgRead
<1>11. ASSUME NEW q \in Ids
       PROVE  Load(q)' <= Load(q) /\ Credit(q)' = Credit(q)
  <2>1. /\ units[<<"write", q>>] \in Nat /\ units[<<"read", q>>] \in Nat
        /\ Pending(q) \in Int
        /\ CountW(q) \in Nat /\ CountR(q) \in Nat /\ CountB(q) \in Nat
    BY <1>0, LoadTypes
  <2>2. /\ CountW(q)' = CountW(q) + Bit(InW(t, q)') - Bit(InW(t, q))
        /\ CountR(q)' = CountR(q) + Bit(InR(t, q)') - Bit(InR(t, q))
        /\ CountB(q)' = CountB(q) + Bit(InB(t, q)') - Bit(InB(t, q))
    BY <1>5, <1>6, OneMoves
  <2>3. /\ ~InW(t, q) /\ (InR(t, q) <=> q = p) /\ ~InB(t, q)
        /\ (InW(t, q)' <=> q = p) /\ ~InR(t, q)' /\ ~InB(t, q)'
    BY <1>1, <1>2, <1>6 DEF InW, InR, InB
  <2>4. CASE q = p
    <3>1. Pending(q)' = Pending(q) - 1
      <4>1. Pending(q) = l - g /\ Pending(q)' = l - (g + 1)
        BY <1>2, <1>5, <1>8, <2>4 DEF Pending
      <4> QED BY <4>1
    <3>2. CountW(q)' = CountW(q) + 1 /\ CountR(q)' = CountR(q) - 1 /\ CountB(q)' = CountB(q)
      BY <2>1, <2>2, <2>3, <2>4 DEF Bit
    <3>3. PICK a \in Nat, b \in Nat, w \in Nat, x \in Nat, z \in Nat, d \in Int :
             /\ a = units[<<"write", q>>] /\ b = units[<<"read", q>>] /\ d = Pending(q)
             /\ w = CountW(q) /\ x = CountR(q) /\ z = CountB(q)
      BY <2>1
    <3>4. Load(q) = a + w + d /\ Credit(q) = b + x + z - d
      BY <3>3 DEF Load, Credit
    <3>5. Load(q)' = a + (w + 1) + (d - 1) /\ Credit(q)' = b + (x - 1) + z - (d - 1)
      BY <1>5, <3>1, <3>2, <3>3 DEF Load, Credit
    <3> QED BY <3>4, <3>5
  <2>5. CASE q # p
    <3>1. Pending(q)' = Pending(q)
      BY <1>5, <1>8, <2>5 DEF Pending
    <3>2. CountW(q)' = CountW(q) /\ CountR(q)' = CountR(q) /\ CountB(q)' = CountB(q)
      BY <2>1, <2>2, <2>3, <2>5 DEF Bit
    <3>3. Load(q)' = Load(q) /\ Credit(q)' = Credit(q)
      BY <1>5, <3>1, <3>2 DEF Load, Credit
    <3>4. Load(q) \in Int
      BY <2>1 DEF Load
    <3> QED BY <3>3, <3>4
  <2> QED BY <2>4, <2>5
<1> QED BY SMTT(30), <1>1, <1>2, <1>5, <1>6, <1>7, <1>8, <1>9, <1>10, <1>11, RingRest

(* write_port_etc attaches its message at the head.                        *)
LEMMA WriteAttachKeep ==
    ASSUME KeepInductive, NEW t \in Threads, WriteAttach(t)
    PROVE  KeepRest'
<1>0. /\ SlotType /\ HeapType /\ QueueType /\ KeepTable /\ OrderInv /\ RingInv /\ MsgInv
      /\ units \in [Sems -> Nat]
  BY KeepParts
<1>1. pc[t] = "wfill" /\ Finish(t)
  BY DEF WriteAttach, Finish
<1>2. PICK s \in Slots, p \in Ids, cap \in Nat \ {0}, n \in Nat, l \in Nat, g \in Nat :
         /\ s = SlotOf(tid[t]) /\ p = tid[t] /\ pid[s] = p /\ gen[s] = p
         /\ tgen[t] = p /\ p < next_port /\ next_port \in Nat
         /\ cap = capacity[s] /\ n = Pending(p) /\ l = Len(sent[p]) /\ g = Len(got[p])
         /\ n = l - g /\ n < cap /\ RingOf(s, p)
  <2>1. PICK s \in Slots, p \in Ids, cap \in Nat \ {0}, n \in Nat, l \in Nat, g \in Nat :
           /\ s = SlotOf(tid[t]) /\ p = tid[t] /\ pid[s] = p /\ gen[s] = p
           /\ tgen[t] = p /\ p < next_port /\ next_port \in Nat
           /\ cap = capacity[s] /\ n = Pending(p) /\ l = Len(sent[p]) /\ g = Len(got[p])
           /\ n = l - g /\ n <= cap
           /\ pc[t] = "rtake" => n >= 1
           /\ pc[t] = "wfill" => n < cap
           /\ RingOf(s, p)
    <3>1. pc[t] \in {"rtake", "wfill"}
      BY <1>1
    <3> QED BY <3>1, RingFacts
  <2> QED BY <1>1, <2>1
<1>3. PICK m \in Messages : m = tmsg[t]
  BY <1>0, <1>1, PortAssumption DEF MsgInv, Writers, HeapType, Messages
<1>4. head[s] \in DOMAIN ring[p]
  BY <1>2 DEF RingOf
<1>5. /\ head' = [head EXCEPT ![s] = After(@, capacity[s])]
      /\ ring' = [ring EXCEPT ![p][head[s]] = [code |-> m, buf |-> Buf(m)]]
      /\ tgen' = [tgen EXCEPT ![t] = p]
      /\ sent' = [sent EXCEPT ![p] = Append(@, m)]
      /\ pc' = [pc EXCEPT ![t] = "wrel"]
      /\ pid' = pid /\ gen' = gen /\ capacity' = capacity /\ tail' = tail
      /\ plock' = plock /\ next_port' = next_port /\ freed' = freed /\ freedBufs' = freedBufs
      /\ live' = live /\ units' = units /\ waitq' = waitq /\ tid' = tid /\ nmsg' = nmsg
      /\ tmsg' = tmsg /\ got' = got /\ fault' = fault
  BY <1>2, <1>3 DEF WriteAttach, Goto, semVars
<1>6. /\ head'[s] = After(head[s], cap) /\ \A r \in Slots : r # s => head'[r] = head[r]
      /\ tgen'[t] = p /\ \A u \in Threads : u # t => tgen'[u] = tgen[u]
      /\ pc'[t] = "wrel" /\ \A u \in Threads : u # t => pc'[u] = pc[u]
  BY <1>0, <1>2, <1>5 DEF SlotType, HeapType, QueueType
<1>7. /\ DOMAIN ring' = DOMAIN ring /\ DOMAIN ring'[p] = DOMAIN ring[p]
      /\ ring'[p][head[s]] = [code |-> m, buf |-> Buf(m)]
      /\ \A k \in DOMAIN ring[p] : k # head[s] => ring'[p][k] = ring[p][k]
      /\ \A q \in Ids : q # p => ring'[q] = ring[q]
  BY <1>0, <1>4, <1>5 DEF KeepTable
<1>8. /\ OrderInv' /\ Len(sent'[p]) = l + 1 /\ sent'[p][l + 1] = m
      /\ \A i \in 1 .. l : sent'[p][i] = sent[p][i]
      /\ \A q \in Ids : q # p => sent'[q] = sent[q]
  <2>1. /\ OrderInv' /\ Len(sent'[p]) = Len(sent[p]) + 1
        /\ sent'[p][Len(sent[p]) + 1] = m
        /\ \A i \in 1 .. Len(sent[p]) : sent'[p][i] = sent[p][i]
        /\ \A q \in Ids : q # p => sent'[q] = sent[q]
    BY <1>0, <1>5, OrderSent
  <2> QED BY <1>2, <2>1
<1>9. RingOf(s, p)'
  <2>1. RingBefore(s, p, cap, l, g)
    BY <1>2 DEF RingBefore
  <2>2. HeadFilled(s, p, cap, l, m)
    BY <1>2, <1>5, <1>6, <1>7, <1>8 DEF HeadFilled
  <2> QED BY <1>2, <2>1, <2>2, RingFilled
<1>10. MsgInv'
  <2>1. l = Len(sent[p]) /\ Len(sent'[p]) = l + 1 /\ sent'[p][l + 1] = tmsg[t]
    BY <1>2, <1>3, <1>8
  <2> QED BY <1>1, <1>5, <1>6, <1>8, <2>1, MsgSent
<1>11. ASSUME NEW q \in Ids
       PROVE  Load(q)' <= Load(q) /\ Credit(q)' = Credit(q)
  <2>1. /\ units[<<"write", q>>] \in Nat /\ units[<<"read", q>>] \in Nat
        /\ Pending(q) \in Int
        /\ CountW(q) \in Nat /\ CountR(q) \in Nat /\ CountB(q) \in Nat
    BY <1>0, LoadTypes
  <2>2. /\ CountW(q)' = CountW(q) + Bit(InW(t, q)') - Bit(InW(t, q))
        /\ CountR(q)' = CountR(q) + Bit(InR(t, q)') - Bit(InR(t, q))
        /\ CountB(q)' = CountB(q) + Bit(InB(t, q)') - Bit(InB(t, q))
    BY <1>5, <1>6, OneMoves
  <2>3. /\ (InW(t, q) <=> q = p) /\ ~InR(t, q) /\ ~InB(t, q)
        /\ ~InW(t, q)' /\ (InR(t, q)' <=> q = p) /\ ~InB(t, q)'
    BY <1>1, <1>2, <1>6 DEF InW, InR, InB
  <2>4. CASE q = p
    <3>1. Pending(q)' = Pending(q) + 1
      BY <1>2, <1>5, <1>8, <2>4 DEF Pending
    <3>2. CountW(q)' = CountW(q) - 1 /\ CountR(q)' = CountR(q) + 1 /\ CountB(q)' = CountB(q)
      BY <2>1, <2>2, <2>3, <2>4 DEF Bit
    <3>3. PICK a \in Nat, b \in Nat, w \in Nat, x \in Nat, z \in Nat, d \in Int :
             /\ a = units[<<"write", q>>] /\ b = units[<<"read", q>>] /\ d = Pending(q)
             /\ w = CountW(q) /\ x = CountR(q) /\ z = CountB(q)
      BY <2>1
    <3>4. Load(q) = a + w + d /\ Credit(q) = b + x + z - d
      BY <3>3 DEF Load, Credit
    <3>5. Load(q)' = a + (w - 1) + (d + 1) /\ Credit(q)' = b + (x + 1) + z - (d + 1)
      BY <1>5, <3>1, <3>2, <3>3 DEF Load, Credit
    <3> QED BY <3>4, <3>5
  <2>5. CASE q # p
    <3>1. Pending(q)' = Pending(q)
      BY <1>5, <1>8, <2>5 DEF Pending
    <3>2. CountW(q)' = CountW(q) /\ CountR(q)' = CountR(q) /\ CountB(q)' = CountB(q)
      BY <2>1, <2>2, <2>3, <2>5 DEF Bit
    <3>3. Load(q)' = Load(q) /\ Credit(q)' = Credit(q)
      BY <1>5, <3>1, <3>2 DEF Load, Credit
    <3>4. Load(q) \in Int
      BY <2>1 DEF Load
    <3> QED BY <3>3, <3>4
  <2> QED BY <2>4, <2>5
<1> QED BY <1>1, <1>2, <1>5, <1>6, <1>7, <1>8, <1>9, <1>10, <1>11, RingRest

-----------------------------------------------------------------------------
(* A port is created, and everything together.                             *)

(* Nobody works on a port that was not created yet.                        *)
LEMMA NobodyInside ==
    ASSUME KeepInductive, NEW p \in Ids, p >= next_port
    PROVE  CountW(p) = 0 /\ CountR(p) = 0 /\ CountB(p) = 0
<1>1. ASSUME NEW u \in Threads
      PROVE  ~InW(u, p) /\ ~InR(u, p) /\ ~InB(u, p)
  <2>1. SUFFICES ASSUME pc[u] # "run"
                 PROVE  tid[u] # p /\ (pc[u] # "bpeek" => tgen[u] # p \/ pc[u] \in {"bacq", "bwait"})
    BY DEF InW, InR, InB
  <2>2. tid[u] \in Nat /\ tid[u] < next_port /\ next_port \in Nat
    <3>1. PICK q \in Ids : q = tid[u] /\ q < next_port /\ next_port \in Nat
      BY <2>1, InsideFacts
    <3> QED BY <3>1 DEF Ids
  <2>3. pc[u] \notin {"run", "bacq", "bwait", "bpeek"} => tgen[u] = tid[u]
    BY KeepParts DEF CallInv
  <2>4. tid[u] # p
    BY <2>2 DEF Ids
  <2> QED BY <2>1, <2>3, <2>4
<1>2. /\ {u \in Threads : InW(u, p)} = {} /\ {u \in Threads : InR(u, p)} = {}
      /\ {u \in Threads : InB(u, p)} = {}
  BY <1>1
<1> QED BY <1>2, FS_EmptySet DEF CountW, CountR, CountB

(* create_port makes an empty ring with a place for every entry.           *)
LEMMA CreateKeep ==
    ASSUME KeepInductive, NEW t \in Threads, NEW i \in Slots, NEW cap \in Capacities,
           create_port(t, i, cap), PortTypeOK'
    PROVE  KeepRest'
<1>0. /\ SlotType /\ HeapType /\ QueueType /\ WaitInv /\ TableInv
      /\ KeepTable /\ CallInv /\ OrderInv /\ RingInv /\ UnitsBacked /\ MsgInv
      /\ units \in [Sems -> Nat] /\ pid \in [Slots -> Ids \cup {-1}]
      /\ capacity \in [Slots -> Nat]
  BY KeepParts
<1>1. PICK p \in Nat : p = NextIdFor(i) /\ p >= next_port /\ SlotOf(p) = i
  BY <1>0, NextIdFacts DEF SlotType
<1>2. /\ pid[i] = -1 /\ p <= MaxId
      /\ live' = [live EXCEPT ![<<"read", p>>] = TRUE, ![<<"write", p>>] = TRUE]
      /\ units' = [units EXCEPT ![<<"write", p>>] = cap]
      /\ pid' = [pid EXCEPT ![i] = p] /\ next_port' = p + 1
      /\ capacity' = [capacity EXCEPT ![i] = cap]
      /\ head' = [head EXCEPT ![i] = 0] /\ tail' = [tail EXCEPT ![i] = 0]
      /\ plock' = [plock EXCEPT ![i] = NoThread]
      /\ freed' = freed /\ freedBufs' = freedBufs
      /\ waitq' = waitq /\ pc' = pc /\ tid' = tid /\ tgen' = tgen /\ tmsg' = tmsg
      /\ nmsg' = nmsg /\ sent' = sent /\ got' = got /\ fault' = fault
  BY <1>1 DEF create_port, Places, histVars
<1>3. p \in Ids /\ cap \in Nat \ {0} /\ p # -1 /\ next_port \in Nat
  BY <1>0, <1>1, <1>2, PortAssumption DEF Ids, SlotType
<1>4. /\ DOMAIN ring' = Ids /\ DOMAIN ring'[p] = 0 .. cap - 1
      /\ \A q \in Ids : q # p => ring'[q] = ring[q]
  <2>1. PICK old \in [0 .. cap - 1 -> {Null, Garbage}] :
           ring' = [ring EXCEPT ![p] =
                      [k \in 0 .. cap - 1 |-> [code |-> Garbage, buf |-> old[k]]]]
    BY <1>1 DEF create_port
  <2> QED BY <1>0, <1>3, <2>1 DEF KeepTable
<1>5. /\ pid'[i] = p /\ capacity'[i] = cap /\ head'[i] = 0 /\ tail'[i] = 0
      /\ \A s \in Slots : s # i => /\ pid'[s] = pid[s] /\ capacity'[s] = capacity[s]
                                   /\ head'[s] = head[s] /\ tail'[s] = tail[s]
      /\ \A s \in Slots : plock'[s] = NoThread
  BY <1>0, <1>2 DEF SlotType, KeepTable
<1>6. ASSUME NEW q \in Ids
      PROVE  /\ <<"read", q>> \in Sems /\ <<"write", q>> \in Sems
             /\ units'[<<"read", q>>] = units[<<"read", q>>]
             /\ units'[<<"write", q>>] = IF q = p THEN cap ELSE units[<<"write", q>>]
             /\ q # p => /\ live'[<<"read", q>>] = live[<<"read", q>>]
                         /\ live'[<<"write", q>>] = live[<<"write", q>>]
             /\ q = p => live'[<<"read", q>>] /\ live'[<<"write", q>>]
  <2>1. <<"read", q>> \in Sems /\ <<"write", q>> \in Sems
    BY DEF Sems
  <2>2. /\ <<"read", q>> # <<"write", p>>
        /\ q # p => <<"read", q>> # <<"read", p>> /\ <<"write", q>> # <<"write", p>>
    OBVIOUS
  <2>3. /\ units'[<<"read", q>>] = units[<<"read", q>>]
        /\ units'[<<"write", q>>] = IF q = p THEN cap ELSE units[<<"write", q>>]
    BY <1>0, <1>2, <2>1, <2>2
  <2>4. q # p => /\ live'[<<"read", q>>] = live[<<"read", q>>]
                 /\ live'[<<"write", q>>] = live[<<"write", q>>]
    BY <1>0, <1>2, <2>1, <2>2 DEF HeapType
  <2>5. q = p => live'[<<"read", q>>] /\ live'[<<"write", q>>]
    BY <1>0, <1>2, <2>1, <2>2 DEF HeapType
  <2> QED BY <2>1, <2>3, <2>4, <2>5
<1>7. \A s \in Slots : s # i /\ pid'[s] # -1 => pid[s] # -1 /\ pid'[s] \in Ids /\ pid'[s] # p
  <2>1. SUFFICES ASSUME NEW s \in Slots, s # i, pid[s] # -1
                 PROVE  pid[s] \in Ids /\ pid[s] # p
    BY <1>5
  <2>2. pid[s] \in Ids /\ pid[s] < next_port
    BY <1>0, <2>1 DEF TableInv
  <2> QED BY <1>1, <1>3, <2>2 DEF Ids
<1>8. KeepTable'
  <2>1. ASSUME NEW s \in Slots, pid'[s] # -1
        PROVE  live'[<<"read", pid'[s]>>] /\ live'[<<"write", pid'[s]>>]
    <3>1. CASE s = i
      BY <1>3, <1>5, <1>6, <3>1
    <3>2. CASE s # i
      <4>1. PICK q \in Ids : q = pid[s] /\ q = pid'[s] /\ q # p /\ q # -1
        BY <1>5, <1>7, <2>1, <3>2
      <4>2. live[<<"read", q>>] /\ live[<<"write", q>>]
        BY <1>0, <4>1 DEF KeepTable
      <4> QED BY <1>6, <4>1, <4>2
    <3> QED BY <3>1, <3>2
  <2>2. ASSUME NEW q \in Ids, q >= next_port'
        PROVE  units'[<<"read", q>>] = 0 /\ sent'[q] = <<>> /\ got'[q] = <<>>
    <3>1. q >= next_port
      BY <1>1, <1>2, <1>3, <2>2 DEF Ids
    <3> QED BY <1>0, <1>2, <1>6, <3>1 DEF KeepTable
  <2>3. /\ fault' = "none" /\ freed' = {} /\ DOMAIN ring' = Ids /\ DOMAIN tmsg' = Threads
        /\ \A u \in Threads : pc'[u] \notin {"dtake", "dfree", "dread", "dwrite"}
    BY <1>0, <1>2, <1>4 DEF KeepTable
  <2> QED BY <1>5, <2>1, <2>2, <2>3 DEF KeepTable
<1>9. CallInv'
  <2>1. ASSUME NEW u \in Threads, pc[u] # "run"
        PROVE  pid'[SlotOf(tid[u])] = tid[u]
    <3>1. PICK q \in Ids : q = tid[u]
      BY <1>0 DEF HeapType
    <3>2. PICK s \in Slots : s = SlotOf(q)
      BY SlotOfType
    <3>3. pid[s] = q
      BY <1>0, <2>1, <3>1, <3>2 DEF CallInv
    <3>4. s # i
      BY <1>2, <3>3 DEF Ids
    <3> QED BY <1>5, <3>1, <3>2, <3>3, <3>4
  <2> QED BY <1>0, <1>2, <2>1 DEF CallInv, SlotOf
<1>10. OrderInv'
  BY <1>0, <1>2, OrderSame
<1>11. MsgInv'
  BY <1>0, <1>2, MsgShrink
<1>12. sent[p] = <<>> /\ got[p] = <<>> /\ units[<<"read", p>>] = 0
  BY <1>0, <1>1, <1>3 DEF KeepTable
<1>13. pid' \in [Slots -> Ids \cup {-1}]
  BY <1>0, <1>2, <1>3
<1>14. RingInv'
  <2>1. ASSUME NEW s \in Slots, NEW q \in Ids, pid'[s] = q
        PROVE  RingOf(s, q)'
    <3>1. CASE s = i
      <4>1. q = p /\ Pending(q)' = 0
        BY <1>2, <1>5, <1>12, <2>1, <3>1 DEF Pending
      <4>2. Place(0, 0, cap) = 0 /\ 0 \in 0 .. cap - 1
        BY <1>3 DEF Place
      <4>3. \A k \in 0 .. 0 - 1 : FALSE
        OBVIOUS
      <4> QED BY <1>4, <1>5, <3>1, <4>1, <4>2, <4>3 DEF RingOf, Place
    <3>2. CASE s # i
      <4>1. pid[s] = q /\ q # p
        BY <1>5, <1>7, <2>1, <3>2 DEF Ids
      <4>2. RingOf(s, q)
        BY <1>0, <4>1, RingIs
      <4> QED BY <1>2, <1>4, <1>5, <3>2, <4>1, <4>2, RingSame
    <3> QED BY <3>1, <3>2
  <2> QED BY <1>13, <2>1, RingNext
<1>15. UnitsBacked'
  <2>1. ASSUME NEW s \in Slots, NEW q \in Ids, pid'[s] = q
        PROVE  /\ units'[<<"write", q>>] + CountW(q)' + Len(sent'[q]) - Len(got'[q])
                     <= capacity'[s]
               /\ units'[<<"read", q>>] + CountR(q)' + CountB(q)'
                     = Len(sent'[q]) - Len(got'[q])
    <3>1. CountW(q)' = CountW(q) /\ CountR(q)' = CountR(q) /\ CountB(q)' = CountB(q)
      BY <1>2 DEF CountW, CountR, CountB, InW, InR, InB
    <3>2. CASE s = i
      <4>1. q = p /\ Len(sent'[q]) = 0 /\ Len(got'[q]) = 0
        BY <1>2, <1>5, <1>12, <2>1, <3>2
      <4>2. CountW(p) = 0 /\ CountR(p) = 0 /\ CountB(p) = 0
        BY <1>1, <1>3, NobodyInside
      <4>3. units'[<<"write", q>>] = cap /\ units'[<<"read", q>>] = 0 /\ capacity'[s] = cap
        BY <1>5, <1>6, <1>12, <3>2, <4>1
      <4> QED BY <1>3, <3>1, <4>1, <4>2, <4>3
    <3>3. CASE s # i
      <4>1. pid[s] = q /\ q # p /\ q # -1 /\ capacity'[s] = capacity[s]
        BY <1>5, <1>7, <2>1, <3>3 DEF Ids
      <4>2. /\ units[<<"write", q>>] + CountW(q) + Len(sent[q]) - Len(got[q]) <= capacity[s]
            /\ units[<<"read", q>>] + CountR(q) + CountB(q) = Len(sent[q]) - Len(got[q])
        BY <1>0, <4>1, UnitsBackedIs
      <4> QED BY <1>2, <1>6, <3>1, <4>1, <4>2
    <3> QED BY <3>2, <3>3
  <2> QED BY <1>13, <2>1, UnitsBackedNext
<1> QED BY <1>8, <1>9, <1>10, <1>11, <1>14, <1>15 DEF KeepRest

(* Every step of callers that keep their ports.                            *)
LEMMA KeepStep ==
    ASSUME KeepInductive, NextKeep
    PROVE  KeepInductive'
<1>1. PICK t \in Threads : MayRun(t) /\ (Call(t) \/ Finish(t) \/ GiveUp(t))
  BY DEF NextKeep, Next
<1>2. PortTypeOK' /\ WaitInv' /\ TableInv'
  BY <1>1, KeepBase
<1>3. KeepTable /\ QueueType /\ HeapType /\ WaitInv
  BY KeepParts
<1>4. KeepRest'
  <2>1. CASE Call(t)
    <3>1. CASE \E i \in Slots, cap \in Capacities : create_port(t, i, cap)
      BY <1>2, <3>1, CreateKeep
    <3>2. CASE CreateFull(t)
      BY <3>2 DEF CreateFull, NextKeep, TableHasRoom
    <3>3. ASSUME NEW s \in Slots, DeleteMark(t, s)
          PROVE  FALSE
      <4>1. pc[t] = "run" /\ pc' = [pc EXCEPT ![t] = "dtake"]
        BY <3>3 DEF DeleteMark, Found, Goto
      <4>2. pc'[t] = "dtake"
        BY <1>3, <4>1 DEF QueueType
      <4> QED BY <4>1, <4>2 DEF NextKeep, NobodyDeletes
    <3>4. CASE \E s \in Slots : \/ close_port(t, s)
                                \/ ReadEnter(t, s) \/ WriteEnter(t, s) \/ BufferEnter(t, s)
      BY <3>4, CloseKeep, EntersKeep
    <3> QED BY <2>1, <3>1, <3>2, <3>3, <3>4 DEF Call
  <2>2. CASE Finish(t)
    <3>1. ~DeleteTake(t) /\ ~DeleteFree(t) /\ ~DeleteSem(t)
      BY <1>3 DEF DeleteTake, DeleteFree, DeleteSem, KeepTable
    <3>2. ~DeadRing(t)
      BY <1>3 DEF DeadRing, KeepTable
    <3> QED BY <2>2, <3>1, <3>2, AcquiresKeep, ReleasesKeep, FailsKeep, ReadTakeKeep,
               WriteAttachKeep DEF Finish
  <2>3. CASE GiveUp(t)
    <3>1. /\ pc[t] \in WaitPoints /\ pc'[t] = Failed(pc[t])
          /\ \A u \in Threads : u # t => pc'[u] = pc[u]
      BY <1>3, <2>3, GiveUpFacts
    <3>2. pc'[t] # "bpeek"
      <4>1. SUFFICES ASSUME pc'[t] = "bpeek"
                     PROVE  FALSE
        OBVIOUS
      <4>2. pc[t] = "bwait"
        BY <3>1, <4>1 DEF Failed
      <4> QED BY <3>1, <4>1, <4>2 DEF NextKeep, SizeWaits
    <3> QED BY <2>3, <3>2, FailsKeep
  <2> QED BY <1>1, <2>1, <2>2, <2>3
<1> QED BY <1>2, <1>4 DEF KeepInductive, KeepRest

(* The initial states, in which there is no port.                          *)
LEMMA KeepInit ==
    ASSUME port_init
    PROVE  KeepInductive
<1>1. PortTypeOK /\ WaitInv /\ TableInv
  BY TableInit DEF TableInductive
<1>2. \A s \in Slots : pid[s] = -1
  BY DEF port_init
<1>3. \A t \in Threads : pc[t] = "run"
  BY DEF port_init
<1>4. \A p \in Ids : sent[p] = <<>> /\ got[p] = <<>>
  BY DEF port_init
<1>5. \A x \in Sems, t \in Threads : ~Contains(waitq[x], t)
  BY <1>1, <1>3 DEF WaitInv, WaitPoints
<1>6. \A p \in Ids : <<"read", p>> \in Sems
  BY DEF Sems
<1>7. KeepTable
  BY <1>2, <1>3, <1>6 DEF KeepTable, port_init
<1>8. CallInv
  BY <1>3, <1>5 DEF CallInv
<1>9. OrderInv
  <2>1. sent \in [Ids -> Seq(Messages)] /\ got \in [Ids -> Seq(Messages)]
    BY DEF port_init
  <2>2. \A p \in Ids : Len(sent[p]) = 0 /\ Len(got[p]) = 0
    BY <1>4
  <2> QED BY <2>1, <2>2 DEF OrderInv
<1>10. RingInv /\ UnitsBacked
  BY <1>2 DEF RingInv, UnitsBacked, PlacesBacked, MessagesBacked
<1>11. MsgInv
  <2>1. \A p \in Ids : Len(sent[p]) = 0
    BY <1>4
  <2>2. Writers = {} /\ Readers = {} /\ freedBufs = {}
    BY <1>3 DEF Writers, Readers, port_init
  <2> QED BY <2>1, <2>2 DEF MsgInv
<1> QED BY <1>1, <1>7, <1>8, <1>9, <1>10, <1>11 DEF KeepInductive

(* A step that changes nothing.                                            *)
LEMMA KeepStutter ==
    ASSUME KeepInductive, UNCHANGED vars
    PROVE  KeepInductive'
<1>1. /\ pid' = pid /\ gen' = gen /\ closed' = closed /\ capacity' = capacity
      /\ head' = head /\ tail' = tail /\ plock' = plock /\ next_port' = next_port
      /\ ring' = ring /\ freed' = freed /\ freedBufs' = freedBufs
      /\ live' = live /\ units' = units /\ waitq' = waitq
      /\ pc' = pc /\ tid' = tid /\ tgen' = tgen /\ tmsg' = tmsg
      /\ nmsg' = nmsg /\ sent' = sent /\ got' = got /\ fault' = fault
  BY DEF vars
<1>2. /\ PortTypeOK /\ WaitInv /\ TableInv
      /\ KeepTable /\ CallInv /\ OrderInv /\ RingInv /\ UnitsBacked /\ MsgInv
  BY KeepParts
<1>3. PortTypeOK' /\ WaitInv' /\ TableInv'
  BY <1>1, <1>2 DEF PortTypeOK, WaitInv, TableInv, SlotOf
<1>4. KeepTable' /\ CallInv' /\ OrderInv'
  BY <1>1, <1>2 DEF KeepTable, CallInv, OrderInv, SlotOf
<1>5. RingInv'
  <2>1. \A r \in Slots, q \in Ids : pid'[r] = q => RingOf(r, q)'
    BY <1>1, <1>2, RingIs, RingSame
  <2> QED BY <1>1, <2>1, KeepParts, RingNext
<1>6. UnitsBacked'
  BY <1>1, <1>2 DEF UnitsBacked, PlacesBacked, MessagesBacked, At
<1>7. MsgInv'
  BY <1>1, <1>2 DEF MsgInv, Writers, Readers
<1> QED BY <1>3, <1>4, <1>5, <1>6, <1>7 DEF KeepInductive

(* Callers that keep their ports: the ring of every port holds, from tail  *)
(* on, what was sent to it and not yet read, the semaphores count what the *)
(* ring holds, and every cbuf has one owner, on any number of CPUs.        *)
THEOREM PortKeepInvariant == SpecKeep => []KeepInductive
<1>1. port_init => KeepInductive
  BY KeepInit
<1>2. KeepInductive /\ [NextKeep]_vars => KeepInductive'
  BY KeepStep, KeepStutter
<1> QED BY <1>1, <1>2, PTL DEF SpecKeep

(* Without deletions read_port_etc and write_port_etc touch no memory that *)
(* is not theirs: no cbuf is freed twice, none before it was read.         *)
THEOREM NoPortFaultAlways == SpecKeep => []NoPortFault
<1>1. KeepInductive => NoPortFault
  BY DEF KeepInductive, KeepTable, NoPortFault
<1> QED BY <1>1, PortKeepInvariant, PTL

(* The readers of a port together get the messages written to it, each     *)
(* once and in the order they were attached, and nothing else.             *)
THEOREM ReadInOrderAlways == SpecKeep => []ReadInOrder
<1>1. KeepInductive => ReadInOrder
  <2>1. SUFFICES ASSUME KeepInductive, NEW p \in Ids
                 PROVE  Len(got[p]) <= Len(sent[p]) /\ got[p] = SubSeq(sent[p], 1, Len(got[p]))
    BY DEF ReadInOrder
  <2>2. PICK g \in Seq(Messages), l \in Seq(Messages) : g = got[p] /\ l = sent[p]
    BY <2>1 DEF KeepInductive, OrderInv
  <2>3. Len(g) <= Len(l) /\ \A i \in 1 .. Len(g) : g[i] = l[i]
    BY <2>1, <2>2 DEF KeepInductive, OrderInv
  <2>4. Len(g) \in Nat /\ Len(l) \in Nat /\ \A i \in 1 .. Len(g) : l[i] \in Messages
    BY <2>3, ElementOfSeq
  <2>5. PICK h \in Seq(Messages) : /\ h = SubSeq(l, 1, Len(g)) /\ Len(h) = Len(g)
                                   /\ \A i \in 1 .. Len(g) : h[i] = l[i]
    <3>1. /\ SubSeq(l, 1, Len(g)) \in Seq(Messages)
          /\ Len(SubSeq(l, 1, Len(g))) = IF 1 <= Len(g) THEN Len(g) - 1 + 1 ELSE 0
          /\ \A i \in 1 .. Len(g) - 1 + 1 : SubSeq(l, 1, Len(g))[i] = l[1 + i - 1]
      BY <2>4, SubSeqProperties
    <3>2. PICK h \in Seq(Messages) : h = SubSeq(l, 1, Len(g))
      BY <3>1
    <3>3. Len(h) = Len(g)
      BY <2>4, <3>1, <3>2
    <3>4. ASSUME NEW i \in 1 .. Len(g)
          PROVE  h[i] = l[i]
      <4>1. i \in 1 .. Len(g) - 1 + 1 /\ 1 + i - 1 = i
        BY <2>4
      <4> QED BY <3>1, <3>2, <4>1
    <3> QED BY <3>2, <3>3, <3>4
  <2>6. g = h
    BY <2>3, <2>5, SeqEqual
  <2> QED BY <2>2, <2>3, <2>5, <2>6
<1> QED BY <1>1, PortKeepInvariant, PTL

(* The two semaphores of a port agree with its ring through reads, writes  *)
(* and size queries that are under way or have failed.                     *)
THEOREM UnitsBackedAlways == SpecKeep => []UnitsBacked
<1>1. KeepInductive => UnitsBacked
  BY DEF KeepInductive
<1> QED BY <1>1, PortKeepInvariant, PTL
=============================================================================
