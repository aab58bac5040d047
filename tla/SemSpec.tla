------------------------------- MODULE SemSpec -------------------------------
(***************************************************************************)
(* What the semaphores of sem.c promise their callers when every acquire   *)
(* takes one unit: a table of counting semaphores with a pool of units and *)
(* a FIFO queue of waiters.  A unit that is released goes to the first     *)
(* waiter if there is one and to the pool otherwise, a waiter gets its     *)
(* unit from a release and from nothing else, and it may also leave the    *)
(* queue empty-handed (timeout, kill, deletion).                           *)
(***************************************************************************)
EXTENDS Integers, Sequences

CONSTANTS Threads, Slots, InitCounts

VARIABLES live,     \* which slots hold a semaphore
          units,    \* the units in the pool of each slot
          queue,    \* the threads waiting in each slot, in order
          outcome   \* what each thread's wait came to

svars == <<live, units, queue, outcome>>

Init ==
    /\ live = [s \in Slots |-> FALSE]
    /\ units = [s \in Slots |-> 0]
    /\ queue = [s \in Slots |-> <<>>]
    /\ outcome = [t \in Threads |-> "idle"]

Create(s, n) ==
    /\ ~live[s]
    /\ live' = [live EXCEPT ![s] = TRUE]
    /\ units' = [units EXCEPT ![s] = n]
    /\ UNCHANGED <<queue, outcome>>

Delete(s) ==
    /\ live[s] /\ queue[s] = <<>>
    /\ live' = [live EXCEPT ![s] = FALSE]
    /\ units' = [units EXCEPT ![s] = 0]
    /\ UNCHANGED <<queue, outcome>>

(* A thread takes a unit at once.                                          *)
Take(s) ==
    /\ live[s] /\ units[s] > 0
    /\ units' = [units EXCEPT ![s] = @ - 1]
    /\ UNCHANGED <<live, queue, outcome>>

Wait(s, t) ==
    /\ live[s] /\ units[s] = 0
    /\ outcome[t] = "idle"
    /\ queue' = [queue EXCEPT ![s] = Append(@, t)]
    /\ outcome' = [outcome EXCEPT ![t] = "waiting"]
    /\ UNCHANGED <<live, units>>

(* A released unit, to the first waiter or to the pool.                    *)
Grant(s) ==
    /\ live[s] /\ queue[s] # <<>>
    /\ queue' = [queue EXCEPT ![s] = Tail(@)]
    /\ outcome' = [outcome EXCEPT ![Head(queue[s])] = "granted"]
    /\ UNCHANGED <<live, units>>

Put(s) ==
    /\ live[s] /\ queue[s] = <<>>
    /\ units'[s] > units[s]
    /\ units' = [units EXCEPT ![s] = units'[s]]
    /\ UNCHANGED <<live, queue, outcome>>

(* The waiter at place k gives up.                                         *)
Fail(s, k) ==
    /\ queue' = [queue EXCEPT ![s] =
                    [j \in 1 .. Len(@) - 1 |-> IF j < k THEN @[j] ELSE @[j + 1]]]
    /\ outcome' = [outcome EXCEPT ![queue[s][k]] = "failed"]
    /\ UNCHANGED <<live, units>>

Return(t) ==
    /\ outcome[t] \in {"granted", "failed"}
    /\ outcome' = [outcome EXCEPT ![t] = "idle"]
    /\ UNCHANGED <<live, units, queue>>

Next ==
    \/ \E s \in Slots :
          \/ \E n \in InitCounts : Create(s, n)
          \/ Delete(s) \/ Take(s) \/ Grant(s) \/ Put(s)
          \/ \E t \in Threads : Wait(s, t)
          \/ \E k \in 1 .. Len(queue[s]) : Fail(s, k)
    \/ \E t \in Threads : Return(t)

Spec == Init /\ [][Next]_svars
==============================================================================
