------------------------------- MODULE Timer -------------------------------
(***************************************************************************)
(* The timer events of kernel/core/timer.c: one sorted list and one        *)
(* hardware timer per CPU.  An event is set by the thread that owns it on  *)
(* whatever CPU that thread then runs on, fires on that CPU, and may be    *)
(* cancelled from another one, while the interrupt handler is between the  *)
(* unlinking of an event and its callback.                                 *)
(*                                                                         *)
(* A critical section of a list's spinlock is one step, and so is a        *)
(* callback, which touches no timer.  The hardware timer is armed or not;  *)
(* it may fire early, since its longest interval is short                  *)
(* (pit_max_timer_interval), and timer_interrupt then arms it again.       *)
(***************************************************************************)
EXTENDS Integers, SequencesExt

CONSTANTS
    LastCpu,    \* the CPUs are 0 .. LastCpu
    Events,     \* the timer_events; each has its own thread
    MaxTime,    \* bound on the clock
    NoEvent     \* NULL

TimerCpus == 0 .. LastCpu

ASSUME TimerAssumption ==
    MaxTime \in Nat \ {0} /\ LastCpu \in Nat /\ NoEvent \notin Events

VARIABLES
    events,         \* the lists
    sched_time,     \* zero: not scheduled
    mode,           \* the mode of an event, and its period
    armed,          \* the hardware timers that are set
    clock,          \* system_time
    owner,          \* the thread of an event: unset, setting, set or cancelling
    handler         \* what a CPU does for timers with its interrupts off

timerVars == <<events, sched_time, mode, armed, clock, owner, handler>>

OneShot == [periodic |-> FALSE, period |-> 0]
NotBusy == [pc |-> "no", ev |-> NoEvent, now |-> 0, mode |-> OneShot, at |-> 0]

timer_init ==
    /\ events = [c \in TimerCpus |-> <<>>]
    /\ sched_time = [e \in Events |-> 0]
    /\ mode = [e \in Events |-> OneShot]
    /\ armed = {} /\ clock = 1
    /\ owner = [e \in Events |-> "unset"]
    /\ handler = [c \in TimerCpus |-> NotBusy]

Tick ==
    /\ clock < MaxTime /\ clock' = clock + 1
    /\ UNCHANGED <<events, sched_time, mode, armed, owner, handler>>

-----------------------------------------------------------------------------
AddedLast(e, t, list) == Append(list, e)
(* add_event_to_list: before the first event that is not earlier than t.   *)
Added(e, t, list) ==
    LET notEarlier == {i \in 1 .. Len(list) + 1 :
                          i <= Len(list) => sched_time[list[i]] >= t}
    IN  InsertAt(list, Min(notEarlier), e)

(* timer_setup_timer, and timer_set_event up to its lock: the thread may   *)
(* still be preempted and go on on another CPU.                            *)
timer_set_event(e, relative_time, periodic) ==
    /\ owner[e] = "unset" /\ clock + relative_time < MaxTime
    /\ sched_time' = [sched_time EXCEPT ![e] = clock + relative_time]
    /\ mode' = [mode EXCEPT ![e] = IF periodic THEN [periodic |-> TRUE,
                                                     period |-> relative_time]
                                   ELSE OneShot]
    /\ owner' = [owner EXCEPT ![e] = "setting"]
    /\ UNCHANGED <<events, armed, clock, handler>>

(* The hardware timer is set for a new head of the list.                   *)
SetInsert(e, c) ==
    /\ owner[e] = "setting" /\ handler[c].pc = "no"
    /\ events' = [events EXCEPT ![c] = Added(e, sched_time[e], @)]
    /\ armed' = IF Head(events'[c]) = e THEN armed \cup {c} ELSE armed
    /\ owner' = [owner EXCEPT ![e] = "set"]
    /\ UNCHANGED <<sched_time, mode, clock, handler>>

-----------------------------------------------------------------------------
(* timer_interrupt reads the clock once, before the scan.                  *)
timer_interrupt(c) ==
    /\ c \in armed /\ handler[c].pc = "no"
    /\ armed' = armed \ {c}
    /\ handler' = [handler EXCEPT ![c] = [NotBusy EXCEPT !.pc = "scan", !.now = clock]]
    /\ UNCHANGED <<events, sched_time, mode, clock, owner>>

Due(c) == events[c] # <<>> /\ sched_time[Head(events[c])] < handler[c].now

(* The head is due: it is unlinked and the lock released.                  *)
ScanDue(c) ==
    /\ handler[c].pc = "scan" /\ Due(c)
    /\ LET e == Head(events[c])
       IN  /\ events' = [events EXCEPT ![c] = Tail(@)]
           /\ sched_time' = [sched_time EXCEPT ![e] = 0]
           /\ handler' = [handler EXCEPT ![c] = [@ EXCEPT !.pc = "call", !.ev = e,
                                                          !.mode = mode[e]]]
    /\ UNCHANGED <<mode, armed, clock, owner>>

(* The callback returns; a periodic event is scheduled again.              *)
Called(c) ==
    LET e == handler[c].ev  t == clock + mode[e].period
    IN  /\ handler[c].pc = "call"
        /\ IF handler[c].mode.periodic
           THEN /\ sched_time' = [sched_time EXCEPT ![e] = t]
                /\ events' = [events EXCEPT ![c] = Added(e, t, @)]
           ELSE UNCHANGED <<sched_time, events>>
        /\ handler' = [handler EXCEPT ![c] = [@ EXCEPT !.pc = "scan", !.ev = NoEvent,
                                                       !.mode = OneShot]]
        /\ UNCHANGED <<mode, armed, clock, owner>>

RearmedNever(c) == armed
(* The hardware timer after a scan: set for the head, if there is one.     *)
Rearmed(c) == IF events[c] # <<>> THEN armed \cup {c} ELSE armed

ScanEnd(c) ==
    /\ handler[c].pc = "scan" /\ ~Due(c)
    /\ armed' = Rearmed(c)
    /\ handler' = [handler EXCEPT ![c] = NotBusy]
    /\ UNCHANGED <<events, sched_time, mode, clock, owner>>

-----------------------------------------------------------------------------
(* timer_cancel_event of an event that is not scheduled; an owner that the *)
(* callback woke does without the call.                                    *)
CancelUnscheduled(e) ==
    /\ owner[e] = "set" /\ sched_time[e] = 0
    /\ owner' = [owner EXCEPT ![e] = "unset"]
    /\ UNCHANGED <<events, sched_time, mode, armed, clock, handler>>

timer_cancel_event(e, c) ==
    /\ owner[e] = "set" /\ sched_time[e] # 0 /\ handler[c].pc = "no"
    /\ owner' = [owner EXCEPT ![e] = "cancelling"]
    /\ handler' = [handler EXCEPT ![c] = [NotBusy EXCEPT !.pc = "local", !.ev = e]]
    /\ UNCHANGED <<events, sched_time, mode, armed, clock>>

Unlinked(e, list) == RemoveFirst(list, e)

(* The caller gets its CPU and its thread back.                            *)
CancelReturns(c) ==
    /\ handler' = [handler EXCEPT ![c] = NotBusy]
    /\ owner' = [owner EXCEPT ![handler[c].ev] = "unset"]

(* _local_timer_cancel_event finds it, and sets the hardware timer anew.   *)
LocalFound(c) ==
    /\ handler[c].pc = "local" /\ Contains(events[c], handler[c].ev)
    /\ events' = [events EXCEPT ![c] = Unlinked(handler[c].ev, @)]
    /\ armed' = IF events'[c] = <<>> THEN armed \ {c} ELSE armed \cup {c}
    /\ CancelReturns(c)
    /\ UNCHANGED <<sched_time, mode, clock>>

(* It does not: without the lock it looks for a head, and then at it.      *)
LocalMissed(c) ==
    /\ handler[c].pc = "local" /\ ~Contains(events[c], handler[c].ev)
    /\ IF events[c] = <<>>
       THEN armed' = armed \ {c} /\ handler' = [handler EXCEPT ![c].pc = "others"]
       ELSE handler' = [handler EXCEPT ![c].pc = "head"] /\ UNCHANGED armed
    /\ UNCHANGED <<events, sched_time, mode, clock, owner>>

LocalHead(c) ==
    /\ handler[c].pc = "head"
    /\ IF events[c] = <<>>
       THEN handler' = [handler EXCEPT ![c].pc = "null"] /\ UNCHANGED armed
       ELSE handler' = [handler EXCEPT ![c].pc = "others"] /\ armed' = armed \cup {c}
    /\ UNCHANGED <<events, sched_time, mode, clock, owner>>

(* The lists of the other CPUs, one after the other.                       *)
OthersFound(c) ==
    LET d == handler[c].at
    IN  /\ handler[c].pc = "others" /\ d # c /\ d \in TimerCpus
        /\ Contains(events[d], handler[c].ev)
        /\ events' = [events EXCEPT ![d] = Unlinked(handler[c].ev, @)]
        /\ CancelReturns(c)
        /\ UNCHANGED <<sched_time, mode, armed, clock>>

OthersNext(c) ==
    LET d == handler[c].at
    IN  /\ handler[c].pc = "others" /\ d \in TimerCpus
        /\ d = c \/ ~Contains(events[d], handler[c].ev)
        /\ handler' = [handler EXCEPT ![c].at = @ + 1]
        /\ UNCHANGED <<events, sched_time, mode, armed, clock, owner>>

OthersEnd(c) ==
    /\ handler[c].pc = "others" /\ handler[c].at > LastCpu
    /\ CancelReturns(c)
    /\ UNCHANGED <<events, sched_time, mode, armed, clock>>

-----------------------------------------------------------------------------
(* What a CPU does with its interrupts off.                                *)
HandlerStep(c) ==
    \/ ScanDue(c) \/ Called(c) \/ ScanEnd(c)
    \/ LocalFound(c) \/ LocalMissed(c) \/ LocalHead(c)
    \/ OthersFound(c) \/ OthersNext(c) \/ OthersEnd(c)

TimerNext ==
    \/ Tick
    \/ \E e \in Events : \/ \E t \in 0 .. MaxTime, p \in BOOLEAN : timer_set_event(e, t, p)
                         \/ CancelUnscheduled(e)
                         \/ \E c \in TimerCpus : SetInsert(e, c) \/ timer_cancel_event(e, c)
    \/ \E c \in TimerCpus : timer_interrupt(c) \/ HandlerStep(c)

(* Nothing in the kernel sets a periodic event; one that is cancelled in   *)
(* its callback is scheduled again, so here it is kept until the end.      *)
PeriodicKept ==
    \A e \in Events :
       mode[e].periodic => owner'[e] # "cancelling" /\ (owner[e] = "set" => owner'[e] = "set")

(* Time goes on, code with interrupts off runs on, and an armed timer      *)
(* interrupts a CPU that lets interrupts in again and again.               *)
TimerFairness ==
    /\ WF_timerVars(Tick)
    /\ \A c \in TimerCpus : /\ WF_timerVars(HandlerStep(c))
                            /\ SF_timerVars(timer_interrupt(c))

TimerSpec == timer_init /\ [][TimerNext /\ PeriodicKept]_timerVars /\ TimerFairness

-----------------------------------------------------------------------------
Linked(e) == \E c \in TimerCpus : Contains(events[c], e)

(* An event is in one list, once; the lists are sorted, whatever the other *)
(* CPUs take out of them and wherever the callbacks put an event back, so  *)
(* that timer_interrupt, which looks at the head only, misses none.        *)
ListsSorted ==
    /\ \A c \in TimerCpus : \A i, j \in 1 .. Len(events[c]) : i < j =>
          /\ events[c][i] # events[c][j]
          /\ sched_time[events[c][i]] <= sched_time[events[c][j]]
    /\ \A c, d \in TimerCpus : c # d => ToSet(events[c]) \cap ToSet(events[d]) = {}

(* A CPU that is not busy with timers and has an event has its hardware    *)
(* timer set, although timer_cancel_event looks at its own list without    *)
(* the lock and takes events out of other CPUs' lists.                     *)
HardwareArmed ==
    \A c \in TimerCpus : events[c] # <<>> /\ handler[c].pc = "no" => c \in armed

(* The event of acquire_sem_etc is on its stack: when the cancelling       *)
(* returns, or when the event is found not to be scheduled, no list still  *)
(* leads to it.                                                            *)
NotLinkedWhenUnset == \A e \in Events : owner[e] = "unset" => ~Linked(e)

(* The event lists through timer_set_event, timer_interrupt and            *)
(* timer_cancel_event on several CPUs: in order, served, and without       *)
(* events that their owner has given up.                                   *)
EventLists == ListsSorted /\ HardwareArmed /\ NotLinkedWhenUnset

(* A one-shot event that is in a list fires or is cancelled, unless a CPU  *)
(* has stopped at the NULL head of its list.                               *)
EventEnds ==
    \A e \in Events : (Linked(e) /\ ~mode[e].periodic)
                      ~> (~Linked(e) \/ \E c \in TimerCpus : handler[c].pc = "null")
=============================================================================
