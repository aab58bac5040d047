----------------------------- MODULE MCTimeouts -----------------------------
(***************************************************************************)
(* Semaphores and the timers that end their waits for TLC, in one run: a   *)
(* behaviour is one of the part that it chose at its start, and the other  *)
(* stays as it was made.                                                   *)
(***************************************************************************)
EXTENDS MCSem, Timer

VARIABLE part   \* the part that is used

TimeoutsInit == part \in {"sem", "timer"} /\ Init /\ timer_init

TimeoutsNext ==
    \/ part = "sem" /\ NextKeep /\ UNCHANGED <<part, timerVars>>
    \/ part = "timer" /\ TimerNext /\ PeriodicKept /\ UNCHANGED <<part, vars>>

(* Fairness and TimerFairness, each while its part is used: neither stops  *)
(* the other part.                                                         *)
SemFair ==
    /\ \A c \in Cpus : /\ WF_vars(part = "sem" /\ fault = "none" /\ KernelStep(c))
                       /\ SF_vars(part = "sem" /\ fault = "none" /\ Preempt(c))
    /\ \A c \in Cpus, t \in Threads :
            SF_vars(part = "sem" /\ fault = "none" /\ TimerInterrupt(c, t))
    /\ \A t \in Threads : SF_vars(part = "sem" /\ Next /\ Picked(t))
TimerFair ==
    /\ WF_timerVars(part = "timer" /\ Tick)
    /\ \A c \in TimerCpus : /\ WF_timerVars(part = "timer" /\ HandlerStep(c))
                            /\ SF_timerVars(part = "timer" /\ timer_interrupt(c))

TimeoutsSpec ==
    /\ TimeoutsInit /\ [][TimeoutsNext]_<<part, vars, timerVars>>
    /\ SemFair /\ TimerFair
=============================================================================
