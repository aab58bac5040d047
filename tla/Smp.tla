-------------------------------- MODULE Smp --------------------------------
(***************************************************************************)
(* The inter-CPU messages of kernel/core/smp.c: a pool of messages, one    *)
(* mailbox per CPU and one for broadcasts, and the three places where a    *)
(* CPU serves them: the interrupt handler, the loop of acquire_spinlock    *)
(* while the lock is taken, and the loop in which the sender of a          *)
(* synchronous message waits.                                              *)
(*                                                                         *)
(* A critical section of a mailbox's or of the pool's spinlock is one      *)
(* step.  What a message asks for (TLB invalidation, reschedule) is left   *)
(* out, and so is when an interrupt arrives: a CPU that is not inside a    *)
(* send may serve at any time, or never.                                   *)
(***************************************************************************)
EXTENDS Integers, SequencesExt

CONSTANTS
    Procs,      \* the CPUs
    Msgs,       \* the messages of the pool, MSG_POOL_SIZE many
    NoMsg       \* NULL

ASSUME SmpAssumption == IsFiniteSet(Procs) /\ NoMsg \notin Msgs

VARIABLES
    free_msgs,
    smp_msgs,               \* the mailboxes, the newest message first
    smp_broadcast_msgs,
    msg,                    \* struct smp_msg; `to' is who it is for
    sender,                 \* each CPU: its own message and how far it is
    server,                 \* each CPU: the message it serves
    served                  \* history: who has done what a message asks for

smpVars == <<free_msgs, smp_msgs, smp_broadcast_msgs, msg, sender, server, served>>

NoSend == [pc |-> "run", m |-> NoMsg]
NoServe == [pc |-> "no", m |-> NoMsg, bcast |-> FALSE]
Looking == [NoServe EXCEPT !.pc = "look"]

smp_init ==
    /\ free_msgs = Msgs
    /\ smp_msgs = [c \in Procs |-> <<>>] /\ smp_broadcast_msgs = <<>>
    /\ msg = [m \in Msgs |-> [ref |-> 0, sync |-> FALSE, done |-> FALSE,
                              bcast |-> FALSE, bitmap |-> {}, to |-> {}]]
    /\ sender = [c \in Procs |-> NoSend]
    /\ server = [c \in Procs |-> NoServe]
    /\ served = [m \in Msgs |-> {}]

-----------------------------------------------------------------------------
(* Sending.                                                                *)

(* The ref_count of a new broadcast: the CPUs other than its sender.       *)
Refs(c) == Cardinality(Procs) - 1

(* The proc_bitmap of a new broadcast: its sender does not serve it.       *)
Bitmap(c) == {c}

(* find_free_message leaves interrupts disabled; the message is set up.    *)
Send(c, m, fields) ==
    /\ sender[c].pc = "run" /\ server[c].pc = "no"
    /\ m \in free_msgs /\ free_msgs' = free_msgs \ {m}
    /\ msg' = [msg EXCEPT ![m] = fields]
    /\ sender' = [sender EXCEPT ![c] = [pc |-> "post", m |-> m]]
    /\ served' = [served EXCEPT ![m] = {}]
    /\ UNCHANGED <<smp_msgs, smp_broadcast_msgs, server>>

(* To one CPU; a message to itself is put back at once.  The proc_bitmap   *)
(* stays as the last broadcast left it.                                    *)
smp_send_ici(c) ==
    \E m \in free_msgs, to \in Procs \ {c}, sync \in BOOLEAN :
       Send(c, m, [msg[m] EXCEPT !.ref = 1, !.sync = sync, !.done = FALSE,
                                 !.bcast = FALSE, !.to = {to}])
smp_send_broadcast_ici(c) ==
    \E m \in free_msgs, sync \in BOOLEAN :
       Send(c, m, [ref |-> Refs(c), sync |-> sync, done |-> FALSE,
                   bcast |-> TRUE, bitmap |-> Bitmap(c), to |-> Procs \ {c}])

(* The message goes to the front of its mailbox, and the interrupt out; a  *)
(* synchronous sender then waits.                                          *)
Deliver(c) ==
    LET m == sender[c].m  r == msg[m]
    IN  /\ sender[c].pc = "post"
        /\ IF r.bcast
           THEN /\ smp_broadcast_msgs' = <<m>> \o smp_broadcast_msgs
                /\ UNCHANGED smp_msgs
           ELSE /\ smp_msgs' = [t \in Procs |-> IF t \in r.to THEN <<m>> \o smp_msgs[t]
                                                ELSE smp_msgs[t]]
                /\ UNCHANGED smp_broadcast_msgs
        /\ sender' = [sender EXCEPT ![c] = IF r.sync THEN [@ EXCEPT !.pc = "wait"]
                                           ELSE NoSend]
        /\ UNCHANGED <<free_msgs, msg, server, served>>

(* The sender of a synchronous message gives it back when it is done.      *)
WaitOver(c) ==
    /\ sender[c].pc = "wait" /\ server[c].pc = "no" /\ msg[sender[c].m].done
    /\ free_msgs' = free_msgs \cup {sender[c].m}
    /\ sender' = [sender EXCEPT ![c] = NoSend]
    /\ UNCHANGED <<smp_msgs, smp_broadcast_msgs, msg, server, served>>

-----------------------------------------------------------------------------
(* smp_process_pending_ici: one message, or none.                          *)

(* The CPU's own mailbox first; without a message there it goes on to the  *)
(* broadcasts, with the lock of its mailbox released in between.           *)
smp_check_for_message(c) ==
    \/ /\ smp_msgs[c] # <<>>
       /\ server' = [server EXCEPT ![c] = [pc |-> "got", m |-> Head(smp_msgs[c]),
                                           bcast |-> FALSE]]
       /\ smp_msgs' = [smp_msgs EXCEPT ![c] = Tail(@)]
    \/ /\ smp_msgs[c] = <<>>
       /\ server' = [server EXCEPT ![c] = Looking]
       /\ UNCHANGED smp_msgs

(* A CPU takes the interrupt or spins for a lock, or it waits for its own  *)
(* message to be done.                                                     *)
smp_process_pending_ici(c) ==
    /\ server[c].pc = "no"
    /\ sender[c].pc = "run" \/ (sender[c].pc = "wait" /\ ~msg[sender[c].m].done)
    /\ smp_check_for_message(c)
    /\ UNCHANGED <<free_msgs, smp_broadcast_msgs, msg, sender, served>>

(* The first broadcast that the CPU has not marked, if there is one.       *)
Unmarked(c) ==
    {i \in 1 .. Len(smp_broadcast_msgs) : c \notin msg[smp_broadcast_msgs[i]].bitmap}
CheckBroadcast(c) ==
    /\ server[c].pc = "look"
    /\ \/ /\ Unmarked(c) = {}
          /\ server' = [server EXCEPT ![c] = NoServe] /\ UNCHANGED msg
       \/ /\ Unmarked(c) # {}
          /\ LET m == smp_broadcast_msgs[Min(Unmarked(c))]
             IN  /\ server' = [server EXCEPT ![c] = [pc |-> "got", m |-> m, bcast |-> TRUE]]
                 /\ msg' = [msg EXCEPT ![m].bitmap = @ \cup {c}]
    /\ UNCHANGED <<free_msgs, smp_msgs, smp_broadcast_msgs, sender, served>>

LastEver(old) == old <= 2
(* Whether the CPU that found the ref_count at old was the last one.       *)
LastServer(old) == old = 1

(* The message is obeyed, and smp_finish_message_processing counts.        *)
Obey(c) ==
    LET m == server[c].m
    IN  /\ server[c].pc = "got"
        /\ served' = [served EXCEPT ![m] = @ \cup {c}]
        /\ msg' = [msg EXCEPT ![m].ref = @ - 1]
        /\ server' = [server EXCEPT ![c] = IF LastServer(msg[m].ref)
                                           THEN [@ EXCEPT !.pc = "clean"] ELSE NoServe]
        /\ UNCHANGED <<free_msgs, smp_msgs, smp_broadcast_msgs, sender>>

(* The last CPU takes a broadcast out of the list; a message of its own    *)
(* mailbox is out already.                                                 *)
Unlink(c) ==
    LET m == server[c].m
    IN  /\ server[c].pc = "clean"
        /\ smp_broadcast_msgs' = IF server[c].bcast
                                 THEN RemoveFirst(smp_broadcast_msgs, m)
                                 ELSE smp_broadcast_msgs
        /\ server' = [server EXCEPT ![c].pc = "hand"]
        /\ UNCHANGED <<free_msgs, smp_msgs, msg, sender, served>>

PoolAfterBoth(m) == free_msgs \cup {m}
(* The pool after m was served: a synchronous message is its sender's.     *)
PoolAfter(m) == IF msg[m].sync THEN free_msgs ELSE free_msgs \cup {m}

(* ... and hands the message back: to its sender, or to the pool.          *)
HandBack(c) ==
    LET m == server[c].m
    IN  /\ server[c].pc = "hand"
        /\ msg' = [msg EXCEPT ![m].done = msg[m].sync]
        /\ free_msgs' = PoolAfter(m)
        /\ server' = [server EXCEPT ![c] = NoServe]
        /\ UNCHANGED <<smp_msgs, smp_broadcast_msgs, sender, served>>

-----------------------------------------------------------------------------
SmpNext ==
    \E c \in Procs : \/ smp_send_ici(c) \/ smp_send_broadcast_ici(c)
                     \/ Deliver(c) \/ WaitOver(c) \/ smp_process_pending_ici(c)
                     \/ CheckBroadcast(c) \/ Obey(c) \/ Unlink(c) \/ HandBack(c)

SmpSpec == smp_init /\ [][SmpNext]_smpVars

-----------------------------------------------------------------------------
(* Where a message is: free, with its sender before it is posted or after  *)
(* it was done, in a mailbox, or out of all with the CPU that serves it.   *)
Keepers(m) ==
    {<<"free">> : x \in {m} \cap free_msgs}
    \cup {<<"sender", c>> : c \in {d \in Procs : sender[d].m = m /\
                                     (sender[d].pc = "post" \/ msg[m].done)}}
    \cup {<<"box", c>> : c \in {d \in Procs : Contains(smp_msgs[d], m)}}
    \cup {<<"bcast">> : x \in {m} \cap ToSet(smp_broadcast_msgs)}
    \cup {<<"server", c>> : c \in {d \in Procs : server[d].m = m /\
                                     (~server[d].bcast \/ server[d].pc = "hand")}}

(* Through sending, serving and giving back a message is in one place:     *)
(* smp_finish_message_processing and the sender of a synchronous message   *)
(* never both give it to the pool, and the walk for a message that has     *)
(* already left its mailbox takes no other one out.                        *)
MessageInOnePlace == \A m \in Msgs : Cardinality(Keepers(m)) = 1

(* The ref_count of a broadcast is the number of CPUs that have not marked *)
(* it or have marked and not yet counted it, so it reaches zero once, and  *)
(* nobody serves a message that is free.                                   *)
BroadcastRefs ==
    /\ \A m \in ToSet(smp_broadcast_msgs) :
          msg[m].ref = Cardinality(Procs \ msg[m].bitmap)
                       + Cardinality({c \in Procs : server[c].m = m /\ server[c].pc = "got"})
    /\ \A c \in Procs : server[c].m \notin free_msgs

(* find_free_message, smp_process_pending_ici and                          *)
(* smp_finish_message_processing neither lose a message nor have two users *)
(* for it.                                                                 *)
MessagesKept == MessageInOnePlace /\ BroadcastRefs

(* When the sender of a synchronous message is told that it is done, and   *)
(* when a message is free again, every CPU it was for has obeyed it: after *)
(* a synchronous TLB invalidation no CPU uses the old translation.         *)
ServedByAll ==
    \A m \in Msgs : m \in free_msgs \/ msg[m].done => msg[m].to \subseteq served[m]
=============================================================================
