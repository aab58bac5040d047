------------------------------- MODULE MCPort -------------------------------
(***************************************************************************)
(* Model-checking instances of Port: the callers are restricted to the     *)
(* calls an instance is about.                                             *)
(***************************************************************************)
EXTENDS Port, TLC

(* Nobody deletes a port; port_buffer_size_etc is called with a timeout    *)
(* and may be killed.                                                      *)
SizeSpec == port_init /\ [][Next /\ NobodyDeletes /\ TableHasRoom]_vars

(* Two threads that create, use and delete ports: one port for two         *)
(* messages, so that a writer waits, or two, one after the other in the    *)
(* same slot, for one message; nobody asks for sizes of the second.        *)
OneOfEach ==
    /\ nmsg' <= 1 \/ next_port' <= 1
    /\ \A t \in Threads : pc[t] = "run" /\ pc'[t] = "bacq" => tid'[t] = 0
DeleteSpec ==
    /\ port_init /\ [][Next /\ OneOfEach]_vars
    /\ \A t \in Threads : WF_vars(MayRun(t) /\ Finish(t))

Symmetry == Permutations(Threads)

(* TLC does not tell states apart by the locals of a call that is over.    *)
Live(f, dead) == [t \in Threads |-> IF pc[t] = "run" THEN dead ELSE f[t]]

View == <<slotVars, heapVars, semVars, pc, Live(tid, 0), Live(tgen, 0),
          Live(tmsg, Null), histVars, fault>>
=============================================================================
