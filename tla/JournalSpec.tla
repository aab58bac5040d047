---------------------------- MODULE JournalSpec ----------------------------
(***************************************************************************)
(* What the journal of the Be File System promises: a volume whose blocks  *)
(* change in transactions, of which all that were committed, and nothing   *)
(* of the others, is there after the machine has stopped.                  *)
(***************************************************************************)
EXTENDS Integers

CONSTANTS Blocks, MaxTransactions

VARIABLES
    stable,     \* the contents of the volume if the machine stopped now
    working,    \* the contents the running system sees
    open        \* a transaction is changing blocks

vars == <<stable, working, open>>

Init ==
    /\ stable = [b \in Blocks |-> 0]
    /\ working = stable
    /\ open = FALSE

Begin == ~open /\ open' = TRUE /\ UNCHANGED <<stable, working>>

Write(b) ==
    /\ open /\ UNCHANGED <<stable, open>>
    /\ \E v \in 1 .. MaxTransactions : working' = [working EXCEPT ![b] = v]

End == open /\ open' = FALSE /\ UNCHANGED <<stable, working>>

(* Never in the middle of a transaction.                                   *)
Commit == ~open /\ stable' = working /\ UNCHANGED <<working, open>>

Stop == working' = stable /\ open' = FALSE /\ UNCHANGED stable

Next == Begin \/ (\E b \in Blocks : Write(b)) \/ End \/ Commit \/ Stop

Spec == Init /\ [][Next]_vars
=============================================================================
