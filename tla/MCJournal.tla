----------------------------- MODULE MCJournal -----------------------------
(***************************************************************************)
(* Journal for TLC.                                                        *)
(***************************************************************************)
EXTENDS Journal

(* All log entries have as many blocks as one block of the array names.    *)
(* (With entries of different lengths log_start can get between two of     *)
(* them when the log has started over.)                                    *)
EntriesAlike ==
    /\ Cardinality(array') < ValuesInBlock
    /\ pc # "space" /\ pc' = "space" => Cardinality(array) = ValuesInBlock - 1

(* The machine does not stop between set_blocks_info and the write of the  *)
(* super block.  (The cache may have written some of the new entry's       *)
(* blocks home by then, while the log does not hold the entry yet.)        *)
CommitsWhole == Committing => phase' # "down"

(* The log's space is not used while blockNotify has yet to write the      *)
(* super block that frees it.  (A crash before that write finds a          *)
(* log_start whose entry is overwritten.)                                  *)
FreedOnDisk == pc = "space" /\ pc' = "log" => writer # AtSuper

(* No entry fills the log to the last block.  (WriteLogEntry lets it, and  *)
(* the log, whose start is its end then, counts as empty.)                 *)
NeverFull == pc = "space" /\ pc' = "log" => TransactionSize # FreeLogBlocks

Restricted == EntriesAlike /\ CommitsWhole /\ FreedOnDisk
RestrictedSpec ==
    /\ Init /\ [][Next /\ Restricted /\ NeverFull]_vars
    /\ WF_vars(phase = "mounted" /\ Owner /\ EntriesAlike /\ FreedOnDisk /\ NeverFull)
    /\ WF_vars(Cache) /\ WF_vars(Recovery)

(* The same with entries that fill the log.                                *)
FullLogSpec ==
    /\ Init /\ [][Next /\ Restricted]_vars
    /\ WF_vars(phase = "mounted" /\ Owner /\ EntriesAlike /\ FreedOnDisk)
    /\ WF_vars(Cache) /\ WF_vars(Recovery)

(* A stopped volume holds whole transactions at every step, those between  *)
(* set_blocks_info and the write of the super block included.              *)
Strict == INSTANCE JournalSpec WITH
    stable <- Replayed.volume,
    working <- IF phase = "mounted" THEN data ELSE Replayed.volume,
    open <- phase = "mounted" /\ pc = "body"
CrashConsistent == Strict!Spec

(* Flushing the log makes enough space for the entry that is to be         *)
(* written: there is, when no block waits to go home any more.             *)
FlushMakesSpace == phase = "mounted" /\ pc = "space" /\ AllHome => EnoughSpace
=============================================================================
