------------------------------ MODULE Journal ------------------------------
(***************************************************************************)
(* The journal of the Be File System (BeFS/source/Journal.cpp, with its    *)
(* BlockArray and the super block of Volume).  Transactions change blocks  *)
(* in the block cache; a log entry holds the blocks of one or several of   *)
(* them and is written to a circular log before any of them may go to its  *)
(* home location; the cache calls blockNotify as they get there, which     *)
(* moves the log's start.  The machine may stop between any two writes,    *)
(* and the next mount replays what the super block says is in the log.     *)
(*                                                                         *)
(* A block's contents are the number of the transaction that wrote them.   *)
(* Only the owner of the journal's lock works in it, so one program        *)
(* counter is enough for all threads; the writer of the cache runs beside  *)
(* it.  The cache is not in the repository: it writes the version that     *)
(* set_blocks_info was given (cache_ent.clone), never a locked one, and it *)
(* writes the older version first when a block gets a new one.  Writes     *)
(* reach the disk in the order in which they are made.                     *)
(***************************************************************************)
EXTENDS Integers, Sequences, FiniteSets

CONSTANTS
    Blocks,             \* block numbers of the volume outside the log
    LogSize,            \* fLogSize
    MaxTransactionSize, \* fMaxTransactionSize: larger entries are not batched
    ValuesInBlock,      \* off_t values in a block
    MaxTransactions,    \* bound on the transactions of a behaviour
    MaxCrashes          \* bound on the crashes

ASSUME JournalAssumption ==
    /\ Blocks \subseteq Nat /\ IsFiniteSet(Blocks)
    /\ LogSize \in Nat \ {0} /\ ValuesInBlock \in Nat \ {0}
    /\ MaxTransactionSize \in Nat
    /\ MaxTransactions \in Nat /\ MaxCrashes \in Nat

VARIABLES
    disk,       \* the home locations
    log,        \* the blocks of the log
    super,      \* log_start, log_end and the dirty flag on disk
    phase,      \* of the volume: "mounted", "down", "replay" or "failed"
    readOnly,   \* VOLUME_READ_ONLY, set by Panic
    sb,         \* fSuperBlock (fLogStart follows sb.start)
    logEnd,     \* fLogEnd
    array,      \* fArray: the blocks of the current log entry, all locked
    entries,    \* fEntries; an entry is known by its start
    batched,    \* fTransactionsInEntry # 0
    data,       \* the contents of the blocks as seen through the cache
    clone,      \* the version of a block that waits to go home
    func,       \* the entry that blockNotify is called for, or None
    writer,     \* the cache's writer: None, in blockNotify for an entry, or
                \* at its WriteSuperBlock
    pc, back,   \* where the owner is, and where WriteLogEntry returns to
    pos, step,  \* position in the log and number of blocks done, of
                \* WriteLogEntry and of ReplayLog
    txns, crashes   \* counted for the bounds

diskVars == <<disk, log, super>>
memVars == <<sb, logEnd, array, entries, batched, readOnly>>
cacheVars == <<data, clone, func, writer>>
ownVars == <<pc, back, pos, step>>
boundVars == <<txns, crashes>>
vars == <<diskVars, phase, memVars, cacheVars, ownVars, boundVars>>

Positions == 0 .. LogSize - 1
None == -1
AtSuper == -2

(* A block of the log: part of an array with the count at its front, or a  *)
(* copy.  A copy read as an array is taken to have no valid count.         *)
Garbage == [count |-> 0, blocks |-> <<>>, copy |-> 0]

(* BlockArray::BlocksUsed for n values and the count before them.          *)
BlocksUsed(n) == (n + ValuesInBlock) \div ValuesInBlock
TransactionSize == Cardinality(array) + BlocksUsed(Cardinality(array))

FreeLogBlocks ==
    IF sb.start <= logEnd THEN LogSize - logEnd + sb.start
    ELSE sb.start - logEnd

(* The sorted_array of a set of blocks.                                    *)
Sorted(S) ==
    CHOOSE a \in [1 .. Cardinality(S) -> S] :
        \A i, j \in DOMAIN a : i < j => a[i] < a[j]

(* The i-th block of the current log entry as it is written to the log:    *)
(* first the array, its count in front, then the blocks.                   *)
EntryBlock(i) ==
    LET a == Sorted(array)
        n == BlocksUsed(Len(a))
        first == IF i = 0 THEN 1 ELSE i * ValuesInBlock
        last == (i + 1) * ValuesInBlock - 1
    IN IF i < n
       THEN [count |-> IF i = 0 THEN Len(a) ELSE 0, copy |-> 0,
             blocks |-> SubSeq(a, first, IF last < Len(a) THEN last ELSE Len(a))]
       ELSE [Garbage EXCEPT !.copy = data[a[i - n + 1]]]

-----------------------------------------------------------------------------
(* A volume that was unmounted in order, its log empty at any position.    *)
Init ==
    /\ disk = [b \in Blocks |-> 0]
    /\ log = [i \in Positions |-> Garbage]
    /\ \E p \in Positions : super = [start |-> p, end |-> p, dirty |-> FALSE]
    /\ phase = "mounted" /\ readOnly = FALSE
    /\ sb = super /\ logEnd = super.end
    /\ array = {} /\ entries = <<>> /\ batched = FALSE
    /\ data = disk /\ clone = disk
    /\ func = [b \in Blocks |-> None] /\ writer = None
    /\ pc = "free" /\ back = "free" /\ pos = 0 /\ step = 0
    /\ txns = 0 /\ crashes = 0

(* Entering WriteLogEntry: an empty entry is not written.                  *)
WriteLogEntry(b) ==
    /\ batched' = FALSE
    /\ pc' = IF array = {} THEN b ELSE "space"
    /\ back' = b

(* Lock, with a write of the current entry when it is older than two       *)
(* seconds.                                                                *)
Lock(owner) ==
    /\ phase = "mounted" /\ pc = "free"
    /\ \/ pc' = owner /\ UNCHANGED <<back, batched>>
       \/ batched /\ WriteLogEntry(owner)
    /\ UNCHANGED <<diskVars, phase, sb, logEnd, array, entries, readOnly,
                   cacheVars, pos, step>>

(* Transaction::Start.                                                     *)
Start ==
    /\ txns < MaxTransactions /\ ~readOnly
    /\ Lock("body")
    /\ txns' = txns + 1 /\ UNCHANGED crashes

(* LogBlocks, unless it returns B_DEVICE_FULL, for a block that its caller *)
(* has changed in the cache.  A block that is in the array already is only *)
(* changed there.  The flush that LogBlocks may force is the cache's.      *)
LogBlocks(b) ==
    /\ pc = "body" /\ TransactionSize + 2 <= LogSize
    /\ data' = [data EXCEPT ![b] = txns]
    /\ array' = array \cup {b}
    /\ UNCHANGED <<diskVars, phase, sb, logEnd, entries, batched, readOnly,
                   clone, func, writer, ownVars, boundVars>>

(* Unlock and TransactionDone.  A transaction that failed is not undone.   *)
Unlock ==
    /\ pc \in {"body", "unlock"}
    /\ \/ /\ TransactionSize < MaxTransactionSize
          /\ pc' = "free" /\ batched' = TRUE /\ UNCHANGED back
       \/ /\ TransactionSize >= MaxTransactionSize
          /\ WriteLogEntry("free")
    /\ UNCHANGED <<diskVars, phase, sb, logEnd, array, entries, readOnly,
                   cacheVars, pos, step, boundVars>>

(* FlushLogAndBlocks, of Volume::Sync and of an unmount: lock, write the   *)
(* current entry, write everything that waits to go home.                  *)
FlushLogAndBlocks == Lock("flush") /\ UNCHANGED boundVars

FlushLog ==
    /\ pc = "flush" /\ WriteLogEntry("sync")
    /\ UNCHANGED <<diskVars, phase, sb, logEnd, array, entries, readOnly,
                   cacheVars, pos, step, boundVars>>

AllHomeIdle == writer = None

(* FlushDevice returns when nothing waits to go home.                      *)
AllHome == writer = None /\ \A b \in Blocks : func[b] = None

FlushBlocks ==
    /\ pc = "sync" /\ AllHome
    /\ pc' = "unlock"
    /\ UNCHANGED <<diskVars, phase, memVars, cacheVars, back, pos, step, boundVars>>

-----------------------------------------------------------------------------
(* WriteLogEntry, with an entry to write.                                  *)

EnoughSpaceOneLess == TransactionSize - 1 <= FreeLogBlocks

EnoughSpace == TransactionSize <= FreeLogBlocks

(* There is enough space in the log, after as many flushes as it took: the *)
(* entry may fill it to the last block.                                    *)
HasSpace ==
    /\ pc = "space" /\ EnoughSpace
    /\ pc' = "log" /\ pos' = logEnd /\ step' = 0
    /\ UNCHANGED <<diskVars, phase, memVars, cacheVars, back, boundVars>>

(* The flushes did not help: Panic, and the entry stays in memory.         *)
NoSpace ==
    /\ pc = "space" /\ ~EnoughSpace
    /\ readOnly' = TRUE /\ pc' = back
    /\ UNCHANGED <<diskVars, phase, sb, logEnd, array, entries, batched,
                   cacheVars, back, pos, step, boundVars>>

NextPosition(p) == (p + 1) % LogSize

(* One write_pos of the array or of a block into the log.                  *)
WriteLog ==
    /\ pc = "log" /\ step < TransactionSize
    /\ log' = [log EXCEPT ![pos] = EntryBlock(step)]
    /\ pos' = NextPosition(pos)
    /\ step' = step + 1
    /\ UNCHANGED <<disk, super, phase, memVars, cacheVars, pc, back, boundVars>>

CachedBlocksAll == TransactionSize

CachedBlocks == Cardinality(array)

(* The new log_entry, and set_blocks_info, which writes the versions of    *)
(* its blocks that still wait before it unlocks the new ones.  In a log    *)
(* that starts over all of them are flushed before the end is moved.       *)
AddEntry ==
    /\ pc = "log" /\ step = TransactionSize
    /\ writer = None /\ \A b \in array : func[b] = None
    /\ entries' = Append(entries, [start |-> logEnd,
                                   cached_blocks |-> CachedBlocks])
    /\ clone' = [b \in Blocks |-> IF b \in array THEN data[b] ELSE clone[b]]
    /\ func' = [b \in Blocks |-> IF b \in array THEN logEnd ELSE func[b]]
    /\ array' = {}
    /\ pc' = IF pos < logEnd THEN "drain" ELSE "end"
    /\ UNCHANGED <<diskVars, phase, sb, logEnd, batched, readOnly, data,
                   writer, back, pos, step, boundVars>>

DrainDevice ==
    /\ pc = "drain" /\ AllHome
    /\ pc' = "end"
    /\ UNCHANGED <<diskVars, phase, memVars, cacheVars, back, pos, step, boundVars>>

MoveLogEnd ==
    /\ pc = "end"
    /\ sb' = [sb EXCEPT !.end = pos, !.dirty = TRUE]
    /\ logEnd' = pos
    /\ pc' = "super"
    /\ UNCHANGED <<diskVars, phase, array, entries, batched, readOnly,
                   cacheVars, back, pos, step, boundVars>>

(* The WriteSuperBlock that commits the entry.                             *)
Commit ==
    /\ pc = "super"
    /\ super' = sb /\ pc' = back
    /\ UNCHANGED <<disk, log, phase, memVars, cacheVars, back, pos, step, boundVars>>

-----------------------------------------------------------------------------
(* The block cache writes a block that waits, at any time, and calls       *)
(* blockNotify.                                                            *)
WriteHome(b) ==
    /\ phase = "mounted" /\ writer = None /\ func[b] # None
    /\ disk' = [disk EXCEPT ![b] = clone[b]]
    /\ func' = [func EXCEPT ![b] = None]
    /\ writer' = func[b]
    /\ UNCHANGED <<log, super, phase, memVars, data, clone, ownVars, boundVars>>

IndexOf(e) == CHOOSE i \in DOMAIN entries : entries[i].start = e

NewLogStartPlain == logEnd

(* Where log_start goes when the first entry is done.                      *)
NewLogStart ==
    IF Len(entries) > 1
    THEN (sb.start + entries[2].start - entries[1].start) % LogSize
    ELSE logEnd

blockNotify ==
    LET i == IndexOf(writer)
        start == IF i = 1 THEN NewLogStart ELSE sb.start
    IN /\ phase = "mounted" /\ writer \in Positions
       /\ \/ /\ entries[i].cached_blocks > 1
             /\ entries' = [entries EXCEPT ![i].cached_blocks = @ - 1]
             /\ writer' = None
             /\ UNCHANGED sb
          \/ /\ entries[i].cached_blocks = 1
             /\ entries' = [j \in 1 .. Len(entries) - 1 |->
                               entries[IF j < i THEN j ELSE j + 1]]
             /\ sb' = [start |-> start, end |-> sb.end,
                       dirty |-> sb.dirty /\ ~(i = 1 /\ start = sb.end)]
             /\ writer' = IF i = 1 THEN AtSuper ELSE None
       /\ UNCHANGED <<diskVars, phase, logEnd, array, batched, readOnly,
                      data, clone, func, ownVars, boundVars>>

NotifySuper ==
    /\ phase = "mounted" /\ writer = AtSuper
    /\ super' = sb /\ writer' = None
    /\ UNCHANGED <<disk, log, phase, memVars, data, clone, func, ownVars, boundVars>>

-----------------------------------------------------------------------------
(* The memory of a machine that starts.                                    *)
Forget ==
    /\ phase' = "down" /\ readOnly' = FALSE
    /\ array' = {} /\ entries' = <<>> /\ batched' = FALSE
    /\ func' = [b \in Blocks |-> None] /\ writer' = None
    /\ pc' = "free" /\ back' = "free" /\ pos' = 0 /\ step' = 0
    /\ UNCHANGED <<diskVars, sb, logEnd, data, clone, txns>>

Crash ==
    /\ phase \in {"mounted", "replay"} /\ crashes < MaxCrashes
    /\ Forget /\ crashes' = crashes + 1

(* Volume::Unmount: the destructor of the journal has flushed everything.  *)
Unmount == phase = "mounted" /\ pc = "unlock" /\ Forget /\ UNCHANGED crashes

(* Volume::Mount and InitCheck.                                            *)
Mount ==
    /\ phase = "down"
    /\ sb' = super /\ logEnd' = super.end
    /\ data' = disk /\ clone' = disk
    /\ phase' = IF super.start = super.end THEN "mounted" ELSE "replay"
    /\ pos' = super.start /\ step' = 0
    /\ UNCHANGED <<diskVars, array, entries, batched, readOnly, func, writer,
                   pc, back, boundVars>>

(* Where ReplayLogEntry looks for the p-th block of the array of the entry *)
(* at s: it starts over only one block behind the end of the log.          *)
ArrayBlock(s, p) == IF s + p <= LogSize THEN s + p ELSE s + p - LogSize - 1

(* The i-th block of the entry at s, None if its number cannot be read.    *)
HomeOf(s, i) ==
    LET p == i \div ValuesInBlock
        a == ArrayBlock(s, p)
        j == IF p = 0 THEN i ELSE i - p * ValuesInBlock + 1
    IN IF a \in Positions /\ j \in DOMAIN log[a].blocks THEN log[a].blocks[j] ELSE None
CopyOf(s, i) == log[(s + BlocksUsed(log[s].count) + i - 1) % LogSize].copy

Readable(s) ==
    /\ log[s].count \in 1 .. LogSize - 1
    /\ \A i \in 1 .. log[s].count : HomeOf(s, i) # None

EntryAfter(s) == (s + log[s].count + BlocksUsed(log[s].count)) % LogSize

(* ReplayLogEntry: the next block of the entry at pos.                     *)
ReplayBlock ==
    /\ phase = "replay" /\ pos # logEnd /\ Readable(pos)
    /\ step < log[pos].count
    /\ disk' = [disk EXCEPT ![HomeOf(pos, step + 1)] = CopyOf(pos, step + 1)]
    /\ step' = step + 1
    /\ UNCHANGED <<log, super, phase, memVars, cacheVars, pc, back, pos, boundVars>>

(* The rest of ReplayLog's loop; an entry that cannot be read ends the     *)
(* mount.                                                                  *)
ReplayNext ==
    /\ phase = "replay" /\ pos # logEnd
    /\ Readable(pos) => step = log[pos].count
    /\ phase' = IF Readable(pos) THEN "replay" ELSE "failed"
    /\ pos' = IF Readable(pos) THEN EntryAfter(pos) ELSE pos
    /\ step' = 0
    /\ UNCHANGED <<diskVars, memVars, cacheVars, pc, back, boundVars>>

(* ReplayLog is at the end: the log is empty, the disk clean.              *)
ReplayDone ==
    /\ phase = "replay" /\ pos = logEnd
    /\ sb' = [start |-> logEnd, end |-> logEnd, dirty |-> FALSE]
    /\ super' = sb'
    /\ data' = disk /\ clone' = disk
    /\ phase' = "mounted" /\ pos' = 0 /\ step' = 0
    /\ UNCHANGED <<disk, log, logEnd, array, entries, batched, readOnly, func,
                   writer, pc, back, boundVars>>

-----------------------------------------------------------------------------
Owner == FlushLog \/ FlushBlocks \/ HasSpace \/ NoSpace \/ WriteLog \/ AddEntry
            \/ DrainDevice \/ MoveLogEnd \/ Commit \/ Unlock
Cache == (\E b \in Blocks : WriteHome(b)) \/ blockNotify \/ NotifySuper
Recovery == Mount \/ ReplayBlock \/ ReplayNext \/ ReplayDone

Next ==
    \/ Start \/ FlushLogAndBlocks \/ (\E b \in Blocks : LogBlocks(b))
    \/ (phase = "mounted" /\ Owner) \/ Cache \/ Recovery \/ Crash \/ Unmount

Spec == Init /\ [][Next]_vars

(* The owner of the lock runs on, a transaction ends, the cache writes     *)
(* what waits (the flushes of WriteLogEntry and flush_device make it).     *)
LiveSpec == Spec /\ WF_vars(phase = "mounted" /\ Owner) /\ WF_vars(Cache)
                 /\ WF_vars(Recovery)

-----------------------------------------------------------------------------
JournalTypeOK ==
    /\ disk \in [Blocks -> 0 .. MaxTransactions]
    /\ log \in [Positions -> [count : Nat, copy : 0 .. MaxTransactions,
                              blocks : Seq(Blocks)]]
    /\ super \in [start : Positions, end : Positions, dirty : BOOLEAN]
    /\ sb \in [start : Positions, end : Positions, dirty : BOOLEAN]
    /\ logEnd \in Positions /\ pos \in Positions /\ step \in Nat
    /\ phase \in {"mounted", "down", "replay", "failed"}
    /\ readOnly \in BOOLEAN /\ batched \in BOOLEAN
    /\ array \subseteq Blocks
    /\ entries \in Seq([start : Positions, cached_blocks : Nat])
    /\ data \in [Blocks -> 0 .. MaxTransactions]
    /\ clone \in [Blocks -> 0 .. MaxTransactions]
    /\ func \in [Blocks -> Positions \cup {None}]
    /\ writer \in Positions \cup {None, AtSuper}
    /\ pc \in {"free", "body", "unlock", "flush", "sync", "space", "log",
               "drain", "end", "super"}
    /\ back \in {"free", "body", "flush", "sync"}
    /\ txns \in 0 .. MaxTransactions /\ crashes \in 0 .. MaxCrashes

(* What a mount would make of the disk: n entries at most from position s  *)
(* on, into volume v.                                                      *)
Contents == 0 .. MaxTransactions
CopyIn(s, b, old) ==
    LET I == {i \in 1 .. log[s].count : HomeOf(s, i) = b}
    IN IF I = {} THEN old ELSE CopyOf(s, CHOOSE i \in I : TRUE)
Replay[n \in 0 .. LogSize, s \in Positions, v \in [Blocks -> Contents]] ==
    IF n = 0 \/ s = super.end \/ ~Readable(s) THEN [at |-> s, volume |-> v]
    ELSE Replay[n - 1, EntryAfter(s), [b \in Blocks |-> CopyIn(s, b, v[b])]]
Replayed == Replay[LogSize, super.start, disk]

(* At every moment the super block on disk leads from log_start over whole *)
(* entries to log_end: a mount after a crash reads no block that is not an *)
(* entry, whatever was being written, flushed or replayed.  (Of a log that *)
(* is full to the last block, and is not replayed, it says nothing.)       *)
LogReadable == Replayed.at = super.end

(* A log entry is told of each of its blocks exactly once, so that the     *)
(* start of the log moves when, and only when, the last of them is home.   *)
EntryCountsBlocks ==
    phase = "mounted" =>
        \A i \in DOMAIN entries : entries[i].cached_blocks =
            Cardinality({b \in Blocks : func[b] = entries[i].start})
                + IF writer = entries[i].start THEN 1 ELSE 0

(* WriteLogEntry, blockNotify and ReplayLog keep the log in order: on disk *)
(* it can be read, in memory every entry knows what it waits for.          *)
LogKept == JournalTypeOK /\ LogReadable /\ EntryCountsBlocks

(* Blocks of the entry may go home from set_blocks_info on, the entry      *)
(* counts from the write of the super block on.                            *)
Committing == phase = "mounted" /\ pc \in {"drain", "end", "super"}

(* The journal keeps what it promises: only committed transactions, whole  *)
(* and in order, are there after a crash, at whatever step it happens, a   *)
(* step of the replay included.                                            *)
Promise == INSTANCE JournalSpec WITH
    stable <- IF Committing THEN data ELSE Replayed.volume,
    working <- IF phase = "mounted" THEN data ELSE Replayed.volume,
    open <- phase = "mounted" /\ pc = "body"
ImplementsJournalSpec == Promise!Spec

(* When FlushLogAndBlocks is done, every block is home: Sync and unmount   *)
(* leave nothing that only the log or the memory knows.                    *)
SyncPersists ==
    [][pc = "sync" /\ pc' = "unlock" /\ ~readOnly => disk = data]_vars

(* When no transaction starts any more, every entry is done some time and  *)
(* the log has its space back but for one entry's, unless the machine      *)
(* stops.  (blockNotify leaves log_start where the last entry starts, if   *)
(* its blocks are home before WriteLogEntry has moved log_end, as they are *)
(* when the log starts over.  An entry has at most ValuesInBlock blocks.)  *)
SpaceComesBack ==
    (phase = "mounted" /\ entries # <<>> /\ txns = MaxTransactions)
        ~> (phase # "mounted" \/ (entries = <<>> /\ LogSize - FreeLogBlocks <= ValuesInBlock))
=============================================================================
