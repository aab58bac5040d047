--------------------------- MODULE BlockAllocator ---------------------------
(***************************************************************************)
(* The block bitmap of a BeFS volume (BeFS/source/BlockAllocator.cpp):     *)
(* allocation groups of fBlocksPerGroup bitmap blocks each, searched from  *)
(* a hint, with a first free block and a count of free blocks cached per   *)
(* group by a thread that Initialize spawns.                               *)
(*                                                                         *)
(* An operation runs under fLock and is one step.  A position in a group   *)
(* and a bit of its bitmap are the same thing only if the arithmetic of    *)
(* the code makes them so.  Bitmap blocks can always be read and written.  *)
(* Positions and lengths are 16 bits wide in the code; groups are smaller. *)
(***************************************************************************)
EXTENDS Integers, FiniteSets

CONSTANTS
    NumGroups,          \* fNumGroups
    BlocksPerGroup,     \* fBlocksPerGroup
    BlockBits,          \* bits of a bitmap block, BlockSize() << 3
    NumBlocks,          \* blocks of the volume; the last group may be shorter
    Reserved            \* blocks up to the end of the log, in group 0

Groups == 0 .. NumGroups - 1
GroupBits == BlocksPerGroup * BlockBits

ASSUME AllocatorAssumption ==
    /\ NumGroups \in Nat \ {0} /\ BlocksPerGroup \in Nat \ {0} /\ BlockBits \in Nat \ {0}
    /\ NumBlocks \in (NumGroups - 1) * GroupBits + 1 .. NumGroups * GroupBits
    /\ Reserved \in 0 .. GroupBits /\ Reserved <= NumBlocks
    /\ GroupBits < 65536

VARIABLES
    bitmap,         \* per group: its bits that are set, 0 .. GroupBits - 1
    fFirstFree, fFreeBits,
    initialized,    \* the spawned thread has been through
    used_blocks,    \* of the super block
    runs            \* history: the block_runs that are allocated

allocatorVars == <<bitmap, fFirstFree, fFreeBits, initialized, used_blocks, runs>>

(* AllocationGroup::fNumBits.                                              *)
fNumBits(g) == IF g = NumGroups - 1 THEN NumBlocks - g * GroupBits ELSE GroupBits

RunBlocks(run) == {<<run.group, b>> : b \in run.start .. run.start + run.length - 1}

(* The bits of a group whose block is reserved or in one of the runs.      *)
Owned(g) ==
    {b \in 0 .. fNumBits(g) - 1 :
        (g = 0 /\ b < Reserved) \/ \E r \in runs : <<g, b>> \in RunBlocks(r)}

(* What a volume may hold: block_runs inside their groups that share no    *)
(* block with each other or with the reserved ones.                        *)
VolumeRuns ==
    {run \in [group : Groups, start : 0 .. GroupBits - 1, length : 1 .. GroupBits] :
        /\ run.start + run.length <= fNumBits(run.group)
        /\ run.group = 0 => run.start >= Reserved}
Apart(R) == \A r, q \in R : r # q => RunBlocks(r) \cap RunBlocks(q) = {}

(* A volume is mounted, new or with any files on it.  The number of used   *)
(* blocks on disk may be an old one.                                       *)
AllocatorInit ==
    /\ runs \in SUBSET VolumeRuns /\ Apart(runs)
    /\ bitmap = [g \in Groups |-> Owned(g)]
    /\ used_blocks \in 0 .. NumBlocks
    /\ fFirstFree = [g \in Groups |-> -1] /\ fFreeBits = [g \in Groups |-> 0]
    /\ initialized = FALSE

Free(g) == (0 .. fNumBits(g) - 1) \ bitmap[g]
AllFree == {p \in Groups \X (0 .. GroupBits - 1) : p[2] \in Free(p[1])}

(* What the counting thread adds up: the free blocks, and as many for each *)
(* group as Free has counted before (they are numbered -1, -2, ...).       *)
CountedFree == AllFree \cup {p \in Groups \X (-GroupBits .. -1) : -p[2] <= fFreeBits[p[1]]}

(* initialize counts the free ranges of every group.                       *)
initialize ==
    /\ ~initialized /\ initialized' = TRUE
    /\ fFreeBits' = [g \in Groups |-> fFreeBits[g] + Cardinality(Free(g))]
    /\ fFirstFree' = [g \in Groups |->
          IF fFirstFree[g] = -1 /\ Free(g) # {}
          THEN CHOOSE b \in Free(g) : \A c \in Free(g) : b <= c
          ELSE fFirstFree[g]]
    /\ used_blocks' = NumBlocks - Cardinality(CountedFree)
    /\ UNCHANGED <<bitmap, runs>>

-----------------------------------------------------------------------------
(* AllocationBlock: bits of one bitmap block of a group.                   *)

(* NumBlockBits of any block of the group.                                 *)
NumBlockBits(g) ==
    IF fNumBits(g) % BlockBits # 0 THEN fNumBits(g) % BlockBits ELSE BlockBits

IsUsed(g, block, bit) == block * BlockBits + bit \in bitmap[g]

BitsShort(g, block, start, length) ==
    LET first == start % NumBlockBits(g)
    IN  {block * BlockBits + i : i \in first .. first + length - 2}
(* The bits that AllocationBlock::Allocate and Free touch.                 *)
Bits(g, block, start, length) ==
    LET first == start % NumBlockBits(g)
        last == IF first + length > NumBlockBits(g) THEN NumBlockBits(g)
                ELSE first + length
    IN  {block * BlockBits + i : i \in first .. last - 1}

-----------------------------------------------------------------------------
(* AllocateBlocks.                                                         *)

NoRange == [range |-> 0, start |-> 0, first |-> 0, block |-> -1, stop |-> FALSE]

(* One bit of the scan; `second' is the pass that is content with minimum. *)
ScanBit(g, block, second, maximum, minimum, scan, bit) ==
    IF scan.stop THEN scan
    ELSE IF ~IsUsed(g, block, bit)
    THEN LET new == scan.range = 0
         IN  [range |-> scan.range + 1,
              start |-> IF new THEN block * NumBlockBits(g) + bit ELSE scan.start,
              first |-> IF new THEN block ELSE scan.first,
              block |-> scan.block, stop |-> scan.range + 1 >= maximum]
    ELSE IF second /\ scan.range >= minimum THEN [scan EXCEPT !.stop = TRUE]
    ELSE [scan EXCEPT !.range = 0]

(* The bits of a block from `from' on.                                     *)
ScanBits(g, block, from, second, maximum, minimum, scan) ==
    LET bits[n \in 0 .. BlockBits] ==
            IF n = 0 THEN scan
            ELSE ScanBit(g, block, second, maximum, minimum, bits[n - 1], from + n - 1)
    IN  bits[NumBlockBits(g) - from]

(* A block, if none before it completed a range.                           *)
ScanBlock(g, block, from, second, maximum, minimum, scan) ==
    LET s == ScanBits(g, block, from, second, maximum, minimum, scan)
    IN  IF scan.block # -1 THEN scan
        ELSE IF s.range >= (IF second THEN minimum ELSE maximum)
             THEN [s EXCEPT !.block = block] ELSE s

(* The blocks of a group from start on; block # -1 when a range was found. *)
Scan(g, start, second, maximum, minimum) ==
    LET first == start \div BlockBits
        blocks[n \in 0 .. BlocksPerGroup] ==
            IF n = 0 THEN NoRange
            ELSE ScanBlock(g, first + n - 1, IF n = 1 THEN start % NumBlockBits(g) ELSE 0,
                           second, maximum, minimum, blocks[n - 1])
    IN  blocks[BlocksPerGroup - first]

(* Where the scan of a group starts: not before its first free block.      *)
Hint(g, start) == IF start < fFirstFree[g] THEN fFirstFree[g] ELSE start

(* Step i of the search: group, scan, or nothing found there.              *)
Found(i, group, start, maximum, minimum) ==
    LET g == (group + i) % NumGroups
        s == IF i = 0 THEN start ELSE 0
    IN  IF s >= fNumBits(g) \/ fFreeBits[g] = 0 THEN NoRange
        ELSE Scan(g, Hint(g, s), i >= NumGroups, maximum, minimum)

(* The steps of both passes; the second is for a smaller minimum only.     *)
Steps(maximum, minimum) ==
    0 .. (IF maximum = minimum THEN NumGroups ELSE 2 * NumGroups) - 1

FirstHit(hits) == CHOOSE h \in hits : \A k \in hits : h.step <= k.step

(* What a search returns: the block_run, or one of length 0 for            *)
(* B_DEVICE_FULL; `scan' tells how it was found.                           *)
RunFound(group, maximum, hits) ==
    LET h == FirstHit(hits)
    IN  IF hits = {} THEN [group |-> 0, start |-> 0, length |-> 0, scan |-> NoRange]
        ELSE [group |-> (group + h.step) % NumGroups, start |-> h.scan.start,
              scan |-> h.scan,
              length |-> IF h.step >= NumGroups THEN h.scan.range ELSE maximum]

Search(group, start, maximum, minimum) ==
    LET Hit(i) == [step |-> i, scan |-> Found(i, group, start, maximum, minimum)]
    IN  RunFound(group, maximum,
                 {h \in {Hit(i) : i \in Steps(maximum, minimum)} : h.scan.block # -1})

(* fFirstFree after an allocation: it moves past a range at its place.     *)
FirstFreeAfter(g, start, length) ==
    IF start = fFirstFree[g] THEN start + length ELSE fFirstFree[g]

(* The range is marked in the bitmap, if there is one.                     *)
Take(run) ==
    LET g == run.group  n == run.length
        split == run.scan.first # run.scan.block
    IN  IF n = 0 THEN UNCHANGED allocatorVars
        ELSE /\ fFirstFree' = [fFirstFree EXCEPT ![g] = FirstFreeAfter(g, run.start, n)]
             /\ fFreeBits' = [fFreeBits EXCEPT ![g] = @ - n]
             /\ IF split  \* B_ERROR: the test of SetTo for the block before is inverted
                THEN /\ bitmap' = [bitmap EXCEPT ![g] = @ \cup
                           Bits(g, run.scan.block, 0, (run.start + n) % NumBlockBits(g))]
                     /\ UNCHANGED <<used_blocks, runs>>
                ELSE /\ bitmap' = [bitmap EXCEPT ![g] = @ \cup
                           Bits(g, run.scan.block, run.start, n)]
                     /\ used_blocks' = used_blocks + n
                     /\ runs' = runs \cup {[group |-> g, start |-> run.start, length |-> n]}
             /\ UNCHANGED initialized

(* Before initialize every group counts as full.  (After an early Free one *)
(* does not, and its fNumBits is not set: that search is left out.)        *)
AllocateBlocks(group, start, maximum, minimum) ==
    /\ initialized \/ \A g \in Groups : fFreeBits[g] = 0
    /\ Take(Search(group, start, maximum, minimum))

(* An inode takes one block of its parent's group or of the eighth after.  *)
AllocateForInode(group, directory) ==
    AllocateBlocks(IF directory THEN group + 8 ELSE group, 0, 1, 1)

(* Data goes where the inode or its last run are; a run fits in a group.   *)
Allocate(group, start, numBlocks, minimum) ==
    AllocateBlocks(group, start, IF numBlocks > fNumBits(0) THEN fNumBits(0) ELSE numBlocks,
                   minimum)

-----------------------------------------------------------------------------
(* Free: per bitmap block, at most up to the block's end; freeLength and   *)
(* length are 16 bits wide.                                                *)
FreeBlock(g, st, block) ==
    LET over == st.start + st.length > NumBlockBits(g)
        freeLength == IF over THEN (NumBlockBits(g) - st.start) % 65536 ELSE st.length
    IN  IF st.length = 0 THEN st
        ELSE [start |-> 0, length |-> (st.length - freeLength) % 65536,
              bits |-> st.bits \cup Bits(g, block, st.start, freeLength)]

Freed(run) ==
    LET first == run.start \div BlockBits
        blocks[n \in 0 .. BlocksPerGroup] ==
            IF n = 0 THEN [start |-> run.start, length |-> run.length, bits |-> {}]
            ELSE FreeBlock(run.group, blocks[n - 1], first + n - 1)
    IN  blocks[BlocksPerGroup - first].bits

FirstFreeKept(g, start) == fFirstFree[g]
(* fFirstFree after blocks from start on were freed.                       *)
FirstFreeFreed(g, start) == IF fFirstFree[g] > start THEN start ELSE fFirstFree[g]

(* What Free changes in memory before it looks at the bitmap.              *)
CountFreed(run) ==
    LET g == run.group
    IN  /\ ~(g = 0 /\ run.start < Reserved)
        /\ fFirstFree' = [fFirstFree EXCEPT ![g] = FirstFreeFreed(g, run.start)]
        /\ fFreeBits' = [fFreeBits EXCEPT ![g] = @ + run.length]
        /\ UNCHANGED initialized

FreeRun(run) ==
    /\ initialized /\ CountFreed(run)
    /\ bitmap' = [bitmap EXCEPT ![run.group] = @ \ Freed(run)]
    /\ used_blocks' = used_blocks - run.length
    /\ runs' = runs \ {run}

(* Free before initialize, when fNumBits and fStart of the group are not   *)
(* set: it refuses the run (and nothing changes), or finds no bitmap block *)
(* there, or takes some group's, or a block that is none, for the bitmap.  *)
(* Counted are a group's blocks at most, which is a bound.                 *)
FreeEarly(run) ==
    /\ ~initialized /\ CountFreed(run)
    /\ fFreeBits[run.group] + run.length <= GroupBits
    /\ \/ UNCHANGED <<bitmap, used_blocks, runs>>
       \/ /\ \/ \E g \in Groups : bitmap' = [bitmap EXCEPT ![g] = @ \ Freed(run)]
             \/ UNCHANGED bitmap
          /\ used_blocks' = used_blocks - run.length
          /\ runs' = runs \ {run}

-----------------------------------------------------------------------------
(* Nobody frees a run before the counting thread has been through.         *)
AllocatorNextLate ==
    \/ initialize
    \/ \E g \in Groups, directory \in BOOLEAN : AllocateForInode(g, directory)
    \/ \E g \in Groups, s \in 0 .. GroupBits, n \in 1 .. GroupBits + 1 :
          \E m \in 1 .. n : m <= GroupBits /\ Allocate(g, s, n, m)
    \/ \E run \in runs : FreeRun(run)

AllocatorNext == AllocatorNextLate \/ \E run \in runs : FreeEarly(run)

AllocatorSpec == AllocatorInit /\ [][AllocatorNext]_allocatorVars
AllocatorSpecLate == AllocatorInit /\ [][AllocatorNextLate]_allocatorVars

-----------------------------------------------------------------------------
(* No block belongs to two block_runs, none of them is reserved or beyond  *)
(* its group, and the bitmap on disk has exactly their bits set.           *)
BlocksOwnedOnce ==
    /\ Apart(runs)
    /\ \A g \in Groups : bitmap[g] = Owned(g)
    /\ runs \subseteq VolumeRuns

(* Once initialize has been through the groups, in its own thread and some *)
(* time after the mount, the cached counts are those of the bitmap, and    *)
(* the number of used blocks is right whatever the disk said.              *)
CountsMatchBitmap ==
    initialized => /\ \A g \in Groups : fFreeBits[g] = Cardinality(Free(g))
                   /\ used_blocks = Reserved + Cardinality(UNION {RunBlocks(r) : r \in runs})

(* AllocateBlocks and Free keep the bitmap, and what is cached of it,      *)
(* those of the block_runs that were handed out.                           *)
BitmapKept == BlocksOwnedOnce /\ CountsMatchBitmap

(* fFirstFree hides no free block from a search.                           *)
FirstFreeIsLow ==
    initialized => \A g \in Groups : \A b \in Free(g) : fFirstFree[g] <= b

(* A group has n free blocks side by side.                                 *)
HasRange(g, n) ==
    \E b \in 0 .. fNumBits(g) - n : \A i \in 0 .. n - 1 : b + i \in Free(g)

(* A search without a hint, or one that may return less than the maximum,  *)
(* finds minimum blocks wherever there are that many; what it returns is   *)
(* free and as long as it was asked for.                                   *)
SearchFindsSpace ==
    initialized =>
       \A g \in Groups, s \in 0 .. GroupBits, n \in 1 .. GroupBits : \A m \in 1 .. n :
          LET run == Search(g, s, n, m)
          IN  IF run.length = 0
              THEN s = 0 \/ m < n => \A h \in Groups : ~HasRange(h, m)
              ELSE /\ run.length \in m .. n
                   /\ \A b \in run.start .. run.start + run.length - 1 : b \in Free(run.group)

(* No sequence of AllocateBlocks and Free hides free blocks from the next  *)
(* AllocateBlocks, by what is cached or by how it searches.                *)
SpaceFound == FirstFreeIsLow /\ SearchFindsSpace

(* A number of used blocks that is wrong at mount time is fixed by the     *)
(* thread that counts the free blocks: it is then that of the bitmap.      *)
UsedBlocksFixed == initialized => used_blocks = NumBlocks - Cardinality(AllFree)

(* What AllocateBlocks marks in the bitmap it hands out as a block_run.    *)
MarkedIsHandedOut ==
    [][runs' # runs \/ \A g \in Groups : bitmap'[g] \subseteq bitmap[g]]_allocatorVars

(* Free clears the bits of its block_run, and no others.                   *)
FreeClearsItsRun ==
    [][\A run \in runs \ runs' :
          {p \in Groups \X (0 .. GroupBits - 1) : p[2] \in bitmap[p[1]] \ bitmap'[p[1]]}
              = RunBlocks(run)]_allocatorVars
=============================================================================
