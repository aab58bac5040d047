# A TLA+ model of OpenBeOS

This directory specifies, model-checks and partly proves the parts of OpenBeOS
whose correctness depends on interleavings, crashes and reference counts: the
blocking core of the kernel (semaphores, locks, ports), its threads, timers,
inter-CPU messages, vnodes and descriptors, the journal and the block allocator
of the Be File System, and the loopers of the application kit. Paths without a
prefix are under `src/openbeos/sources/os/kits/kernel/core`. `PROJECT.json`
holds the map from definitions to source lines, the runs, mutants, findings,
hazards and theorems.

## Inventory

| component | state | operations | what makes it correct |
|---|---|---|---|
| Kernel semaphores (`sem.c`) | table of slots: id, count, FIFO wait queue, spinlock; per thread: flags, units wanted and lacking, error | create, delete, acquire, release, timeout, interruption, info | no thread lost or on two lists; the count accounts for the waiters; waits end |
| Mutexes and recursive locks (`lock.c`) | counter or holder + recursion, and a semaphore | init, lock, unlock, destroy | exclusion, no lost wakeup, lock granted |
| Benaphores and read/write locks (`lock.h`) | count from MAX_READERS, semaphore, inner benaphore | read and write acquire and release | a writer is alone; both kinds get in |
| Message ports (`port.c`) | table of slots: id, ring, head, tail, closed, two semaphores | create, close, delete, read, write, buffer size, count, info, owner | messages once and in order; memory valid across deletion |
| Threads and scheduler (`thread.c`) | thread and process tables, run queues, states, signals, `dead_q`, death stacks | create, resume, suspend, kill, exit, wait, priority, resched | a thread is in one place; a process ends after its threads; kills end |
| Timers (`timer.c`) | per-CPU sorted event lists, hardware timer | set, cancel, interrupt | an event fires or is cancelled; no list leads to an event that was given up |
| SMP and inter-CPU interrupts (`smp.c`) | free list, mailboxes, broadcast mailbox | send, broadcast, process | a message is in one place; a synchronous sender goes on after all have obeyed |
| VFS and rootfs (`fs/`) | vnode table, reference counts, busy and delete flags | get, put and remove vnodes, path walk, open, unlink, mount | a vnode in use is not freed; a file is removed after its last use |
| File descriptors (`fd.c`) | descriptor tables, reference counts | new, get, put, close, dup | closed when the last user is gone |
| Be File System (`src/BeFS/source`) | log, super block, bitmap, B+trees, inodes | transactions, replay, allocation, queries | replay restores whole transactions; a block has one owner |
| Application kit (`kits/app`) | loopers, queues, tokens | lock, post, dispatch, quit | message order, quitting, no use after destruction |
| Virtual memory (`vm/`) | regions, caches, page queues | map, fault, page states, daemons | reference counts, page in one queue |
| Kernel heap and cbufs, modules and ELF loader | bins; images, reference counts | kmalloc, kfree; get, put, load | nothing freed twice; init and uninit once |
| Network stack, other kits, preferences, applications, tools | | | |

Interaction. Locks, ports, threads that wait for threads, and loopers block only
through `acquire_sem_etc` and wake only through `release_sem_etc` and
`delete_sem`; semaphores use the thread lock, the run queues and the timer lists;
a kill takes the thread lock and then a semaphore's lock; TLB invalidation and
reschedules on other CPUs go through the mailboxes of `smp.c`; the file systems
call back into the VFS (`vfs_get_vnode`, `vfs_remove_vnode`) with their own lock
held; the block cache calls the journal back when a block is on the volume; a
looper's messages go through a port. The hard behaviour is in the windows between
two locks, between an atomic counter and a semaphore, and between a wait and the
second look at a table; in timeouts, kills and deletions that meet each other; in
the reuse of slots and structures; and, for the journal, in the order of writes
that a stop of the machine may cut anywhere. The hazards in `PROJECT.json` name
the lines.

## Modules

* `Sem` models `sem.c` with the scheduling, timer and kill paths it needs. A step
  is a critical section of one CPU, or one iteration of a loop over a wait queue
  with the lock held. `cpc[c]` is where CPU `c` is in the kernel, `tpc[t]` where a
  thread resumes. The run queues are one set, since any priorities are allowed.
  `fault` records the first panic, NULL dereference, dangling timer or thread
  running twice; nothing follows it.
* `SemSpec` is what callers of one-unit acquires may rely on: FIFO counting
  semaphores. `SemRefinement` maps `Sem` to it and states the accounting of
  several units. `SemInv` is the inductive strengthening, `SemProofs` its
  proof and the proof of the refinement. `MCSem` has the symmetry, the view and the restricted specifications.
* `Mutex`, `RecursiveLock`, `RwLock` model the locks, each with the counter and
  the semaphore in separate steps, over semaphores that behave as `SemSpec`
  says (`RwLock` also asks for several units). They share the threads of
  `LockThreads`. `LockProofs` holds the theorems of all three.
* `Port` models the ports over such semaphores. A ring and two semaphores are
  named after the port they were made for; `gen[s]` is the port whose pointers
  slot `s` holds, also after its deletion. `sent` and `got` are history.
  Uninitialized memory is a free choice. With `Smp` another CPU may run inside
  the critical section of a deletion. `SpecKeep` restricts the calls to those that
  keep the ports (no deletion, a table with room, size queries that wait). `PortProofs`
  holds the theorems, `MCPort` the symmetry and the view.
* `Thread` models `thread.c`: `th[t]` is a `struct thread` with the program
  counter of its thread, `cur` who runs on each CPU, `runq` how often a thread is
  linked into the run queues, `proc` the one user process, used again and again.
  A step is what a CPU does under the thread or the process lock. Snoozes and
  `return_code_sem` are waits that end by themselves or by a deletion. `jam`
  records that a CPU spins for a lock it has. `SpecLate` leaves out one interleaving
  (`PriorityLate`). `ThreadProofs` holds the theorems, `MCThread` the other
  restrictions.
* `Timer` models `timer.c` on CPUs `0 .. LastCpu`: `events[c]` is the list,
  `armed` the hardware timers that are set, `handler[c]` what a CPU does for
  timers with its interrupts off (scan, callback, the steps of a cancellation
  over its own and the other CPUs' lists), `owner[e]` what the thread of an event
  has done with it.
* `Smp` models the mailboxes: `sender[c]` and `server[c]` are the message a CPU
  sends and the one it serves, with how far it is; `served` is history. A CPU may
  serve at any time, as in the interrupt handler and the loop for a lock, or never. The check of the
  own bit of a broadcast is one step per message, as in `check_for_message`.
  `CpuProofs` holds the theorems of `Timer` and `Smp`.
* `Vfs` models `vfs.c`, `fd.c` and the calls of `rootfs.c` on files in one
  directory: the path walk with rootfs' lock held over `get_vnode`, the two halves
  of `dec_vnode_ref_count` around the call into the file system, descriptors and
  their slots in two io contexts, `dup`, `dup2`, the inheritance and the end of a
  context, working directories, `unlink`. `leaked` and `lost` record the references
  and descriptors that the code forgets.
* `Journal` models `Journal.cpp` with the super block of `Volume.cpp` and, as far
  as the journal uses it, the block cache. A block's contents are the number of
  the transaction that wrote it; `disk`, `log` and `super` survive a crash, the
  rest does not. Every write is a step of its own, `Crash` may follow each, and
  `Mount`, `ReplayBlock`, `ReplayNext`, `ReplayDone` are the replay. `JournalSpec`
  is what it promises: transactions that are there whole or not at all.
  `MCJournal` has the restrictions and the strict form of the promise.
* `BlockAllocator` models `BlockAllocator.cpp`: the bits of a group, the cached
  first free block and count, the search with its two passes bit by bit, the
  freeing block by block. An operation runs under one lock and is one step. Positions
  and lengths are 16 bits in the code, and a group has fewer blocks than that. The
  volume is mounted with any runs on it and any number of used blocks in its super
  block. `FreeEarly` is a free before the counting thread has been through, when the
  groups' sizes are not set; `AllocatorNextLate` leaves it out.
  `FsProofs` holds the theorems of `Vfs` and `BlockAllocator`.
* `Looper` models `Looper.cpp`: the lock with its unlocked reads of `fOwner`,
  the port and the queue, the dispatching thread, `PostMessage` with the list
  locked, `Quit` from inside and outside, the destructor. `LooperProofs` holds the theorems.
* `ListLemmas` states what removing from, inserting into, appending to and taking the
  head of a list without repetitions does to its members, and how sets of numbered
  units count; the proofs of the semaphores, the timers, the mailboxes, the ports,
  the locks and the file systems share it.
* `MCTimeouts`, `MCLocks` and `MCParts` put several of these side by side for one
  run: the variable `part` chooses at the start which of them moves. The state
  spaces add up and do not multiply; each fairness condition is guarded by `part`,
  so that a part that rests is under no obligation.

Operators named for a bug (`NeedAll`, `LastRefEarly`, `EnoughSpaceOneLess`, ...)
are the mutated forms that `PROJECT.json` substitutes to see each property fail.
Properties are conjunctions of named parts where the parts are one idea
(`ReferencesCounted`, `LogKept`, `ThreadInOnePlace`, ...).

## Runs that pass

| run | shows | bounds |
|---|---|---|
| `MCSemSmp` | `NoThreadLost`, `OneList`, `WaitsForLiveSem`, `CountMatchesQueue`, `ImplementsSemSpec` | 2 threads, 2 CPUs, 1 slot, 2 ids, one-unit acquires, counts from 0 |
| `MCTimeouts` | `NoFault`, `WaitsEnd`, `EventEnds` | 2 threads, 1 CPU, no deletions; 2 events, 2 CPUs, 3 ticks |
| `MCLocks` | `MutualExclusion`, `NoLostWakeup`, `HolderIsOwner`, `WaiterHasOwner`, `RwLockKept`, `LocksGranted`; `OwnerHasLooper`, `LooperKept`, `MessagesInOrder`, `LooperServes` | 3 threads, depth 2, MAX_READERS 4; 2 clients and the looper's thread, a port of 1, 2 posts, 2 nested locks |
| `MCPortKeep` | `NoPortFault`, `ReadInOrder`, `UnitsBacked` | 3 threads, ring of 1 or 2, 4 messages, no deletions, `port_buffer_size_etc` without timeout |
| `MCPortDelete` | `PortTableKept`, `DeletionWakes` (or a fault has stopped the kernel) | 2 threads, 1 CPU, ring of 1; 1 port and 2 messages, or 2 ports in one slot and 1 message, without size queries of the second (`OneOfEach`) |
| `MCJournal` | `LogKept`, `ImplementsJournalSpec`, `SyncPersists`, `SpaceComesBack` | 3 blocks, a log of 8 that starts anywhere, 3 transactions, 1 crash |
| `MCParts` | `DeficitMatchesNeeds`; `ReferencesCounted`, `NoStandstill`, `RemovedLast`; `BitmapKept`, `SpaceFound`; `MessagesKept`, `ServedByAll`; `EventLists` | semaphores: 3 threads, 1 or 2 units; VFS: 2 callers, 1 file, 2 descriptors, tables of 2; bitmap: 2 groups of 4 and 3 blocks, 1 reserved, any runs at the mount; 3 CPUs, 2 messages; 2 CPUs, 2 events |
| `MCThread` | `ThreadInOnePlace`, `ProcessEndsLast`, `DeathStacks` | 2 threads of a process beside the kernel's, 2 CPUs, 3 ids |
| `MCThreadLive` | `DyingEnds` | the same on 1 CPU, 2 ids, restricted as below |

Why the bounds suffice for the questions. Two threads on two CPUs already give
every pair of racing paths, one slot or structure with two ids gives reuse, three
threads give a queue of two beside a releaser, two units give partial grants (in
`MCParts`, on one CPU; the proofs are for any number of units and CPUs), and
a ring of two tells head from tail. MAX_READERS only has to exceed the number of
threads. With a ring of 1 and two messages a writer waits. A log of 8 holds two
entries of 3 and a piece, so it fills, wraps and frees, and such entries never fill it
to the last block: that case, in which the code fails, is the one of `MCJournalFull`
with a log of 6. A crash during the replay is followed by another replay. A bitmap of
two groups, one shorter, gives both passes of the search and a hint in a group that is
full. Two callers with one file meet at every step of its coming and going. Three CPUs
give a broadcast with a last and a last but one server.

Several runs restrict the callers; each restriction is a named formula and
excludes a case in which the code fails (see below): the absolute timeouts and
`NextKeep` in `MCSem`; `NextKeep` in `Port`; `EntriesAlike`, `CommitsWhole`,
`FreedOnDisk`, `NeverFull` in `MCJournal`; `AllocatorNextLate` in `BlockAllocator`;
`NextPatient` in `Vfs`; `PeriodicKept` in `Timer`; `PriorityLate` in `Thread`;
`KilledLate`, `WaitsOutside` in `MCThread`. `KernelWaits`, `KernelCalls` and `InOrder`
there and `OneOfEach` in `MCPort` only keep the runs small. Deadlock is not checked where all threads may rightly be
blocked or a bound has been reached (the `Sem`, `Port`, `Journal` and `BlockAllocator` runs, `MCParts`, `MCLooperFull`);
it is checked in the other runs of locks, loopers and threads.

## Runs that show a disagreement

| run | property | what happens |
|---|---|---|
| `MCJournalCrash` | `CrashConsistent` | the machine stops between `set_blocks_info` and the write of the super block: half a transaction is on the volume and the replay does not know of it |
| `MCVfsBusy` | `NotBusyWhenDropped` | `get_vnode` waits once for a busy vnode, in a loop that ends with `while(0)`, and goes on with it; its reference is dropped while the vnode is busy |
| `MCJournalFull` | `ImplementsJournalSpec` | an entry fills a log of 6 to the last block (`Journal.cpp:232` tests with `>`): the log ends where it starts, counts as empty, and is not replayed |

`PROJECT.json` quotes the line each of them contradicts. More configurations, which
TLC also finds violated, show what else the code does:

| configuration (module) | property | what happens |
|---|---|---|
| `MCSemMulti` (`MCSem`) | `NobodyStranded` | a two-unit waiter whose wait times out leaves another behind that could go on (`sem.c:741`) |
| `MCSemDeleteTimeout` (`MCSem`) | `NoPanic` | a timeout for a deleted semaphore panics (`sem.c:300`) |
| `MCPortRace` (`MCPort`) | `NoUseAfterFree` | a reader or writer uses a ring that was freed (`port.c:871`) |
| `MCPortSize` (`MCPort`) | `MessagesBacked` | a size query whose wait failed goes on as if a message had come and releases a unit it never had (`port.c:537`) |
| `MCJournalSpace` (`MCJournal`) | `FlushMakesSpace` | the last entry's blocks are home before `log_end` has moved behind it (`Journal.cpp:302`), always so when the log starts over (`:289`): `log_start` stays where the entry begins (`:193`), no flush gives its space back, and the next entry may end in `Panic` |
| `MCBlocksEarly` (`BlockAllocator`) | `UsedBlocksFixed` | a file is deleted before the counting thread has been through; what `Free` has counted is counted again (`BlockAllocator.cpp:176`), and the comment at `:382` ("it will be fixed anyway") does not hold |
| `MCBlocksSpan` (`BlockAllocator`) | `MarkedIsHandedOut` | a range over two bitmap blocks: the test of `SetTo` is inverted (`:366`), the allocation is left half done |
| `MCBlocksSpanFree` (`BlockAllocator`) | `FreeClearsItsRun` | a run behind the first bitmap block of its group: its position is not reduced to the block (`:497`), other bits are cleared |
| `MCLooperFull` (`Looper`) | `FullPortReturns` | a post to a full port waits with the list locked, and the looper needs the list to make room (`Looper.cpp:740`; the comment at `:450` expects `B_WILL_BLOCK` instead) |

The specifications also reach these faults, which explain the restrictions of the
passing runs:

* `sem.c:424`: an absolute timeout is armed and never cancelled (fault
  "dangling"); the passing runs give no `B_ABSOLUTE_TIMEOUT`.
* `sem.c:400`, on two CPUs: a release between the unlock and `thread_resched`
  queues a thread that still runs, so `RunningNotQueued` is for one CPU, and a
  kill then panics at `sem.c:712`; the late-kill path reads a NULL thread
  (`sem.c:434`).
* `port.c:546`: a size query reads the entry at head. `port.c:343`: deletion frees
  uninitialized pointers; `port.c:260`: a full table frees name and ring twice;
  `port.c:234`: a reused slot keeps `closed`; `port.c:853`: a failed write keeps
  its place. `port.c:230`, with `Smp`: a deletion frees the ring of the port just
  created in its slot.
* `Journal.cpp:208`, beside `MCJournalFull` and `MCJournalSpace`: the log's space is
  free in memory before the super block that frees it is on disk, and may be
  overwritten (without `FreedOnDisk`).
  Entries of different lengths leave `log_start` between two entries when the log
  has started over, and the replay reads the array from a wrong place one block
  behind the end (`:115`; without `EntriesAlike`). A failed transaction is not
  aborted (`:367`).
* `BlockAllocator.cpp`, with two bitmap blocks per group, beside `MCBlocksSpan` and
  `MCBlocksSpanFree`: the last group uses its remainder for every block (`:83`). A
  hinted search with equal bounds does not come back to the blocks before the hint
  (`:299`). Before the counting thread has been through every group looks full
  (`:293`) and none has a size: a free is refused, or clears bits of the wrong bitmap
  block (`:490-510`, `FreeEarly`; a search after such a free is left out).
* `fs/vfs.c:1173`: an open with a full table forgets descriptor and cookie;
  `fs/vfs.c:1659`: `dup2` of a number to itself leaves the mutex locked;
  `fd.c:207`: `user_ioctl` never puts its descriptor; `fd.c:119`: of two closes the
  second takes what is in the slot by then; `fs/rootfs.c:662`: unlinking a file that
  is not in memory never removes it.
* `thread.c:610`, on two CPUs: `thread_set_priority` links a thread twice that a
  release is about to queue (without `PriorityLate`). A thread killed while it is
  created stays suspended (`:1910`; without `KilledLate`); a thread of a process
  that waits for its main thread keeps both waiting (`:1190`; without
  `WaitsOutside`). `:1889`: `proc_kill_proc` does not check that the process has a main
  thread (`ProcCall` leaves that call out). `:907`: the exit of a thread releases a semaphore with the
  thread lock held and spins for it when another waits for a death stack; that
  takes three dying threads on two CPUs. `:863`: interrupts stay off.
* `timer.c:189`: the head of the list is looked at without the lock and may be
  NULL by then (`handler[c].pc = "null"`); `:217`: the callback may still be running
  when the cancellation returns; `:89`: a periodic event that was cancelled in its
  callback comes back (without `PeriodicKept`).
* `smp.c:105`: the allocator spins without serving its own mailbox; `:295`: one
  interrupt serves one message; `:346`: a reschedule served in a spin loop is
  dropped. `Smp` states no progress, since the code does not guarantee it.
* `Looper.cpp:740`: `LooperServes` allows the deadlock of `MCLooperFull` (`Standstill`).
  `:107`: a looper that quits
  itself kills its own thread first and stays in the list.

## Fairness

`Sem`: code with interrupts disabled runs on (weak fairness of `KernelStep`); a
pending timer or quantum interrupt is taken once interrupts are enabled again
and again (strong fairness of `Preempt` and `TimerInterrupt`); a thread in a run
queue is picked in its turn (strong fairness of `Picked`), which the FIFO queue
of one priority justifies: starvation by higher priorities is excluded by
assumption. `Thread` assumes the same of its quanta, that a thread gets somewhere
in its quantum, and that a snooze ends. `Timer`: time goes on, and an armed timer
interrupts a CPU that lets interrupts in. Locks: a thread runs on and leaves its
critical section; `RecursiveLock` and `Looper` also assume that an owner unlocks as
often as it locked. `Port`, `Looper`: a thread inside a call runs on. `Journal`: the
owner of the lock runs on and ends its transaction, the cache writes what waits
(the flushes make it), a mount that started goes on. Nobody is obliged to make a
call, and no crash is obliged to happen.

## Proofs

Checked by TLAPS for every value of the constants under the named assumptions.

* `SemProofs`: `SemInvariant` proves `SemInductive`, the conjunction of `TypeOK`,
  `ListInv` (the list properties together), `LocalsInv` (local queues are empty
  and targets are threads where the code relies on it), `LockInv` (a slot's lock
  is held by the CPU working in it) and `RunningInv` (a running thread is on a
  list exactly between its enqueue and its switch). The list properties are not
  inductive alone: a dequeue could take a thread that is also elsewhere.
  `SemTypeOK`, `SemNoThreadLost`, `SemOneList` and `SemWaitsForLiveSem` follow.
  `SemCountMatchesQueue` adds that every waiter lacks one unit; it assumes
  one-unit acquires and non-negative initial counts. `SemRunningNotQueued` is
  for one CPU. `SemImplementsSemSpec` is the refinement of `SemSpec`, for one-unit acquires
  and non-negative initial counts. Beside `SemInductive` and the
  count it needs `ReturnInv`: whoever is at the point where `acquire_sem_etc` returns
  has an outcome, and whoever has one is on no wait queue. Each action of `Sem` is
  shown to be one of `SemSpec` or to leave the abstract semaphores alone.
  `SemDeficitMatchesNeeds` is for any numbers of units: a negative count is what the
  waiters still lack together. It assumes non-negative initial counts and no flags,
  that is neither timeouts nor interrupting kills. What they lack is
  a set of numbered units (`Lacked`), so that the sum is a cardinality; every waiter
  lacks at least one (`NeedInv`), and nobody leaves a queue but by a release or a
  deletion (`Undisturbed`). `SemNobodyStranded` follows: without a deficit nobody
  waits. It is the complement of `MCSemMulti`, where a timeout strands a waiter.
* `LockProofs`: for the mutex the count is the number of threads inside and there
  is one permission to enter (`MutexInv`); `MutexExcludes` and `MutexNoLostWakeup`.
  For the recursive lock one permission, and the fields are the owner's
  (`RecursiveInv`); `RecursiveOneOwner`, `RecursiveHolderIsOwner`,
  `RecursiveWaiterHasOwner`.
  `RwInductive` of the read/write lock: every reader has taken one and every writer
  MAX_READERS from the count (`ReadersCounted`), and one thread has the benaphore or
  its semaphore has the one unit (`BenaphoreKept`). A waiting writer lacks one unit
  when a writer is in, and otherwise one for each reader that is in, each unit in the
  pool and each unit that a thread is about to release; without a writer as many
  readers wait as there are units on their way (`WriterBacked`, `ReadersBacked`). The
  units on their way are the elements of a set (`Owed`): exclusion alone is not
  inductive, because `release_sem_etc` shares several units among the readers before
  a writer and that writer, and only their number says that no writer gets what a
  reader is owed. `RwLockKeptAlways` follows, from one assumption: there are fewer
  threads than MAX_READERS.
* `LooperProofs`: `LooperInvariant` proves `LockInv` (the owner holds the one
  permission, and what a thread read of `fOwner` without the lock still tells the
  truth about itself), `OrderInv` (what was handled, the message at hand, the queue
  and the port, in this order, are what was posted) and `QuitProcessesAll`.
  `OwnerHasLooperAlways`, `LooperKeptAlways` and `MessagesInOrderAlways` follow.
* `CpuProofs` on the timers: `EventListsAlways`, for any number of CPUs and events. The lists
  alone are not inductive: an event must be on no list while its callback runs
  (`CallInv`), while it is being set (`SettingInv`) and when a cancellation has passed
  the list it was on (`CancelInv`); `ArmedInv` says whose hardware timer is set.
  On the mailboxes: `MessagesKeptAlways` and `ServedByAllAlways`. The invariant says for
  each message which one of its phases it is in (`Phase`: free, being prepared, in a
  mailbox, in the broadcast list with CPUs left, with its last server, back with a
  sender that waits), and what each phase says of the lists, of `ref_count`, of the
  bitmap and of the CPUs that name the message.
* `PortProofs` has two inductive invariants. `TableInductive` is for one CPU with
  deletions: a slot's pointers are those of its port, whose ring and semaphores are
  there while the port is (`TableInv`), waiters wait for live semaphores (`WaitInv`)
  and a deletion under way has taken its port out of the table (`DeleteInv`);
  `PortTableKeptAlways` follows. `KeepInductive` is for `SpecKeep` on any number of
  CPUs: the ring holds, from tail on, what was sent and not read (`RingInv`,
  `OrderInv`), and the units of the two semaphores with those that threads have in
  hand add up to the size of the ring (`UnitsBacked`, with `CallInv` and `MsgInv` for
  the threads inside a call). `NoPortFaultAlways`, `ReadInOrderAlways` and
  `UnitsBackedAlways` follow.
* `ThreadProofs`: `ThreadInvariant` proves `ThreadInductive` of `SpecLate`, the steps
  in which no `thread_set_priority` comes between the two halves of a wakeup, where
  it links a thread twice (see above). Its parts: the fields of one `struct thread`
  agree with its place in the code (`ShapeInv`); who is current runs, and who is READY
  is linked once or is still in the local queue of whoever woke it (`SchedInv`; without
  the local queues a wakeup would break it); `proc.threads` are the threads whose
  process it is, and the main thread closes the process before it takes it apart
  (`ProcInv`); a thread under creation belongs to its creator (`CreateInv`, since two
  creators must not hold one `struct thread`); whom the main thread has passed has
  SIGKILL (`KillInv`, which needs the process lock, or one could join behind it); a
  unit of `death_stack_sem` is a free stack or in the hand of a thread that has yet to
  take one out of the bitmap (`StackInv`); ids grow, so that no deleted
  `return_code_sem` comes back (`IdInv`). `InOnePlace`, `EndsLast` and
  `DeathStacksAgree` follow.
* `FsProofs` on the VFS: `VfsInvariant` proves `VfsInductive` of `SpecPatient`, in which
  `get_vnode` waits until a busy vnode is ready (as it is, it breaks the invariant:
  `MCVfsBusy`). A vnode that is allocated is the one the table has for its file
  (`TableInv`), its holders are its `ref_count` and a busy one has none (`RefInv`), a
  busy one has one call that reads it or puts it back (`BusyInv`: the two halves of
  `dec_vnode_ref_count` would otherwise free what another call has just got), and
  what is marked for deletion is unlinked (`DelInv`). A descriptor's `ref_count` is
  its slots, the calls that have yet to put it and the references that an error path
  forgot, and it has its vnode as long as that is not zero (`CountInv`; a caller may
  have to put one descriptor several times, so the calls are counted with the place
  in their lists). A descriptor that `vfs_open` has not put into a slot is its own
  (`OpenInv`, or the full table would take the vnode from another), and one that was
  dropped last is freed once (`FreeInv`). `ReferencesCountedAlways` and
  `RemovedLastAlways` follow.
  On the block allocator: `AllocatorInvariant` proves `AllocatorInductive`, and
  `BitmapKeptAlways` and `SpaceFoundAlways` follow, for volumes whose groups are one
  bitmap block each; with two the code is wrong (see above). The bitmap and its counts
  alone are not inductive: the runs lie inside their groups and outside the reserved
  blocks (`RunsInGroups`), the first free blocks inside their groups
  (`FirstFreeInGroup`), and before the counting thread has been through every group
  counts as full (`NothingCounted`). The
  volume may hold any files when it is mounted. The theorems are about
  `AllocatorSpecLate`, in which nobody frees before the counting thread has been
  through: with such a free the counts are wrong (`MCBlocksEarly`). The search is a recursive
  function of the bits: `Recursion` proves that such a function exists, and
  `NatInSet` is induction for a set of naturals, by its least missing element, which
  needs no operator as a parameter. At each bit `ScanInv` says that the range at hand
  is free and reaches up to it, and that no range that was wanted lies before it
  (`NoneMissed`). The counts are cardinalities: of the free bits of each group, and
  of the union of the runs' blocks.

Each inductive invariant was checked by TLC on a small instance before it was
proved. The assumptions on constants are those the modules name.

Only model-checked, and why:

* everything about liveness, and `NoStandstill` of `Vfs`, which is about `ENABLED`:
  outside the prover's reach;
* the refinement of `JournalSpec` and `LogKept`, whose replay is a recursion over
  the log, over any number of entries and crashes;
* `NoFault` of `Sem`, which holds only with the flags and on the one CPU of its run.

## Not modelled

Info calls and ownership of semaphores and ports (no effect on the rest), names,
overflow of ids after 2^31 creations, kills in `RwLock`, destroying a lock in use,
the CPUs behind the spinlocks in `Port`; what inter-CPU messages ask for; mounting,
unmounting, directories and symbolic links in the VFS (`vfs_unmount` takes two
references off the root before it marks the vnodes, `fs/vfs.c:1053`, and a path walk
reads `covered_by` without the lock, `:641`: both need mounts in the model); B+trees,
inodes and queries of BeFS; handlers, messengers and the application object; and
the components listed as not modelled in `PROJECT.json`. Bounds on ids, counts,
messages, reads, nesting, time and crashes are constants named in each module.
Most of the repository is applications, drivers, user-interface kits, command line
tools and tables without shared state of their own; it is out of this project's
scope.

## Plan

1. Proofs: the parts of `LogKept` that need no sums.
2. An abstract port (a bounded FIFO) that `Port` implements without deletions;
   kills in `RwLock`; mounts in `Vfs`.
3. `vm_page.c` and `vm_cache.c` (page states, cache references), `module.c`; the
   buffer pools of the network stack over `RwLock`.
