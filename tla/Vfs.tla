-------------------------------- MODULE Vfs --------------------------------
(***************************************************************************)
(* Vnodes, file descriptors and io contexts (kernel/core/fs/vfs.c, fd.c)   *)
(* over a file system that is used as fs/rootfs.c uses it.  A vnode is in  *)
(* memory while something refers to it: a path walk, an open descriptor,   *)
(* a working directory; whoever drops the last reference marks it busy,    *)
(* tells the file system and takes it out of the table, in steps of its    *)
(* own.  A descriptor lives while a slot of an io context or a running     *)
(* call refers to it.  vnodes and descriptors are addresses, so that a     *)
(* pointer can be kept longer than what it points to.                      *)
(*                                                                         *)
(* A critical section of vfs_vnode_mutex, or of an io_mutex, is one step;  *)
(* the file system's lock is held over several.  All threads belong to the *)
(* process of context 1; context 2 is that of a child.  The files are in   *)
(* the root directory, whose own vnode always has the reference of its     *)
(* mount and is not represented (None as a working directory).             *)
(***************************************************************************)
EXTENDS Integers, Sequences, FiniteSetsExt

CONSTANTS
    Callers,
    Files,      \* vnode ids of the file system
    Nodes,      \* addresses of struct vnode
    Fds,        \* addresses of struct file_descriptor
    TableSize,  \* table_size of an io context
    MaxLeaks,   \* bound on the descriptor references that are never put
    None        \* NULL

ASSUME VfsAssumption ==
    /\ None \notin Nodes \cup Fds \cup Files \cup Callers
    /\ TableSize \in Nat /\ MaxLeaks \in Nat
    /\ IsFiniteSet(Callers) /\ IsFiniteSet(Fds)

VARIABLES
    vnode,      \* ref_count, busy, delete_me and the file; alloc: in use
    table,      \* vnode_table
    linked,     \* the files that are in the directory
    exists,     \* the files that the file system still has
    fslock,     \* the file system's lock
    fd,         \* ref_count and vnode of a descriptor; alloc: in use
    fds, cwd,   \* of the two io contexts
    child,      \* context 2 exists
    iolock,     \* the io_mutex of context 1 is never unlocked again
    leaked,     \* references to a descriptor that no one will put
    lost,       \* descriptors that no one refers to any more
    th          \* the threads: where they are and their local variables

fsVars == <<linked, exists, fslock>>
vfsVars == <<vnode, table>>
ioVars == <<fd, fds, cwd, child, iolock, leaked, lost>>
vnodeVars == <<vfsVars, fsVars, ioVars, th>>

Contexts == {1, 2}
FdSlots == 1 .. TableSize

NoNode == [alloc |-> FALSE, file |-> None, ref |-> 0, busy |-> FALSE, del |-> FALSE]
NoFd == [alloc |-> FALSE, ref |-> 0, node |-> None]

(* node: the vnode at hand; todo: the descriptors to put, one after the    *)
(* other; freeing: the descriptor whose last reference was put.            *)
Idle == [pc |-> "run", op |-> "none", file |-> None, node |-> None, slot |-> 0,
         todo |-> <<>>, freeing |-> None]

VfsInit ==
    /\ vnode = [v \in Nodes |-> NoNode] /\ table = [f \in Files |-> None]
    /\ linked = Files /\ exists = Files /\ fslock = None
    /\ fd = [d \in Fds |-> NoFd]
    /\ fds = [c \in Contexts |-> [s \in FdSlots |-> None]]
    /\ cwd = [c \in Contexts |-> None]
    /\ child = FALSE /\ iolock = FALSE
    /\ leaked = [d \in Fds |-> 0] /\ lost = {}
    /\ th = [t \in Callers |-> Idle]

At(t, p) == th[t].pc = p

(* A call that has the descriptors of todo left to put, or a vnode and     *)
(* then those.                                                             *)
Rest(todo) == IF todo = <<>> THEN Idle ELSE [Idle EXCEPT !.pc = "put", !.todo = todo]
Drop(v, todo) == [Idle EXCEPT !.pc = "dec", !.node = v, !.todo = todo]

-----------------------------------------------------------------------------
(* path_to_vnode, from the root directory to a file.                       *)

Walk(t, op, f) ==
    /\ At(t, "run")
    /\ th' = [th EXCEPT ![t] = [Idle EXCEPT !.pc = "lookup", !.op = op, !.file = f]]
    /\ UNCHANGED <<vfsVars, fsVars, ioVars>>

(* rootfs_lookup keeps the lock while it calls vfs_get_vnode.              *)
RootfsLookup(t) ==
    LET f == th[t].file
    IN /\ At(t, "lookup") /\ fslock = None
       /\ fslock' = IF f \in linked THEN t ELSE None
       /\ th' = [th EXCEPT ![t] = IF f \in linked THEN [@ EXCEPT !.pc = "get"] ELSE Idle]
       /\ UNCHANGED <<vfsVars, linked, exists, ioVars>>

Referenced(v) == [vnode EXCEPT ![v].ref = @ + 1]

(* get_vnode finds the vnode.                                              *)
GetFound(t) ==
    LET v == table[th[t].file]
    IN /\ At(t, "get") /\ v # None /\ ~vnode[v].busy
       /\ vnode' = Referenced(v)
       /\ th' = [th EXCEPT ![t].pc = "got"]
       /\ UNCHANGED <<table, fsVars, ioVars>>

(* get_vnode finds a busy vnode and sleeps; its loop ends with while (0),  *)
(* so that it does not look again and takes the vnode as it is then.       *)
GetBusy(t) ==
    LET v == table[th[t].file]
    IN /\ At(t, "get") /\ v # None /\ vnode[v].busy
       /\ th' = [th EXCEPT ![t].pc = "snooze", ![t].node = v]
       /\ UNCHANGED <<vfsVars, fsVars, ioVars>>

Snoozed(t) ==
    /\ At(t, "snooze")
    /\ vnode' = Referenced(th[t].node)
    /\ th' = [th EXCEPT ![t].pc = "got", ![t].node = None]
    /\ UNCHANGED <<table, fsVars, ioVars>>

(* get_vnode creates the vnode, busy until the file system has read it.    *)
GetCreate(t) ==
    LET f == th[t].file
    IN /\ At(t, "get") /\ table[f] = None
       /\ \E v \in Nodes :
             /\ ~vnode[v].alloc
             /\ vnode' = [vnode EXCEPT ![v] =
                            [NoNode EXCEPT !.alloc = TRUE, !.file = f, !.busy = TRUE]]
             /\ table' = [table EXCEPT ![f] = v]
             /\ th' = [th EXCEPT ![t].pc = "read", ![t].node = v]
       /\ UNCHANGED <<fsVars, ioVars>>

GetRead(t) ==
    /\ At(t, "read")
    /\ vnode' = [vnode EXCEPT ![th[t].node].busy = FALSE, ![th[t].node].ref = 1]
    /\ th' = [th EXCEPT ![t].pc = "got", ![t].node = None]
    /\ UNCHANGED <<table, fsVars, ioVars>>

LockAfterFailureKept == fslock

LockAfterFailure == None

(* No memory for the vnode, or the file system cannot read it.             *)
GetFails(t) ==
    /\ \/ At(t, "get") /\ table[th[t].file] = None /\ UNCHANGED vfsVars
       \/ /\ At(t, "read")
          /\ vnode' = [vnode EXCEPT ![th[t].node] = NoNode]
          /\ table' = [table EXCEPT ![th[t].file] = None]
    /\ fslock' = LockAfterFailure
    /\ th' = [th EXCEPT ![t] = Idle]
    /\ UNCHANGED <<linked, exists, ioVars>>

LookupDone(t) ==
    /\ At(t, "got")
    /\ fslock' = None
    /\ th' = [th EXCEPT ![t].pc = "found"]
    /\ UNCHANGED <<vfsVars, linked, exists, ioVars>>

(* path_to_vnode looks the vnode up itself; it panics if it is not there.  *)
PathFound(t) ==
    /\ At(t, "found") /\ table[th[t].file] # None
    /\ th' = [th EXCEPT ![t].pc = "have", ![t].node = table[th[t].file]]
    /\ UNCHANGED <<vfsVars, fsVars, ioVars>>

-----------------------------------------------------------------------------
(* vfs_open and vfs_set_cwd with the vnode of the path.                    *)

(* fs_open or fs_rstat fails, or there is no memory for a descriptor.      *)
UseFails(t) ==
    /\ At(t, "have")
    /\ th' = [th EXCEPT ![t] = Drop(@.node, <<>>)]
    /\ UNCHANGED <<vfsVars, fsVars, ioVars>>

OpenFile(t) ==
    /\ At(t, "have") /\ th[t].op = "open"
    /\ \E d \in Fds :
          /\ ~fd[d].alloc
          /\ fd' = [fd EXCEPT ![d] = [alloc |-> TRUE, ref |-> 1, node |-> th[t].node]]
          /\ th' = [th EXCEPT ![t].pc = "newfd", ![t].todo = <<d>>]
    /\ UNCHANGED <<vfsVars, fsVars, fds, cwd, child, iolock, leaked, lost>>

FreeSlots == {s \in FdSlots : fds[1][s] = None}
FirstFree == CHOOSE s \in FreeSlots : \A r \in FreeSlots : s <= r

(* new_fd, of vfs_open and of vfs_dup.                                     *)
NewFd(t) ==
    /\ At(t, "newfd") /\ ~iolock /\ FreeSlots # {}
    /\ fds' = [fds EXCEPT ![1][FirstFree] = th[t].todo[1]]
    /\ th' = [th EXCEPT ![t] = Idle]
    /\ UNCHANGED <<vfsVars, fsVars, fd, cwd, child, iolock, leaked, lost>>

(* The table is full: vfs_open drops the vnode and forgets the descriptor, *)
(* vfs_dup puts the descriptor.                                            *)
NewFdFull(t) ==
    /\ At(t, "newfd") /\ ~iolock /\ FreeSlots = {}
    /\ \/ /\ th[t].op = "open"
          /\ th' = [th EXCEPT ![t] = Drop(@.node, <<>>)]
          /\ lost' = lost \cup {th[t].todo[1]}
       \/ /\ th[t].op = "dup"
          /\ th' = [th EXCEPT ![t] = Rest(@.todo)]
          /\ UNCHANGED lost
    /\ UNCHANGED <<vfsVars, fsVars, fd, fds, cwd, child, iolock, leaked>>

SetCwd(t) ==
    /\ At(t, "have") /\ th[t].op = "cwd" /\ ~iolock
    /\ cwd' = [cwd EXCEPT ![1] = th[t].node]
    /\ th' = [th EXCEPT ![t] = IF cwd[1] = None THEN Idle ELSE Drop(cwd[1], <<>>)]
    /\ UNCHANGED <<vfsVars, fsVars, fd, fds, child, iolock, leaked, lost>>

-----------------------------------------------------------------------------
(* dec_vnode_ref_count.                                                    *)

LastRefEarly(old) == old <= 2
LastRef(old) == old = 1

(* Where its caller goes on.                                               *)
AfterDec(t) ==
    IF th[t].freeing # None THEN [th[t] EXCEPT !.pc = "kfree", !.node = None]
    ELSE Rest(th[t].todo)

DecRef(t) ==
    LET v == th[t].node
        last == LastRef(vnode[v].ref)
    IN /\ At(t, "dec")
       /\ vnode' = [vnode EXCEPT ![v].ref = @ - 1, ![v].busy = last]
       /\ th' = [th EXCEPT ![t] = IF last THEN [@ EXCEPT !.pc = "fsput"] ELSE AfterDec(t)]
       /\ UNCHANGED <<table, fsVars, ioVars>>

(* fs_putvnode, or rootfs_removevnode for a file that was unlinked.        *)
FsPut(t) ==
    LET v == th[t].node
    IN /\ At(t, "fsput")
       /\ \/ ~vnode[v].del /\ UNCHANGED exists
          \/ vnode[v].del /\ fslock = None /\ exists' = exists \ {vnode[v].file}
       /\ th' = [th EXCEPT ![t].pc = "unhash"]
       /\ UNCHANGED <<vfsVars, linked, fslock, ioVars>>

Unhash(t) ==
    LET v == th[t].node
    IN /\ At(t, "unhash")
       /\ table' = [table EXCEPT ![vnode[v].file] = None]
       /\ vnode' = [vnode EXCEPT ![v] = NoNode]
       /\ th' = [th EXCEPT ![t] = AfterDec(t)]
       /\ UNCHANGED <<fsVars, ioVars>>

-----------------------------------------------------------------------------
(* Descriptors.                                                            *)

(* The references that user_ioctl has or will have forgotten.              *)
Forgotten ==
    MapThenSumSet(LAMBDA d : leaked[d], Fds)
        + Cardinality({t \in Callers : th[t].op = "ioctl"})

(* get_fd, at the start of every call that is given a descriptor's number. *)
GetFd(t, op, s) ==
    LET d == fds[1][s]
    IN /\ At(t, "run") /\ ~iolock /\ d # None
       /\ op = "ioctl" => Forgotten < MaxLeaks
       /\ fd' = [fd EXCEPT ![d].ref = @ + 1]
       /\ th' = [th EXCEPT ![t] = [Idle EXCEPT !.pc = IF op = "dup" THEN "newfd" ELSE "use",
                                               !.op = op, !.todo = <<d>>,
                                               !.slot = IF op = "close" THEN s ELSE 0]]
       /\ UNCHANGED <<vfsVars, fsVars, fds, cwd, child, iolock, leaked, lost>>

(* user_read, user_write and the like have used the descriptor.            *)
Used(t) ==
    /\ At(t, "use") /\ th[t].op = "read"
    /\ th' = [th EXCEPT ![t] = Rest(@.todo)]
    /\ UNCHANGED <<vfsVars, fsVars, ioVars>>

(* user_ioctl returns without put_fd.                                      *)
Ioctl(t) ==
    LET d == th[t].todo[1]
    IN /\ At(t, "use") /\ th[t].op = "ioctl"
       /\ leaked' = [leaked EXCEPT ![d] = @ + 1]
       /\ th' = [th EXCEPT ![t] = Idle]
       /\ UNCHANGED <<vfsVars, fsVars, fd, fds, cwd, child, iolock, lost>>

(* remove_fd, of vfs_close: whatever is in the slot by now; it is put, and *)
(* then the descriptor that user_close got.                                *)
RemoveFd(t) ==
    LET s == th[t].slot
        d == fds[1][s]
    IN /\ At(t, "use") /\ th[t].op = "close" /\ ~iolock
       /\ fds' = [fds EXCEPT ![1][s] = None]
       /\ th' = [th EXCEPT ![t] =
                    Rest(IF d = None THEN @.todo ELSE <<d>> \o @.todo)]
       /\ UNCHANGED <<vfsVars, fsVars, fd, cwd, child, iolock, leaked, lost>>

(* put_fd; the last one goes on to vfs_free_fd.                            *)
PutFd(t) ==
    LET d == Head(th[t].todo)
        rest == Tail(th[t].todo)
    IN /\ At(t, "put")
       /\ fd' = [fd EXCEPT ![d].ref = @ - 1, ![d].node = IF fd[d].ref = 1 THEN None ELSE @]
       /\ th' = [th EXCEPT ![t] =
                   IF fd[d].ref = 1
                   THEN [Drop(fd[d].node, rest) EXCEPT !.freeing = d]
                   ELSE Rest(rest)]
       /\ UNCHANGED <<vfsVars, fsVars, fds, cwd, child, iolock, leaked, lost>>

FreeFd(t) ==
    /\ At(t, "kfree")
    /\ fd' = [fd EXCEPT ![th[t].freeing] = NoFd]
    /\ th' = [th EXCEPT ![t] = Rest(th[t].todo)]
    /\ UNCHANGED <<vfsVars, fsVars, fds, cwd, child, iolock, leaked, lost>>

(* vfs_dup2: with the same number twice it returns with the mutex locked.  *)
vfs_dup2(t, ofd, nfd) ==
    LET d == fds[1][ofd]
        evicted == fds[1][nfd]
    IN /\ At(t, "run") /\ ~iolock /\ d # None
       /\ \/ ofd = nfd /\ iolock' = TRUE /\ UNCHANGED <<fd, fds, th>>
          \/ /\ ofd # nfd
             /\ fds' = [fds EXCEPT ![1][nfd] = d]
             /\ fd' = [fd EXCEPT ![d].ref = @ + 1]
             /\ th' = [th EXCEPT ![t] = Rest(IF evicted = None THEN <<>> ELSE <<evicted>>)]
             /\ UNCHANGED iolock
       /\ UNCHANGED <<vfsVars, fsVars, cwd, child, leaked, lost>>

-----------------------------------------------------------------------------
(* Io contexts.                                                            *)

SlotsWith(c, d) == {s \in FdSlots : fds[c][s] = d}

InheritedPlain(d) == fd[d].ref

(* The ref_count of a descriptor that the child inherits.                  *)
Inherited(d) == fd[d].ref + Cardinality(SlotsWith(1, d))

vfs_new_io_context(t) ==
    /\ At(t, "run") /\ ~iolock /\ ~child
    /\ child' = TRUE
    /\ fds' = [fds EXCEPT ![2] = fds[1]]
    /\ fd' = [d \in Fds |-> [fd[d] EXCEPT !.ref = Inherited(d)]]
    /\ cwd' = [cwd EXCEPT ![2] = cwd[1]]
    /\ vnode' = IF cwd[1] = None THEN vnode ELSE Referenced(cwd[1])
    /\ UNCHANGED <<table, fsVars, iolock, leaked, lost, th>>

(* The descriptors in the slots of an io context, in their order.          *)
Descriptors(slots) ==
    LET used == {s \in FdSlots : slots[s] # None}
        place == CHOOSE p \in [1 .. Cardinality(used) -> used] :
                    \A i, j \in DOMAIN p : i < j => p[i] < p[j]
    IN  [i \in DOMAIN place |-> slots[place[i]]]

(* vfs_free_io_context: the working directory, then every descriptor.      *)
vfs_free_io_context(t) ==
    LET todo == Descriptors(fds[2])
    IN /\ At(t, "run") /\ child
       /\ child' = FALSE
       /\ fds' = [fds EXCEPT ![2] = [s \in FdSlots |-> None]]
       /\ cwd' = [cwd EXCEPT ![2] = None]
       /\ th' = [th EXCEPT ![t] =
                   IF cwd[2] = None THEN Rest(todo) ELSE Drop(cwd[2], todo)]
       /\ UNCHANGED <<vfsVars, fsVars, fd, iolock, leaked, lost>>

(* vfs_unlink, rootfs_unlink and vfs_remove_vnode: a file whose vnode is   *)
(* not in memory is taken out of the directory and nothing else.           *)
vfs_unlink(t, f) ==
    /\ At(t, "run") /\ fslock = None /\ f \in linked
    /\ linked' = linked \ {f}
    /\ vnode' = IF table[f] = None THEN vnode ELSE [vnode EXCEPT ![table[f]].del = TRUE]
    /\ UNCHANGED <<table, exists, fslock, ioVars, th>>

-----------------------------------------------------------------------------
VfsCall(t) ==
    \/ \E op \in {"open", "cwd"}, f \in Files : Walk(t, op, f)
    \/ \E op \in {"read", "ioctl", "close", "dup"}, s \in FdSlots : GetFd(t, op, s)
    \/ \E ofd, nfd \in FdSlots : vfs_dup2(t, ofd, nfd)
    \/ \E f \in Files : vfs_unlink(t, f)
    \/ vfs_new_io_context(t) \/ vfs_free_io_context(t)

WalkStep(t) ==
    \/ RootfsLookup(t) \/ GetFound(t) \/ GetCreate(t) \/ GetRead(t) \/ GetFails(t)
    \/ LookupDone(t) \/ PathFound(t)

Step(t) ==
    \/ WalkStep(t) \/ UseFails(t) \/ OpenFile(t) \/ NewFd(t) \/ NewFdFull(t)
    \/ SetCwd(t) \/ DecRef(t) \/ FsPut(t) \/ Unhash(t) \/ Used(t) \/ Ioctl(t) \/ RemoveFd(t)
    \/ PutFd(t) \/ FreeFd(t)

(* A get_vnode that waits until the vnode is no longer busy.               *)
NextPatient == \E t \in Callers : VfsCall(t) \/ Step(t)
SpecPatient == VfsInit /\ [][NextPatient]_vnodeVars

(* get_vnode as it is.                                                     *)
VfsNext == NextPatient \/ \E t \in Callers : GetBusy(t) \/ Snoozed(t)
VfsSpec == VfsInit /\ [][VfsNext]_vnodeVars

-----------------------------------------------------------------------------
VfsTypeOK ==
    /\ vnode \in [Nodes -> [alloc : BOOLEAN, file : Files \cup {None}, ref : Nat,
                            busy : BOOLEAN, del : BOOLEAN]]
    /\ table \in [Files -> Nodes \cup {None}]
    /\ linked \subseteq Files /\ exists \subseteq Files
    /\ fslock \in Callers \cup {None}
    /\ fd \in [Fds -> [alloc : BOOLEAN, ref : Nat, node : Nodes \cup {None}]]
    /\ fds \in [Contexts -> [FdSlots -> Fds \cup {None}]]
    /\ cwd \in [Contexts -> Nodes \cup {None}]
    /\ child \in BOOLEAN /\ iolock \in BOOLEAN
    /\ leaked \in [Fds -> Nat] /\ lost \subseteq Fds
    /\ \A t \in Callers :
          /\ th[t].pc \in {"run", "lookup", "get", "snooze", "read", "got", "found",
                           "have", "newfd", "use", "dec", "fsput", "unhash", "put", "kfree"}
          /\ th[t].op \in {"none", "open", "cwd", "read", "ioctl", "close", "dup"}
          /\ th[t].file \in Files \cup {None} /\ th[t].node \in Nodes \cup {None}
          /\ th[t].todo \in Seq(Fds) /\ th[t].freeing \in Fds \cup {None}

(* Who refers to a vnode.                                                  *)
Walkers(v) == {t \in Callers : \/ th[t].pc \in {"got", "found"} /\ table[th[t].file] = v
                               \/ th[t].pc \in {"have", "dec"} /\ th[t].node = v}
OpenOn(v) == {d \in Fds \ lost : fd[d].alloc /\ fd[d].node = v}
CwdIn(v) == {c \in Contexts : cwd[c] = v}
Holders(v) == Cardinality(Walkers(v)) + Cardinality(OpenOn(v)) + Cardinality(CwdIn(v))

(* The ref_count of every vnode in use is the number of those that refer   *)
(* to it: path walks, descriptors, working directories.                    *)
VnodeRefsCounted ==
    \A v \in Nodes : vnode[v].alloc /\ ~vnode[v].busy => vnode[v].ref = Holders(v)

(* What somebody refers to is in memory, in the table, and not on its way  *)
(* out: nobody gets a vnode whose last reference was just dropped, and the *)
(* lookup at the end of a path walk finds it.                              *)
HeldVnodeAlive ==
    /\ \A v \in Nodes : Holders(v) > 0 =>
          vnode[v].alloc /\ ~vnode[v].busy /\ table[vnode[v].file] = v
    /\ \A t \in Callers : th[t].pc \in {"got", "found"} => table[th[t].file] # None

(* dec_vnode_ref_count is not called on a busy vnode.                      *)
NotBusyWhenDropped ==
    \A t \in Callers : At(t, "dec") => ~vnode[th[t].node].busy

(* The places of a list where a descriptor is, and the calls that have to  *)
(* put it, with the place that it has in their lists.                      *)
Places(todo, d) == {i \in DOMAIN todo : todo[i] = d}
Puts(d) == UNION {{t} \X Places(th[t].todo, d) : t \in Callers}

(* The ref_count of a descriptor is the number of slots, in both contexts, *)
(* and of calls that refer to it, and of those that user_ioctl forgot:     *)
(* nobody puts a descriptor twice, or uses one that was freed.             *)
DescriptorRefsCounted ==
    \A d \in Fds \ lost :
        fd[d].ref = Cardinality(SlotsWith(1, d)) + Cardinality(SlotsWith(2, d))
                    + Cardinality(Puts(d)) + leaked[d]

(* The counts of get_vnode, put_vnode, get_fd and put_fd are those of who  *)
(* refers to vnodes and descriptors, and what is referred to is alive.     *)
ReferencesCounted ==
    VfsTypeOK /\ VnodeRefsCounted /\ HeldVnodeAlive /\ DescriptorRefsCounted

(* A file is removed from the file system only when it is in no directory  *)
(* and nobody has it open or works in it any more.                         *)
RemovedLast ==
    [][\A f \in exists \ exists' :
          f \notin linked /\ \A v \in Nodes : vnode[v].file = f => Holders(v) = 0]_vnodeVars

(* The calls never wait for each other in a circle, with the file system's *)
(* lock held over get_vnode and needed by the removal of a file: whenever  *)
(* one is under way, one of them can go on.  (Unless vfs_dup2 has left the *)
(* io_mutex locked.)                                                       *)
NoStandstill ==
    (\E t \in Callers : th[t].pc # "run") /\ ~iolock => \E t \in Callers : ENABLED Step(t)
=============================================================================
