------------------------------- MODULE Looper -------------------------------
(***************************************************************************)
(* A BLooper (kits/app/Looper.cpp): its recursive lock on a raw semaphore, *)
(* its port and message queue, the thread that dispatches, and quitting,   *)
(* used by other threads of the team.                                      *)
(*                                                                         *)
(* The semaphore and the port behave as SemSpec and Port say.  A section   *)
(* under sLooperListLock is one step, except for a post that finds the     *)
(* port full: SendMessage waits without a timeout and keeps the list       *)
(* locked.  kill_thread of the calling thread does not return.  What       *)
(* handlers do is left out.                                                *)
(***************************************************************************)
EXTENDS Integers, SequencesExt

CONSTANTS
    Clients,        \* the other threads of the team
    Creator,        \* the one that constructs the looper
    Task,           \* the looper's own thread, fTaskID
    NoClient,       \* no thread
    PortCapacity,
    MaxPosts,       \* bound on the messages
    MaxLocks        \* bound on nested locks

Users == Clients \cup {Task}

ASSUME LooperAssumption ==
    /\ Creator \in Clients /\ Task \notin Clients /\ NoClient \notin Users
    /\ PortCapacity \in Nat \ {0} /\ MaxPosts \in Nat /\ MaxLocks \in Nat \ {0}

VARIABLES
    fOwner, fOwnerCount,
    fLockSem,           \* units, or Deleted
    lockQueue,          \* who waits for the semaphore
    fRunCalled,
    listed,             \* the looper is in sLooperList
    freed,              \* its memory is given back
    listOwner,          \* who keeps sLooperListLock over several steps
    fMsgPort, fQueue,   \* the messages
    at,                 \* where each thread is
    then,               \* where it goes on after a Lock, Unlock or PostMessage
    posting,            \* the message of a post that waits
    posted, dispatched, \* history
    lockDepth               \* history: the locks each thread has

lockVars == <<fOwner, fOwnerCount, fLockSem, lockQueue, lockDepth>>
msgVars == <<fMsgPort, fQueue, posting, posted, dispatched>>
listVars == <<listed, freed, listOwner>>
looperVars == <<lockVars, msgVars, listVars, fRunCalled, at, then>>

Deleted == -1
Quits == 0      \* _QUIT_, or B_QUIT_REQUESTED that QuitRequested grants

(* The constructor leaves the looper in the list and locked.               *)
InitData ==
    /\ fOwner = Creator /\ fOwnerCount = 1 /\ fLockSem = 0 /\ lockQueue = <<>>
    /\ lockDepth = [t \in Users |-> IF t = Creator THEN 1 ELSE 0]
    /\ fRunCalled = FALSE /\ listed = TRUE /\ freed = FALSE /\ listOwner = NoClient
    /\ fMsgPort = <<>> /\ fQueue = <<>> /\ posting = [t \in Users |-> 0]
    /\ posted = <<>> /\ dispatched = <<>>
    /\ at = [t \in Users |-> IF t = Task THEN "none" ELSE "run"]
    /\ then = [t \in Users |-> "run"]

ListFree == listOwner = NoClient
Destroyed == fLockSem = Deleted     \* semaphore and port are deleted
Goes(t, place) == at' = [at EXCEPT ![t] = place]
Returns(t) == Goes(t, then[t])
Calls(t, place, next) == Goes(t, place) /\ then' = [then EXCEPT ![t] = next]

-----------------------------------------------------------------------------
(* _Lock: nested, or with the semaphore cached and the list unlocked.  (A  *)
(* thread joins the queue of the semaphore in the same step: it does not   *)
(* matter who of two comes first.)                                         *)
Lock(t, next) ==
    /\ ListFree
    /\ \/ ~listed /\ Goes(t, "run") /\ UNCHANGED <<then, lockVars>>
       \/ /\ listed /\ fOwner = t
          /\ fOwnerCount' = fOwnerCount + 1
          /\ lockDepth' = [lockDepth EXCEPT ![t] = @ + 1]
          /\ Goes(t, next) /\ UNCHANGED <<then, fOwner, fLockSem, lockQueue>>
       \/ /\ listed /\ fOwner # t
          /\ lockQueue' = IF Destroyed THEN lockQueue ELSE Append(lockQueue, t)
          /\ Calls(t, "waits", next)
          /\ UNCHANGED <<fOwner, fOwnerCount, fLockSem, lockDepth>>
    /\ UNCHANGED <<msgVars, listVars, fRunCalled>>

AfterDeletedOwns(t) == "owns"
(* Where Lock goes on when acquire_sem_etc fails: it returns.              *)
AfterDeleted(t) == "run"

(* acquire_sem_etc of the cached semaphore; it fails when it was deleted.  *)
LockAcquire(t) ==
    /\ at[t] = "waits"
    /\ \/ /\ Destroyed /\ Goes(t, AfterDeleted(t)) /\ UNCHANGED <<lockQueue, fLockSem>>
       \/ /\ fLockSem > 0 /\ Head(lockQueue) = t
          /\ fLockSem' = fLockSem - 1 /\ lockQueue' = Tail(lockQueue)
          /\ Goes(t, "owns")
    /\ UNCHANGED <<fOwner, fOwnerCount, lockDepth, then, msgVars, listVars, fRunCalled>>

OwnCountKept(t) == fOwnerCount
(* fOwnerCount of a new owner.                                             *)
OwnCount(t) == 1

LockTaken(t) ==
    /\ at[t] = "owns"
    /\ fOwner' = t /\ fOwnerCount' = OwnCount(t)
    /\ lockDepth' = [lockDepth EXCEPT ![t] = 1]
    /\ Returns(t)
    /\ UNCHANGED <<fLockSem, lockQueue, then, msgVars, listVars, fRunCalled>>

(* Whether an Unlock from fOwnerCount n gives the looper up.               *)
GivesUp(n) == n = 1

(* Unlock, up to its release_sem.                                          *)
Unlock(t, next) ==
    /\ ListFree /\ listed /\ fOwner = t
    /\ fOwnerCount' = fOwnerCount - 1
    /\ lockDepth' = [lockDepth EXCEPT ![t] = @ - 1]
    /\ IF GivesUp(fOwnerCount)
       THEN fOwner' = NoClient /\ Calls(t, "releases", next)
       ELSE Goes(t, next) /\ UNCHANGED <<fOwner, then>>
    /\ UNCHANGED <<fLockSem, lockQueue, msgVars, listVars, fRunCalled>>

UnlockSem(t) ==
    /\ at[t] = "releases"
    /\ fLockSem' = fLockSem + 1
    /\ Returns(t)
    /\ UNCHANGED <<fOwner, fOwnerCount, lockQueue, lockDepth, then, msgVars, listVars, fRunCalled>>

-----------------------------------------------------------------------------
(* _PostMessage.                                                           *)
PostMessage(t, m, next) ==
    /\ ListFree
    /\ IF ~listed \/ Destroyed
       THEN Goes(t, next) /\ UNCHANGED <<then, fMsgPort, posted, posting, listOwner>>
       ELSE IF Len(fMsgPort) < PortCapacity
       THEN /\ fMsgPort' = Append(fMsgPort, m) /\ posted' = Append(posted, m)
            /\ Goes(t, next) /\ UNCHANGED <<then, posting, listOwner>>
       ELSE /\ listOwner' = t /\ posting' = [posting EXCEPT ![t] = m]
            /\ Calls(t, "full", next) /\ UNCHANGED <<fMsgPort, posted>>
    /\ UNCHANGED <<lockVars, fQueue, dispatched, listed, freed, fRunCalled>>

(* There is room again for a post that waits, or the port was deleted and  *)
(* write_port fails.                                                       *)
PostRoom(t) ==
    /\ at[t] = "full"
    /\ \/ Destroyed /\ UNCHANGED <<fMsgPort, posted>>
       \/ /\ ~Destroyed /\ Len(fMsgPort) < PortCapacity
          /\ fMsgPort' = Append(fMsgPort, posting[t])
          /\ posted' = Append(posted, posting[t])
    /\ listOwner' = NoClient
    /\ Returns(t)
    /\ UNCHANGED <<lockVars, then, fQueue, posting, dispatched, listed, freed, fRunCalled>>

-----------------------------------------------------------------------------
(* Run and Quit.                                                           *)

Run(t) ==
    /\ at[t] = "run" /\ fOwner = t /\ ~fRunCalled
    /\ fRunCalled' = TRUE
    /\ at' = [at EXCEPT ![t] = "runs"] /\ UNCHANGED <<then, lockVars, msgVars, listVars>>

(* Its Unlock, and resume_thread after it.                                 *)
RunUnlock(t) == at[t] = "runs" /\ Unlock(t, "resumes")
RunResume(t) ==
    /\ at[t] = "resumes" /\ at' = [at EXCEPT ![t] = "run", ![Task] = "task0"]
    /\ UNCHANGED <<then, lockVars, msgVars, listVars, fRunCalled>>

(* ~BLooper of a looper that never ran, by the thread that has it locked:  *)
(* kill_thread of no thread, then semaphore and port.                      *)
Destroy(t) ==
    /\ at[t] = "run" /\ fOwner = t /\ ~fRunCalled /\ listed
    /\ fLockSem' = Deleted /\ lockQueue' = <<>> /\ fMsgPort' = <<>> /\ fQueue' = <<>>
    /\ Goes(t, "destroys")
    /\ UNCHANGED <<fOwner, fOwnerCount, lockDepth, posting, posted, dispatched, then,
                   listVars, fRunCalled>>

(* Then the list; the memory is given back.                                *)
DestroyUnlist(t) ==
    /\ at[t] = "destroys" /\ ListFree
    /\ listed' = FALSE /\ freed' = TRUE
    /\ fOwner' = NoClient /\ lockDepth' = [lockDepth EXCEPT ![t] = 0]
    /\ Goes(t, "run")
    /\ UNCHANGED <<fOwnerCount, fLockSem, lockQueue, then, msgVars, listOwner, fRunCalled>>

(* Quit from another thread than the looper's: unlock it as often as       *)
(* needed, post _QUIT_, wait for the thread.                               *)
Quit(t) ==
    /\ at[t] = "run" /\ fOwner = t /\ fRunCalled
    /\ Goes(t, "quits") /\ UNCHANGED <<then, lockVars, msgVars, listVars, fRunCalled>>
QuitUnlock(t) ==
    at[t] = "quits" /\ Unlock(t, IF fOwnerCount = 1 THEN "quitposts" ELSE "quits")
QuitPost(t) == at[t] = "quitposts" /\ PostMessage(t, Quits, "quitwaits")
QuitWait(t) ==
    /\ at[t] = "quitwaits" /\ at[Task] = "dead"
    /\ Goes(t, "run") /\ UNCHANGED <<then, lockVars, msgVars, listVars, fRunCalled>>

-----------------------------------------------------------------------------
(* The looper's thread: _task0_ and task_looper.                           *)

TaskLock == at[Task] = "task0" /\ Lock(Task, "loops")
TaskUnlock == at[Task] = "loops" /\ Unlock(Task, "reads")

(* MessageFromPort waits for a message; then as many as there are.         *)
TaskRead ==
    /\ at[Task] = "reads" /\ fMsgPort # <<>>
    /\ fQueue' = Append(fQueue, Head(fMsgPort)) /\ fMsgPort' = Tail(fMsgPort)
    /\ Goes(Task, "drains")
    /\ UNCHANGED <<then, lockVars, posting, posted, dispatched, listVars, fRunCalled>>

DrainedFirst(queue, port) == port \o queue
(* The queue after the messages of the port were added to it.              *)
Drained(queue, port) == queue \o port

TaskDrain ==
    /\ at[Task] = "drains"
    /\ fQueue' = Drained(fQueue, fMsgPort) /\ fMsgPort' = <<>>
    /\ Goes(Task, "locks")
    /\ UNCHANGED <<then, lockVars, posting, posted, dispatched, listVars, fRunCalled>>

TaskLockNext == at[Task] = "locks" /\ Lock(Task, "next")

(* No message: unlock, and read again.                                     *)
TaskEmpty ==
    /\ at[Task] = "next" /\ fQueue = <<>>
    /\ Unlock(Task, "reads")

(* NextMessage and DispatchMessage; a message to quit ends in the          *)
(* destructor, which kills its own thread first.                           *)
TaskDispatch ==
    /\ at[Task] = "next" /\ fQueue # <<>>
    /\ dispatched' = Append(dispatched, Head(fQueue)) /\ fQueue' = Tail(fQueue)
    /\ Goes(Task, IF Head(fQueue) = Quits THEN "dead" ELSE "done")
    /\ UNCHANGED <<then, lockVars, fMsgPort, posting, posted, listVars, fRunCalled>>

TaskDone == at[Task] = "done" /\ Unlock(Task, "counts")

ReadsAlways(port) == TRUE
(* Messages in the port are read before the rest of the queue is           *)
(* dispatched.                                                             *)
ReadsFirst(port) == port # <<>>

TaskCount ==
    /\ at[Task] = "counts"
    /\ Goes(Task, IF ReadsFirst(fMsgPort) THEN "reads" ELSE "locks")
    /\ UNCHANGED <<then, lockVars, msgVars, listVars, fRunCalled>>

TaskStep ==
    \/ TaskLock \/ TaskUnlock \/ TaskRead \/ TaskDrain \/ TaskLockNext \/ TaskEmpty
    \/ TaskDispatch \/ TaskDone \/ TaskCount

-----------------------------------------------------------------------------
(* Inside a call a thread runs on.                                         *)
CallStep(t) ==
    \/ LockAcquire(t) \/ LockTaken(t) \/ UnlockSem(t) \/ PostRoom(t)
    \/ RunUnlock(t) \/ RunResume(t) \/ DestroyUnlist(t)
    \/ QuitUnlock(t) \/ QuitPost(t) \/ QuitWait(t)

ClientCall(t) ==
    \/ at[t] = "run" /\ lockDepth[t] < MaxLocks /\ Lock(t, "run")
    \/ at[t] = "run" /\ Unlock(t, "run")
    \/ /\ at[t] = "run" /\ Len(posted) < MaxPosts
       /\ \E m \in {Quits, Len(posted) + 1} : PostMessage(t, m, "run")
    \/ Run(t) \/ Destroy(t) \/ Quit(t)

LooperNext ==
    \/ \E t \in Users : CallStep(t)
    \/ \E t \in Clients : ClientCall(t)
    \/ TaskStep

(* A client unlocks a looper as often as it has locked it.                 *)
LooperFairness ==
    /\ WF_looperVars(TaskStep)
    /\ \A t \in Users : WF_looperVars(CallStep(t))
    /\ \A t \in Clients :
          /\ WF_looperVars(at[t] = "run" /\ Unlock(t, "run"))
          /\ SF_looperVars(at[t] = "run" /\ fOwnerCount = 1 /\ Unlock(t, "run"))

LooperSpec == InitData /\ [][LooperNext]_looperVars /\ LooperFairness

-----------------------------------------------------------------------------
(* fOwner is read by every Lock and Unlock and written without the list's  *)
(* lock: still a thread that has the looper n times is the owner with      *)
(* count n, and while somebody has it the semaphore has no unit.           *)
OwnerHasLooper ==
    \A t \in Users :
       lockDepth[t] > 0 => /\ fOwner = t /\ fOwnerCount = lockDepth[t]
                       /\ fLockSem \in {0, Deleted}

(* A Lock that was granted, an Unlock that still has to release and the    *)
(* looper's thread find the looper in memory: whoever waited while it was  *)
(* destroyed is turned away by the semaphore.                              *)
LooperKept ==
    freed => \A t \in Users : at[t] \notin {"owns", "releases", "next", "done"}

(* Messages are dispatched once each and in the order in which they were   *)
(* posted, through port and queue, up to the one that quits.               *)
DispatchedInOrder ==
    fRunCalled => posted = dispatched \o fQueue \o fMsgPort

(* When Quit has waited for the thread, every message posted before the    *)
(* quit was dispatched (the rest of the queue has to get processed).       *)
QuitProcessesAll ==
    at[Task] = "dead" =>
       \E i \in 1 .. Len(posted) : /\ posted[i] = Quits
                                   /\ dispatched = SubSeq(posted, 1, i)

(* The messages of a looper, through MessageFromPort, the queue and Quit.  *)
MessagesInOrder == DispatchedInOrder /\ QuitProcessesAll

(* A post waits for room with the list locked, and the looper's thread,    *)
(* the only one to make room, needs the list to go on or is gone.          *)
Standstill ==
    /\ \E t \in Clients : at[t] = "full"
    /\ at[Task] \in {"none", "task0", "loops", "locks", "waits", "owns", "next", "done", "dead"}

(* A message is dispatched unless the looper quits, or everything stands   *)
(* still since a post found the port full.                                 *)
PostDispatched ==
    \A n \in 1 .. MaxPosts :
       (Len(posted) >= n /\ fRunCalled)
       ~> (Len(dispatched) >= n \/ at[Task] = "dead" \/ Standstill \/ freed)

(* A Quit returns.                                                         *)
QuitReturns ==
    \A t \in Clients : at[t] = "quits" ~> (at[t] = "run" \/ Standstill)

(* PostMessage and Quit have their effect, unless everything stands still. *)
LooperServes == PostDispatched /\ QuitReturns

(* A post to a running looper that finds the port full comes back: it does *)
(* not block, the caller waits and posts again.                            *)
FullPortReturns == \A t \in Clients : at[t] = "full" /\ fRunCalled ~> at[t] # "full"
=============================================================================
