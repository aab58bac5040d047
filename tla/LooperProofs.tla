---------------------------- MODULE LooperProofs ----------------------------
(***************************************************************************)
(* Theorems about Looper for any number of threads, any capacity of the    *)
(* port and any number of messages.                                        *)
(***************************************************************************)
EXTENDS Looper, SequenceTheorems, TLAPS

-----------------------------------------------------------------------------
(* The inductive invariant.                                                *)

ClientReturns == {"run", "resumes", "quits", "quitposts", "quitwaits"}
ClientPlaces == ClientReturns \cup {"waits", "owns", "releases", "full", "runs", "destroys"}
TaskReturns == {"loops", "next", "reads", "counts"}
TaskPlaces == TaskReturns \cup
    {"none", "task0", "drains", "locks", "done", "dead", "waits", "owns", "releases"}

LooperTypeOK ==
    /\ fOwner \in Users \cup {NoClient} /\ fOwnerCount \in Int
    /\ fLockSem \in {Deleted, 0, 1} /\ lockDepth \in [Users -> Nat]
    /\ fRunCalled \in BOOLEAN /\ listed \in BOOLEAN /\ freed \in BOOLEAN
    /\ fMsgPort \in Seq(Nat) /\ fQueue \in Seq(Nat)
    /\ posted \in Seq(Nat) /\ dispatched \in Seq(Nat) /\ posting \in [Users -> Nat]
    /\ at \in [Users -> ClientPlaces \cup TaskPlaces]
    /\ then \in [Users -> ClientReturns \cup TaskReturns]

(* Clients and the looper's thread have places of their own in the code.   *)
PlacesInv ==
    /\ \A t \in Clients : /\ at[t] \in ClientPlaces /\ then[t] \in ClientReturns
                          /\ at[t] \in {"waits", "owns"} => then[t] = "run"
                          /\ at[t] = "full" => then[t] \in {"run", "quitwaits"}
    /\ at[Task] \in TaskPlaces
    /\ at[Task] \in {"waits", "owns", "releases"} => then[Task] \in TaskReturns

(* t has called Run and has not yet resumed the looper's thread.           *)
Starting(t) ==
    \/ at[t] \in {"runs", "resumes"}
    \/ at[t] = "releases" /\ then[t] = "resumes"

(* The looper's thread exists after Run only, and once.                    *)
RunInv ==
    /\ Destroyed => ~fRunCalled
    /\ ~fRunCalled => at[Task] = "none"
    /\ \A t \in Users : Starting(t) => fRunCalled /\ at[Task] = "none"
    /\ \A t, u \in Users : Starting(t) /\ Starting(u) => t = u

(* t has the unit of the semaphore: as owner, or before it is one, or      *)
(* after it was.                                                           *)
HasUnit(t) == at[t] \in {"owns", "releases"} \/ lockDepth[t] > 0

OwnerInv ==
    /\ \A t, u \in Users : HasUnit(t) /\ HasUnit(u) => t = u
    /\ \A t \in Users : fOwner = t <=> lockDepth[t] > 0
    /\ \A t \in Users : fOwner = t => fOwnerCount = lockDepth[t]
    /\ \A t \in Users : at[t] \in {"waits", "owns", "releases", "none"} => lockDepth[t] = 0

(* The unit is in the semaphore or with one thread, until it is deleted.   *)
UnitInv ==
    /\ ~Destroyed => (fLockSem = 0 <=> \E t \in Users : HasUnit(t))
    /\ Destroyed => \A t \in Users : HasUnit(t) => at[t] = "destroys"
    /\ \A t \in Users : at[t] = "destroys" => Destroyed /\ fOwner = t /\ listed
    /\ ~listed => Destroyed /\ fOwner = NoClient
    /\ freed => ~listed

LockInv == LooperTypeOK /\ PlacesInv /\ RunInv /\ OwnerInv /\ UnitInv

(* What was posted is what was dispatched, what is in the queue and what   *)
(* is in the port, also before Run.                                        *)
OrderInv == ~Destroyed => posted = dispatched \o fQueue \o fMsgPort

LooperInductive == LockInv /\ OrderInv /\ QuitProcessesAll

-----------------------------------------------------------------------------
(* The steps of a Lock, an Unlock and a post, wherever they are called.    *)

(* Only thread t moves.                                                    *)
Moves(t) ==
    \A u \in Users : u # t =>
        at'[u] = at[u] /\ then'[u] = then[u] /\ lockDepth'[u] = lockDepth[u]

(* A step of one thread that starts nothing keeps RunInv.                  *)
LEMMA RunSame ==
    ASSUME LockInv, NEW t \in Users, Moves(t), UNCHANGED fRunCalled,
           Destroyed' => Destroyed \/ ~fRunCalled,
           Starting(t)' => Starting(t), t = Task => at[t] # "none"
    PROVE  RunInv'
<1>1. \A u \in Users : Starting(u)' => Starting(u)
  BY DEF Moves, Starting
<1>2. t # Task => at'[Task] = at[Task]
  BY DEF Moves, Users
<1> QED BY <1>1, <1>2 DEF LockInv, RunInv

(* A step that neither locks nor unlocks.                                  *)
LEMMA PlaceStep ==
    ASSUME LockInv, NEW t \in Users, Moves(t), LooperTypeOK',
           UNCHANGED <<lockDepth, fOwner, fOwnerCount, fLockSem, listed, freed, fRunCalled>>,
           at[t] \notin {"owns", "releases", "destroys", "none"},
           at'[t] \notin {"waits", "owns", "releases", "destroys", "none"},
           t \in Clients => /\ at'[t] \in ClientPlaces /\ then'[t] \in ClientReturns
                            /\ at'[t] = "full" => then'[t] \in {"run", "quitwaits"},
           t = Task => at'[t] \in TaskPlaces,
           Starting(t)' => Starting(t)
    PROVE  LockInv'
<1>1. PlacesInv'
  BY DEF LockInv, PlacesInv, Moves, Users
<1>2. RunInv'
  BY RunSame DEF Destroyed
<1>3. \A u \in Users : HasUnit(u)' <=> HasUnit(u)
  BY DEF Moves, HasUnit
<1>4. \A u \in Users : at'[u] = "destroys" <=> at[u] = "destroys"
  BY DEF Moves
<1>5. OwnerInv'
  <2>1. \A u \in Users : at'[u] \in {"waits", "owns", "releases", "none"} => lockDepth'[u] = 0
    BY DEF Moves, LockInv, OwnerInv
  <2> QED BY <1>3, <2>1 DEF LockInv, OwnerInv
<1>6. UnitInv'
  BY <1>3, <1>4 DEF LockInv, UnitInv, Destroyed
<1> QED BY <1>1, <1>2, <1>5, <1>6 DEF LockInv

(* The places from which Lock is called, with where it goes on.            *)
LockCall(t, next) ==
    \/ t \in Clients /\ at[t] = "run" /\ next = "run"
    \/ t = Task /\ at[t] \in {"task0", "locks"} /\ next \in {"loops", "next"}

(* _Lock keeps one owner and one unit.                                     *)
LEMMA LockKeeps ==
    ASSUME LockInv, NEW t \in Users, NEW next, LockCall(t, next), Lock(t, next)
    PROVE  LockInv'
<1> USE LooperAssumption DEF Users, ClientReturns, ClientPlaces,
        TaskReturns, TaskPlaces, lockVars, msgVars, listVars, Deleted
<1>1. UNCHANGED <<fOwner, fLockSem, fRunCalled, listed, freed, msgVars>>
  BY DEF Lock
<1>2. /\ at' \in [Users -> ClientPlaces \cup TaskPlaces]
      /\ then' \in [Users -> ClientReturns \cup TaskReturns]
      /\ lockDepth' \in [Users -> Nat] /\ fOwnerCount' \in Int
      /\ Moves(t)
  <2>1. next \in (ClientPlaces \cup TaskPlaces) \cap (ClientReturns \cup TaskReturns)
    BY DEF LockCall
  <2>2. at' \in [Users -> ClientPlaces \cup TaskPlaces]
    BY <2>1 DEF Lock, Goes, Calls, LockInv, LooperTypeOK
  <2>3. then' \in [Users -> ClientReturns \cup TaskReturns]
    BY <2>1 DEF Lock, Goes, Calls, LockInv, LooperTypeOK
  <2>4. lockDepth' \in [Users -> Nat] /\ fOwnerCount' \in Int
    <3>1. \/ UNCHANGED <<lockDepth, fOwnerCount>>
          \/ fOwnerCount' = fOwnerCount + 1 /\ lockDepth' = [lockDepth EXCEPT ![t] = @ + 1]
      BY DEF Lock
    <3>2. lockDepth \in [Users -> Nat] /\ fOwnerCount \in Int
      BY DEF LockInv, LooperTypeOK
    <3>3. fOwnerCount' \in Int
      BY <3>1, <3>2
    <3>4. lockDepth' \in [Users -> Nat]
      BY <3>1, <3>2
    <3> QED BY <3>3, <3>4
  <2>5. Moves(t)
    BY DEF Lock, Goes, Calls, LockInv, LooperTypeOK, Moves
  <2> QED BY <2>2, <2>3, <2>4, <2>5
<1>3. \/ ~listed /\ at'[t] = "run" /\ lockDepth'[t] = lockDepth[t] /\ fOwnerCount' = fOwnerCount
      \/ /\ fOwner = t /\ at'[t] = next /\ lockDepth'[t] = lockDepth[t] + 1
         /\ fOwnerCount' = fOwnerCount + 1
      \/ /\ fOwner # t /\ at'[t] = "waits" /\ lockDepth'[t] = lockDepth[t]
         /\ fOwnerCount' = fOwnerCount
  BY DEF Lock, Goes, Calls, LockInv, LooperTypeOK
<1>4. LooperTypeOK'
  BY <1>1, <1>2 DEF LockInv, LooperTypeOK
<1>5. PlacesInv'
  <2>1. PlacesInv /\ at \in [Users -> ClientPlaces \cup TaskPlaces]
        /\ then \in [Users -> ClientReturns \cup TaskReturns]
    BY DEF LockInv, LooperTypeOK
  <2>2. at'[t] \in {"run", "waits", next} /\ (at'[t] = "waits" => then'[t] = next)
    <3>1. next # "waits"
      BY DEF LockCall
    <3> QED BY <2>1, <3>1 DEF Lock, Goes, Calls
  <2>3. at'[t] = "run" => ~listed \/ next = "run"
    BY <1>3
  <2>4. \A u \in Users : u # t => at'[u] = at[u] /\ then'[u] = then[u]
    BY <1>2 DEF Moves
  <2>5. ASSUME t \in Clients
        PROVE  PlacesInv'
    <3>1. /\ at'[t] \in ClientPlaces /\ then'[t] \in ClientReturns
          /\ at'[t] \in {"waits", "owns"} => then'[t] = "run"
          /\ at'[t] # "full"
      BY <2>1, <2>2, <2>5 DEF LockCall, Lock, Goes, Calls, PlacesInv
    <3> QED BY <2>1, <2>4, <2>5, <3>1 DEF PlacesInv
  <2>6. ASSUME t = Task
        PROVE  PlacesInv'
    <3>1. at'[t] \in TaskPlaces /\ (at'[t] \in {"waits", "owns", "releases"} => then'[t] \in TaskReturns)
      <4>1. at[Task] # "none" /\ next \in {"loops", "next"}
        BY <2>6 DEF LockCall
      <4>2. listed
        BY <4>1 DEF LockInv, RunInv, UnitInv
      <4> QED BY <2>2, <2>3, <2>6, <4>1, <4>2
    <3> QED BY <2>1, <2>4, <2>6, <3>1 DEF PlacesInv
  <2> QED BY <2>5, <2>6
<1>6. RunInv'
  <2>1. Starting(t)' => Starting(t)
    BY <1>3 DEF LockCall, Starting
  <2> QED BY <1>1, <1>2, <2>1, RunSame DEF LockCall, Destroyed
<1>7. \A u \in Users : /\ HasUnit(u)' <=> HasUnit(u)
                       /\ lockDepth'[u] > 0 <=> lockDepth[u] > 0
  <2>1. HasUnit(t)' <=> HasUnit(t)
    BY <1>3 DEF LockCall, LockInv, LooperTypeOK, OwnerInv, HasUnit
  <2>2. lockDepth'[t] > 0 <=> lockDepth[t] > 0
    BY <1>3 DEF LockInv, LooperTypeOK, OwnerInv
  <2> QED BY <1>2, <2>1, <2>2 DEF Moves, HasUnit
<1>8. OwnerInv'
  <2>1. \A u \in Users : fOwner' = u => fOwnerCount' = lockDepth'[u]
    BY <1>1, <1>2, <1>3 DEF Moves, LockInv, LooperTypeOK, OwnerInv
  <2>2. \A u \in Users : at'[u] \in {"waits", "owns", "releases", "none"} => lockDepth'[u] = 0
    <3>1. at'[t] \in {"waits", "owns", "releases", "none"} => lockDepth'[t] = 0
      BY SMTT(30), <1>3 DEF LockCall, LockInv, LooperTypeOK, OwnerInv
    <3> QED BY <1>2, <3>1 DEF Moves, LockInv, OwnerInv
  <2> QED BY <1>1, <1>7, <2>1, <2>2 DEF LockInv, OwnerInv
<1>9. UnitInv'
  <2>1. \A u \in Users : at'[u] = "destroys" <=> at[u] = "destroys"
    BY <1>2, <1>3 DEF Moves, LockCall
  <2> QED BY <1>1, <1>7, <2>1 DEF LockInv, UnitInv, Destroyed
<1> QED BY <1>4, <1>5, <1>6, <1>8, <1>9 DEF LockInv

(* The places from which Unlock is called.                                 *)
UnlockCall(t, next) ==
    \/ t \in Clients /\ at[t] = "run" /\ next = "run"
    \/ t \in Clients /\ at[t] = "runs" /\ next = "resumes"
    \/ t \in Clients /\ at[t] = "quits" /\ next \in {"quits", "quitposts"}
    \/ t = Task /\ at[t] \in {"loops", "next", "done"} /\ next \in {"reads", "counts"}

(* Unlock gives the looper up, or keeps the owner with one lock less.      *)
LEMMA UnlockKeeps ==
    ASSUME LockInv, NEW t \in Users, NEW next, UnlockCall(t, next), Unlock(t, next)
    PROVE  LockInv'
<1> USE LooperAssumption DEF ClientReturns, ClientPlaces, TaskReturns, TaskPlaces,
        lockVars, msgVars, listVars, Deleted
<1>1. /\ UNCHANGED <<fLockSem, fRunCalled, listed, freed, msgVars>>
      /\ fOwner = t /\ listed /\ NoClient \notin Users
      /\ fOwnerCount' = fOwnerCount - 1 /\ lockDepth' = [lockDepth EXCEPT ![t] = @ - 1]
  BY DEF Unlock, Users
<1>2. /\ lockDepth \in [Users -> Nat] /\ lockDepth[t] > 0 /\ fOwnerCount = lockDepth[t]
      /\ lockDepth[t] \in Nat
  BY <1>1 DEF LockInv, LooperTypeOK, OwnerInv
<1>3. /\ lockDepth' \in [Users -> Nat] /\ lockDepth'[t] = lockDepth[t] - 1
      /\ fOwnerCount' = lockDepth'[t] /\ fOwnerCount' \in Int
      /\ \A u \in Users : u # t => lockDepth'[u] = lockDepth[u]
  BY <1>1, <1>2
<1>4. \/ lockDepth'[t] = 0 /\ fOwner' = NoClient /\ Calls(t, "releases", next)
      \/ lockDepth'[t] > 0 /\ fOwner' = fOwner /\ Goes(t, next) /\ then' = then
  BY <1>1, <1>2, <1>3 DEF Unlock, GivesUp
<1>5. next \in (ClientPlaces \cup TaskPlaces) \cap (ClientReturns \cup TaskReturns)
  BY DEF UnlockCall
<1>6. /\ at' \in [Users -> ClientPlaces \cup TaskPlaces]
      /\ then' \in [Users -> ClientReturns \cup TaskReturns]
  <2>1. /\ at \in [Users -> ClientPlaces \cup TaskPlaces]
        /\ then \in [Users -> ClientReturns \cup TaskReturns]
    BY DEF LockInv, LooperTypeOK
  <2>2. at' \in [Users -> ClientPlaces \cup TaskPlaces]
    BY <1>4, <1>5, <2>1 DEF Goes, Calls
  <2>3. then' \in [Users -> ClientReturns \cup TaskReturns]
    BY <1>4, <1>5, <2>1 DEF Goes, Calls
  <2> QED BY <2>2, <2>3
<1>7. /\ Moves(t)
      /\ \/ lockDepth'[t] = 0 /\ fOwner' = NoClient /\ at'[t] = "releases" /\ then'[t] = next
         \/ lockDepth'[t] > 0 /\ fOwner' = fOwner /\ at'[t] = next /\ then'[t] = then[t]
  BY <1>3, <1>4 DEF Goes, Calls, LockInv, LooperTypeOK, Moves
<1>8. LooperTypeOK'
  BY <1>1, <1>3, <1>6, <1>7 DEF LockInv, LooperTypeOK
<1>9. PlacesInv'
  BY <1>7 DEF LockInv, PlacesInv, Moves, Users, UnlockCall
<1>10. RunInv'
  <2>1. Starting(t)' => Starting(t)
    BY <1>7 DEF UnlockCall, Starting, LockInv, PlacesInv
  <2> QED BY <1>1, <1>7, <2>1, RunSame DEF UnlockCall, Destroyed
<1>11. \A u \in Users : HasUnit(u)' <=> HasUnit(u)
  <2>1. HasUnit(t) /\ HasUnit(t)'
    BY <1>2, <1>7 DEF HasUnit
  <2> QED BY <1>7, <2>1 DEF Moves, HasUnit
<1>12. OwnerInv'
  <2>1. \A u \in Users : fOwner' = u <=> lockDepth'[u] > 0
    <3>1. \A u \in Users : u # t => ~(lockDepth'[u] > 0)
      BY <1>1, <1>3 DEF LockInv, OwnerInv
    <3> QED BY <1>1, <1>7, <3>1
  <2>2. \A u \in Users : fOwner' = u => fOwnerCount' = lockDepth'[u]
    BY <1>1, <1>3, <1>7
  <2>3. at'[t] \in {"waits", "owns", "releases", "none"} => lockDepth'[t] = 0
    BY <1>7 DEF UnlockCall
  <2>4. \A u \in Users : at'[u] \in {"waits", "owns", "releases", "none"} => lockDepth'[u] = 0
    BY <1>7, <2>3 DEF Moves, LockInv, OwnerInv
  <2> QED BY <1>11, <2>1, <2>2, <2>4 DEF LockInv, OwnerInv
<1>13. UnitInv'
  <2>1. HasUnit(t) /\ at[t] # "destroys" /\ at'[t] # "destroys"
    BY <1>2, <1>7 DEF HasUnit, UnlockCall
  <2>2. ~Destroyed /\ ~Destroyed'
    BY <1>1, <2>1 DEF LockInv, UnitInv, Destroyed
  <2>3. \A u \in Users : at'[u] = "destroys" => at[u] = "destroys"
    BY <1>7, <2>1 DEF Moves
  <2> QED BY <1>1, <1>11, <2>2, <2>3 DEF LockInv, UnitInv
<1> QED BY <1>8, <1>9, <1>10, <1>12, <1>13 DEF LockInv

-----------------------------------------------------------------------------
(* The other steps of the lock.                                            *)

(* acquire_sem_etc takes the unit, or fails since the semaphore is gone.   *)
LEMMA LockAcquireKeeps ==
    ASSUME LockInv, NEW t \in Users, LockAcquire(t)
    PROVE  LockInv'
<1> USE LooperAssumption DEF ClientReturns, ClientPlaces, TaskReturns, TaskPlaces,
        lockVars, msgVars, listVars, Deleted
<1>1. /\ UNCHANGED <<fOwner, fOwnerCount, lockDepth, then, fRunCalled, listed, freed, msgVars>>
      /\ at[t] = "waits"
      /\ \/ Destroyed /\ at' = [at EXCEPT ![t] = "run"] /\ fLockSem' = fLockSem
         \/ fLockSem > 0 /\ fLockSem' = fLockSem - 1 /\ at' = [at EXCEPT ![t] = "owns"]
  BY DEF LockAcquire, Goes, AfterDeleted
<1>2. fLockSem \in {-1, 0, 1} /\ at \in [Users -> ClientPlaces \cup TaskPlaces]
  BY DEF LockInv, LooperTypeOK
<1>3. /\ Moves(t) /\ at' \in [Users -> ClientPlaces \cup TaskPlaces]
      /\ \/ Destroyed /\ at'[t] = "run" /\ fLockSem' = fLockSem
         \/ fLockSem = 1 /\ fLockSem' = 0 /\ at'[t] = "owns"
  BY <1>1, <1>2 DEF Moves
<1>4. t = Task => ~Destroyed
  BY <1>1 DEF LockInv, RunInv
<1>5. LooperTypeOK'
  BY <1>1, <1>2, <1>3 DEF LockInv, LooperTypeOK
<1>6. PlacesInv'
  BY <1>1, <1>3, <1>4 DEF LockInv, PlacesInv, Moves, Users
<1>7. RunInv'
  BY <1>1, <1>2, <1>3, RunSame DEF Destroyed, Starting
<1>8. CASE Destroyed
  <2>1. \A u \in Users : HasUnit(u)' <=> HasUnit(u)
    BY <1>1, <1>3, <1>8 DEF Moves, HasUnit, Destroyed
  <2>2. OwnerInv'
    <3>1. \A u \in Users : at'[u] \in {"waits", "owns", "releases", "none"} => lockDepth'[u] = 0
      BY <1>1, <1>3, <1>8 DEF Moves, LockInv, OwnerInv, Destroyed
    <3> QED BY <1>1, <2>1, <3>1 DEF LockInv, OwnerInv
  <2>3. \A u \in Users : at'[u] = "destroys" <=> at[u] = "destroys"
    BY <1>1, <1>3, <1>8 DEF Moves, Destroyed
  <2>4. UnitInv'
    BY <1>1, <1>3, <1>8, <2>1, <2>3 DEF LockInv, UnitInv, Destroyed
  <2> QED BY <1>5, <1>6, <1>7, <2>2, <2>4 DEF LockInv
<1>9. CASE ~Destroyed
  <2>1. fLockSem = 1 /\ fLockSem' = 0 /\ at'[t] = "owns" /\ ~Destroyed'
    BY <1>3, <1>9 DEF Destroyed
  <2>2. \A u \in Users : ~HasUnit(u)
    BY <1>9, <2>1 DEF LockInv, UnitInv
  <2>3. \A u \in Users : HasUnit(u)' <=> u = t
    BY <1>1, <1>3, <2>1, <2>2 DEF Moves, HasUnit
  <2>4. OwnerInv'
    <3>1. \A u \in Users : at'[u] \in {"waits", "owns", "releases", "none"} => lockDepth'[u] = 0
      BY <1>1, <1>3 DEF Moves, LockInv, OwnerInv
    <3> QED BY <1>1, <2>3, <3>1 DEF LockInv, OwnerInv
  <2>5. \A u \in Users : at'[u] = "destroys" => at[u] = "destroys"
    BY <1>3, <2>1 DEF Moves
  <2>6. UnitInv'
    BY <1>1, <1>9, <2>1, <2>3, <2>5 DEF LockInv, UnitInv
  <2> QED BY <1>5, <1>6, <1>7, <2>4, <2>6 DEF LockInv
<1> QED BY <1>8, <1>9

(* The thread with the unit writes fOwner without the list's lock: nobody  *)
(* else is the owner then.                                                 *)
LEMMA LockTakenKeeps ==
    ASSUME LockInv, NEW t \in Users, LockTaken(t)
    PROVE  LockInv'
<1> USE LooperAssumption DEF ClientReturns, ClientPlaces, TaskReturns, TaskPlaces,
        lockVars, msgVars, listVars, Deleted
<1>1. /\ UNCHANGED <<fLockSem, then, fRunCalled, listed, freed, msgVars>>
      /\ at[t] = "owns" /\ fOwner' = t /\ fOwnerCount' = 1
      /\ lockDepth' = [lockDepth EXCEPT ![t] = 1] /\ at' = [at EXCEPT ![t] = then[t]]
  BY DEF LockTaken, Goes, Returns, OwnCount
<1>2. /\ lockDepth \in [Users -> Nat] /\ at \in [Users -> ClientPlaces \cup TaskPlaces]
      /\ then[t] \in ClientReturns \cup TaskReturns
  BY DEF LockInv, LooperTypeOK
<1>3. /\ Moves(t) /\ at'[t] = then[t] /\ lockDepth'[t] = 1
      /\ lockDepth' \in [Users -> Nat] /\ at' \in [Users -> ClientPlaces \cup TaskPlaces]
  BY <1>1, <1>2 DEF Moves
<1>4. \A u \in Users : HasUnit(u) <=> u = t
  BY <1>1 DEF LockInv, OwnerInv, HasUnit
<1>5. ~Destroyed /\ ~Destroyed'
  BY <1>1, <1>4 DEF LockInv, UnitInv, Destroyed
<1>6. at'[t] \notin {"waits", "owns", "releases", "none", "destroys"}
  BY <1>2, <1>3
<1>7. \A u \in Users : HasUnit(u)' <=> u = t
  BY <1>3, <1>4, <1>6 DEF Moves, HasUnit
<1>8. LooperTypeOK'
  BY <1>1, <1>2, <1>3 DEF LockInv, LooperTypeOK
<1>9. PlacesInv'
  BY <1>1, <1>3, <1>6 DEF LockInv, PlacesInv, Moves, Users
<1>10. RunInv'
  <2>1. then[t] # "resumes"
    BY <1>1 DEF LockInv, PlacesInv, Users
  <2>2. ~Starting(t)'
    BY <1>2, <1>3, <2>1 DEF Starting
  <2> QED BY <1>1, <1>3, <1>5, <2>2, RunSame
<1>11. OwnerInv'
  <2>1. \A u \in Users : u # t => ~(lockDepth'[u] > 0)
    BY <1>3, <1>4 DEF Moves, HasUnit
  <2>2. \A u \in Users : at'[u] \in {"waits", "owns", "releases", "none"} => lockDepth'[u] = 0
    BY <1>3, <1>6 DEF Moves, LockInv, OwnerInv
  <2> QED BY <1>1, <1>3, <1>7, <2>1, <2>2 DEF OwnerInv
<1>12. UnitInv'
  <2>1. \A u \in Users : at'[u] # "destroys"
    BY <1>3, <1>5, <1>6 DEF Moves, LockInv, UnitInv
  <2>2. fLockSem' = 0 /\ listed
    BY <1>1, <1>4, <1>5 DEF LockInv, UnitInv
  <2> QED BY <1>1, <1>5, <1>7, <2>1, <2>2 DEF LockInv, UnitInv
<1> QED BY <1>8, <1>9, <1>10, <1>11, <1>12 DEF LockInv

(* The release_sem of Unlock: the unit goes back to the semaphore.         *)
LEMMA UnlockSemKeeps ==
    ASSUME LockInv, NEW t \in Users, UnlockSem(t)
    PROVE  LockInv'
<1> USE LooperAssumption DEF ClientReturns, ClientPlaces, TaskReturns, TaskPlaces,
        lockVars, msgVars, listVars, Deleted
<1>1. /\ UNCHANGED <<fOwner, fOwnerCount, lockDepth, then, fRunCalled, listed, freed, msgVars>>
      /\ at[t] = "releases" /\ fLockSem' = fLockSem + 1 /\ at' = [at EXCEPT ![t] = then[t]]
  BY DEF UnlockSem, Goes, Returns
<1>2. /\ lockDepth \in [Users -> Nat] /\ at \in [Users -> ClientPlaces \cup TaskPlaces]
      /\ then[t] \in ClientReturns \cup TaskReturns
  BY DEF LockInv, LooperTypeOK
<1>3. /\ Moves(t) /\ at'[t] = then[t] /\ at' \in [Users -> ClientPlaces \cup TaskPlaces]
  BY <1>1, <1>2 DEF Moves
<1>4. \A u \in Users : HasUnit(u) <=> u = t
  BY <1>1 DEF LockInv, OwnerInv, HasUnit
<1>5. ~Destroyed /\ fLockSem = 0
  BY <1>1, <1>4 DEF LockInv, UnitInv
<1>6. ~Destroyed' /\ fLockSem' = 1
  BY <1>1, <1>5 DEF Destroyed
<1>7. at'[t] \notin {"waits", "owns", "releases", "none", "destroys"}
  BY <1>2, <1>3
<1>8. \A u \in Users : ~HasUnit(u)'
  <2>1. lockDepth'[t] = 0
    BY <1>1 DEF LockInv, OwnerInv
  <2> QED BY <1>3, <1>4, <1>7, <2>1 DEF Moves, HasUnit
<1>9. LooperTypeOK'
  BY <1>1, <1>2, <1>3, <1>6 DEF LockInv, LooperTypeOK
<1>10. PlacesInv'
  BY <1>1, <1>3, <1>7 DEF LockInv, PlacesInv, Moves, Users
<1>11. RunInv'
  <2>1. Starting(t)' => Starting(t)
    BY <1>1, <1>2, <1>3 DEF Starting
  <2> QED BY <1>1, <1>3, <1>6, <2>1, RunSame
<1>12. OwnerInv'
  <2>1. \A u \in Users : at'[u] \in {"waits", "owns", "releases", "none"} => lockDepth'[u] = 0
    BY <1>1, <1>3, <1>7 DEF Moves, LockInv, OwnerInv
  <2> QED BY <1>1, <1>8, <2>1 DEF LockInv, OwnerInv
<1>13. UnitInv'
  <2>1. \A u \in Users : at'[u] # "destroys"
    BY <1>3, <1>5, <1>7 DEF Moves, LockInv, UnitInv
  <2>2. listed
    BY <1>5 DEF LockInv, UnitInv
  <2> QED BY <1>1, <1>6, <1>8, <2>1, <2>2 DEF LockInv, UnitInv
<1> QED BY <1>9, <1>10, <1>11, <1>12, <1>13 DEF LockInv

-----------------------------------------------------------------------------
(* Run, and the destruction of a looper that never ran.                    *)

(* Run is called once, by the owner.                                       *)
LEMMA RunKeeps ==
    ASSUME LockInv, NEW t \in Clients, Run(t)
    PROVE  LockInv'
<1> USE LooperAssumption DEF ClientReturns, ClientPlaces, TaskReturns, TaskPlaces,
        lockVars, msgVars, listVars, Deleted
<1>1. /\ UNCHANGED <<fOwner, fOwnerCount, fLockSem, lockDepth, then, listed, freed, msgVars>>
      /\ at[t] = "run" /\ fOwner = t /\ ~fRunCalled /\ fRunCalled' = TRUE
      /\ at' = [at EXCEPT ![t] = "runs"] /\ t \in Users /\ t # Task
  BY DEF Run, Users
<1>2. at \in [Users -> ClientPlaces \cup TaskPlaces] /\ lockDepth[t] > 0
  BY <1>1 DEF LockInv, LooperTypeOK, OwnerInv
<1>3. Moves(t) /\ at'[t] = "runs" /\ at' \in [Users -> ClientPlaces \cup TaskPlaces]
  BY <1>1, <1>2 DEF Moves
<1>4. \A u \in Users : HasUnit(u)' <=> HasUnit(u)
  BY <1>1, <1>3 DEF Moves, HasUnit
<1>5. ~Destroyed /\ ~Destroyed'
  BY <1>1, <1>2 DEF LockInv, UnitInv, HasUnit, Destroyed
<1>6. LooperTypeOK'
  BY <1>1, <1>3 DEF LockInv, LooperTypeOK
<1>7. PlacesInv'
  BY <1>1, <1>3 DEF LockInv, PlacesInv, Moves, Users
<1>8. RunInv'
  <2>1. \A u \in Users : ~Starting(u)
    BY <1>1 DEF LockInv, RunInv
  <2>2. \A u \in Users : Starting(u)' => u = t
    BY <1>3, <2>1 DEF Moves, Starting
  <2>3. at'[Task] = "none"
    BY <1>1, <1>3 DEF Moves, Users, LockInv, RunInv
  <2> QED BY <1>1, <1>5, <2>2, <2>3 DEF RunInv
<1>9. OwnerInv'
  <2>1. \A u \in Users : at'[u] \in {"waits", "owns", "releases", "none"} => lockDepth'[u] = 0
    BY <1>1, <1>3 DEF Moves, LockInv, OwnerInv
  <2> QED BY <1>1, <1>4, <2>1 DEF LockInv, OwnerInv
<1>10. UnitInv'
  <2>1. \A u \in Users : at'[u] = "destroys" <=> at[u] = "destroys"
    BY <1>1, <1>3 DEF Moves
  <2> QED BY <1>1, <1>4, <1>5, <2>1 DEF LockInv, UnitInv
<1> QED BY <1>6, <1>7, <1>8, <1>9, <1>10 DEF LockInv

(* resume_thread after Run starts the looper's thread.                     *)
LEMMA RunResumeKeeps ==
    ASSUME LockInv, NEW t \in Users, RunResume(t)
    PROVE  LockInv'
<1> USE LooperAssumption DEF ClientReturns, ClientPlaces, TaskReturns, TaskPlaces,
        lockVars, msgVars, listVars, Deleted
<1>1. /\ UNCHANGED <<fOwner, fOwnerCount, fLockSem, lockDepth, then, listed, freed, msgVars,
                     fRunCalled>>
      /\ at[t] = "resumes" /\ at' = [at EXCEPT ![t] = "run", ![Task] = "task0"]
      /\ Task \in Users
  BY DEF RunResume, Users
<1>2. /\ at \in [Users -> ClientPlaces \cup TaskPlaces] /\ at[Task] = "none" /\ fRunCalled
      /\ t # Task /\ \A u \in Users : Starting(u) => u = t
  BY <1>1 DEF LockInv, LooperTypeOK, RunInv, Starting
<1>3. /\ at'[t] = "run" /\ at'[Task] = "task0"
      /\ \A u \in Users : u # t /\ u # Task => at'[u] = at[u]
      /\ at' \in [Users -> ClientPlaces \cup TaskPlaces]
  BY <1>1, <1>2
<1>4. \A u \in Users : HasUnit(u)' <=> HasUnit(u)
  BY <1>1, <1>2, <1>3 DEF HasUnit
<1>5. LooperTypeOK'
  BY <1>1, <1>3 DEF LockInv, LooperTypeOK
<1>6. PlacesInv'
  BY <1>1, <1>2, <1>3 DEF LockInv, PlacesInv, Users
<1>7. RunInv'
  <2>1. \A u \in Users : ~Starting(u)'
    BY <1>1, <1>2, <1>3 DEF Starting
  <2> QED BY <1>1, <1>2, <2>1 DEF LockInv, RunInv, Destroyed
<1>8. OwnerInv'
  <2>1. \A u \in Users : at'[u] \in {"waits", "owns", "releases", "none"} => lockDepth'[u] = 0
    BY <1>1, <1>3 DEF LockInv, OwnerInv
  <2> QED BY <1>1, <1>4, <2>1 DEF LockInv, OwnerInv
<1>9. UnitInv'
  <2>1. \A u \in Users : at'[u] = "destroys" <=> at[u] = "destroys"
    BY <1>1, <1>2, <1>3
  <2> QED BY <1>1, <1>4, <2>1 DEF LockInv, UnitInv, Destroyed
<1> QED BY <1>5, <1>6, <1>7, <1>8, <1>9 DEF LockInv

(* The destructor deletes semaphore and port with the looper locked.       *)
LEMMA DestroyKeeps ==
    ASSUME LockInv, NEW t \in Clients, Destroy(t)
    PROVE  LockInv'
<1> USE LooperAssumption DEF ClientReturns, ClientPlaces, TaskReturns, TaskPlaces,
        lockVars, msgVars, listVars, Deleted
<1>1. /\ UNCHANGED <<fOwner, fOwnerCount, lockDepth, then, listed, freed, fRunCalled,
                     posting, posted, dispatched>>
      /\ at[t] = "run" /\ fOwner = t /\ ~fRunCalled /\ listed
      /\ fLockSem' = -1 /\ fMsgPort' = <<>> /\ fQueue' = <<>>
      /\ at' = [at EXCEPT ![t] = "destroys"] /\ t \in Users /\ t # Task
  BY DEF Destroy, Goes, Users
<1>2. at \in [Users -> ClientPlaces \cup TaskPlaces] /\ lockDepth[t] > 0
  BY <1>1 DEF LockInv, LooperTypeOK, OwnerInv
<1>3. Moves(t) /\ at'[t] = "destroys" /\ at' \in [Users -> ClientPlaces \cup TaskPlaces]
  BY <1>1, <1>2 DEF Moves
<1>4. \A u \in Users : HasUnit(u)' <=> HasUnit(u)
  BY <1>1, <1>3 DEF Moves, HasUnit
<1>5. HasUnit(t) /\ Destroyed'
  BY <1>1, <1>2 DEF HasUnit, Destroyed
<1>6. LooperTypeOK'
  BY <1>1, <1>3 DEF LockInv, LooperTypeOK
<1>7. PlacesInv'
  BY <1>1, <1>3 DEF LockInv, PlacesInv, Moves, Users
<1>8. RunInv'
  <2>1. ~Starting(t)'
    BY <1>3 DEF Starting
  <2> QED BY <1>1, <1>3, <2>1, RunSame
<1>9. OwnerInv'
  <2>1. \A u \in Users : at'[u] \in {"waits", "owns", "releases", "none"} => lockDepth'[u] = 0
    BY <1>1, <1>3 DEF Moves, LockInv, OwnerInv
  <2> QED BY <1>1, <1>4, <2>1 DEF LockInv, OwnerInv
<1>10. UnitInv'
  <2>1. \A u \in Users : HasUnit(u) => u = t
    BY <1>1, <1>5 DEF LockInv, OwnerInv
  <2>2. \A u \in Users : at[u] = "destroys" => HasUnit(u)
    BY DEF LockInv, UnitInv, OwnerInv, HasUnit
  <2>3. \A u \in Users : at'[u] = "destroys" <=> u = t
    BY <1>1, <1>3, <2>1, <2>2 DEF Moves
  <2> QED BY <1>1, <1>4, <1>5, <2>1, <2>3 DEF LockInv, UnitInv
<1> QED BY <1>6, <1>7, <1>8, <1>9, <1>10 DEF LockInv

(* It leaves the list, and the memory is given back.                       *)
LEMMA DestroyUnlistKeeps ==
    ASSUME LockInv, NEW t \in Users, DestroyUnlist(t)
    PROVE  LockInv'
<1> USE LooperAssumption DEF ClientReturns, ClientPlaces, TaskReturns, TaskPlaces,
        lockVars, msgVars, listVars, Deleted
<1>1. /\ UNCHANGED <<fOwnerCount, fLockSem, then, fRunCalled, msgVars>>
      /\ at[t] = "destroys" /\ listed' = FALSE /\ freed' = TRUE /\ fOwner' = NoClient
      /\ lockDepth' = [lockDepth EXCEPT ![t] = 0] /\ at' = [at EXCEPT ![t] = "run"]
      /\ NoClient \notin Users
  BY DEF DestroyUnlist, Goes, Users
<1>2. /\ at \in [Users -> ClientPlaces \cup TaskPlaces] /\ lockDepth \in [Users -> Nat]
      /\ Destroyed /\ fOwner = t
  BY <1>1 DEF LockInv, LooperTypeOK, UnitInv
<1>3. /\ Moves(t) /\ at'[t] = "run" /\ lockDepth'[t] = 0
      /\ at' \in [Users -> ClientPlaces \cup TaskPlaces] /\ lockDepth' \in [Users -> Nat]
  BY <1>1, <1>2 DEF Moves
<1>4. t # Task
  BY <1>1 DEF LockInv, PlacesInv
<1>5. \A u \in Users : ~HasUnit(u)' /\ at'[u] # "destroys"
  <2>1. \A u \in Users : u # t => ~HasUnit(u) /\ at[u] # "destroys"
    <3>1. HasUnit(t)
      BY <1>2 DEF LockInv, OwnerInv, HasUnit
    <3> QED BY <1>2, <3>1 DEF LockInv, OwnerInv, UnitInv
  <2> QED BY <1>3, <2>1 DEF Moves, HasUnit
<1>6. LooperTypeOK'
  BY <1>1, <1>3 DEF LockInv, LooperTypeOK
<1>7. PlacesInv'
  BY <1>1, <1>3, <1>4 DEF LockInv, PlacesInv, Moves, Users
<1>8. RunInv'
  <2>1. ~Starting(t)'
    BY <1>3 DEF Starting
  <2> QED BY <1>1, <1>2, <1>3, <1>4, <2>1, RunSame
<1>9. OwnerInv'
  <2>1. \A u \in Users : at'[u] \in {"waits", "owns", "releases", "none"} => lockDepth'[u] = 0
    BY <1>3 DEF Moves, LockInv, OwnerInv
  <2>2. \A u \in Users : ~(lockDepth'[u] > 0)
    BY <1>5 DEF HasUnit
  <2> QED BY <1>1, <1>5, <2>1, <2>2 DEF OwnerInv
<1>10. UnitInv'
  BY <1>1, <1>2, <1>5 DEF UnitInv, Destroyed
<1> QED BY <1>6, <1>7, <1>8, <1>9, <1>10 DEF LockInv

-----------------------------------------------------------------------------
(* Messages move from the port to the queue and are dispatched from it:    *)
(* what that does to the concatenation of the three.                       *)

(* A message added to the port is added at the end of the whole.           *)
LEMMA PostConcat ==
    ASSUME NEW d \in Seq(Nat), NEW p \in Seq(Nat), NEW m \in Nat
    PROVE  Append(d \o p, m) = d \o Append(p, m)
<1>1. <<m>> \in Seq(Nat) /\ d \o p \in Seq(Nat)
  BY ConcatProperties
<1>2. Append(d \o p, m) = (d \o p) \o <<m>> /\ Append(p, m) = p \o <<m>>
  BY <1>1, AppendIsConcat
<1>3. (d \o p) \o <<m>> = d \o (p \o <<m>>)
  BY <1>1, ConcatAssociative
<1> QED BY <1>2, <1>3

(* The head of a sequence, and the rest of it.                             *)
LEMMA HeadConcatTail ==
    ASSUME NEW q \in Seq(Nat), q # <<>>
    PROVE  /\ Head(q) \in Nat /\ Tail(q) \in Seq(Nat) /\ <<Head(q)>> \in Seq(Nat)
           /\ q = <<Head(q)>> \o Tail(q)
<1>1. /\ Head(q) \in Nat /\ Tail(q) \in Seq(Nat) /\ Len(Tail(q)) = Len(q) - 1
      /\ \A i \in 1 .. Len(Tail(q)) : Tail(q)[i] = q[i + 1]
  BY HeadTailProperties
<1>2. <<Head(q)>> \in Seq(Nat) /\ Len(<<Head(q)>>) = 1 /\ <<Head(q)>>[1] = q[1]
  BY <1>1
<1>3. /\ <<Head(q)>> \o Tail(q) \in Seq(Nat) /\ Len(<<Head(q)>> \o Tail(q)) = Len(q)
      /\ \A i \in 1 .. Len(q) : (<<Head(q)>> \o Tail(q))[i] =
                                  IF i <= 1 THEN q[1] ELSE Tail(q)[i - 1]
  <2>1. Len(<<Head(q)>>) + Len(Tail(q)) = Len(q)
    BY <1>1, <1>2, LenProperties
  <2> QED BY <1>1, <1>2, <2>1, ConcatProperties
<1>4. \A i \in 1 .. Len(q) : (<<Head(q)>> \o Tail(q))[i] = q[i]
  BY <1>1, <1>3, LenProperties
<1> QED BY <1>1, <1>2, <1>3, <1>4, SeqEqual

(* A message taken from the second sequence and added to the first leaves  *)
(* their concatenation as it was.                                          *)
LEMMA MoveConcat ==
    ASSUME NEW d \in Seq(Nat), NEW q \in Seq(Nat), q # <<>>
    PROVE  Append(d, Head(q)) \o Tail(q) = d \o q
<1>1. Append(d, Head(q)) = d \o <<Head(q)>>
  BY HeadConcatTail, AppendIsConcat
<1> QED BY SMTT(30), <1>1, HeadConcatTail, ConcatAssociative

(* A concatenation depends on that of its second and third part only.      *)
LEMMA RestConcat ==
    ASSUME NEW d \in Seq(Nat), NEW q \in Seq(Nat), NEW p \in Seq(Nat)
    PROVE  q \o p \in Seq(Nat) /\ d \o q \o p = d \o (q \o p)
BY SMTT(30), ConcatProperties, ConcatAssociative

(* What a beginning of a sequence is does not depend on what follows.      *)
LEMMA SubSeqPosted ==
    ASSUME NEW s \in Seq(Nat), NEW m \in Nat, NEW i \in 1 .. Len(s)
    PROVE  i \in 1 .. Len(Append(s, m)) /\ Append(s, m)[i] = s[i]
           /\ SubSeq(Append(s, m), 1, i) = SubSeq(s, 1, i)
<1>1. Append(s, m) = s \o <<m>> /\ <<m>> \in Seq(Nat) /\ 1 \in 1 .. Len(s)
  BY AppendIsConcat, LenProperties
<1>2. SubSeq(Append(s, m), 1, i) = SubSeq(s, 1, i)
  BY <1>1, SubSeqOfConcat1
<1>3. Len(Append(s, m)) = Len(s) + 1 /\ Append(s, m)[i] = s[i]
  BY AppendProperties
<1> QED BY <1>2, <1>3, LenProperties

-----------------------------------------------------------------------------
(* A step that moves no message.                                           *)
LEMMA OrderSame ==
    ASSUME OrderInv, QuitProcessesAll, UNCHANGED <<fMsgPort, fQueue, posted, dispatched>>,
           Destroyed => Destroyed', at'[Task] = "dead" => at[Task] = "dead"
    PROVE  OrderInv' /\ QuitProcessesAll'
BY DEF OrderInv, QuitProcessesAll

(* A step that posts m.                                                    *)
LEMMA OrderPost ==
    ASSUME LooperTypeOK, OrderInv, QuitProcessesAll, NEW m \in Nat,
           fMsgPort' = Append(fMsgPort, m), posted' = Append(posted, m),
           UNCHANGED <<fQueue, dispatched>>,
           Destroyed => Destroyed', at'[Task] = "dead" => at[Task] = "dead"
    PROVE  OrderInv' /\ QuitProcessesAll'
<1>1. /\ fMsgPort \in Seq(Nat) /\ fQueue \in Seq(Nat) /\ posted \in Seq(Nat)
      /\ dispatched \in Seq(Nat)
  BY DEF LooperTypeOK
<1>2. OrderInv'
  <2>1. dispatched \o fQueue \in Seq(Nat)
    BY <1>1, ConcatProperties
  <2> DEFINE before == dispatched \o fQueue
  <2>2. Append(before \o fMsgPort, m) = before \o Append(fMsgPort, m)
    BY <1>1, <2>1, PostConcat
  <2> QED BY <2>2 DEF OrderInv
<1>3. ASSUME NEW i \in 1 .. Len(posted), posted[i] = Quits,
             dispatched = SubSeq(posted, 1, i)
      PROVE  /\ i \in 1 .. Len(posted') /\ posted'[i] = Quits
             /\ dispatched' = SubSeq(posted', 1, i)
  BY <1>1, <1>3, SubSeqPosted
<1>4. QuitProcessesAll'
  BY <1>3 DEF QuitProcessesAll
<1> QED BY <1>2, <1>4

(* The places from which PostMessage is called.                            *)
PostCall(t, next) ==
    \/ t \in Clients /\ at[t] = "run" /\ next = "run"
    \/ t \in Clients /\ at[t] = "quitposts" /\ next = "quitwaits"

(* A post goes into the port, waits for room in it, or finds no looper.    *)
LEMMA PostMessageKeeps ==
    ASSUME LooperInductive, NEW t \in Users, NEW m \in Nat, NEW next, PostCall(t, next),
           PostMessage(t, m, next)
    PROVE  LooperInductive'
<1> USE LooperAssumption DEF ClientReturns, ClientPlaces, TaskReturns, TaskPlaces,
        lockVars, msgVars, listVars
<1>1. /\ UNCHANGED <<lockDepth, fOwner, fOwnerCount, fLockSem, listed, freed, fRunCalled,
                     fQueue, dispatched>>
      /\ t \in Clients /\ t # Task
      /\ \/ UNCHANGED <<then, fMsgPort, posted, posting>> /\ Goes(t, next)
         \/ /\ fMsgPort' = Append(fMsgPort, m) /\ posted' = Append(posted, m)
            /\ UNCHANGED <<then, posting>> /\ Goes(t, next)
         \/ /\ posting' = [posting EXCEPT ![t] = m] /\ UNCHANGED <<fMsgPort, posted>>
            /\ Calls(t, "full", next)
  BY DEF PostMessage, PostCall, Users
<1>2. /\ at \in [Users -> ClientPlaces \cup TaskPlaces]
      /\ then \in [Users -> ClientReturns \cup TaskReturns]
      /\ posting \in [Users -> Nat]
      /\ fMsgPort \in Seq(Nat) /\ posted \in Seq(Nat)
      /\ LooperTypeOK /\ LockInv /\ OrderInv /\ QuitProcessesAll
  BY DEF LooperInductive, LockInv, LooperTypeOK
<1>3. next \in ClientReturns
  BY DEF PostCall
<1>4. /\ \A u \in Users : u # t => at'[u] = at[u] /\ then'[u] = then[u]
      /\ \/ at'[t] = next /\ then'[t] = then[t]
         \/ at'[t] = "full" /\ then'[t] = next
      /\ at' \in [Users -> ClientPlaces \cup TaskPlaces]
      /\ then' \in [Users -> ClientReturns \cup TaskReturns]
  BY <1>1, <1>2, <1>3 DEF Goes, Calls
<1>5. posting' \in [Users -> Nat] /\ fMsgPort' \in Seq(Nat) /\ posted' \in Seq(Nat)
  <2>1. Append(fMsgPort, m) \in Seq(Nat) /\ Append(posted, m) \in Seq(Nat)
    BY <1>2, AppendProperties
  <2>2. [posting EXCEPT ![t] = m] \in [Users -> Nat]
    BY <1>2
  <2> QED BY <1>1, <1>2, <2>1, <2>2
<1>6. LooperTypeOK'
  BY <1>1, <1>2, <1>4, <1>5 DEF LooperTypeOK
<1>7. LockInv'
  <2>1. Moves(t)
    BY <1>1, <1>4 DEF Moves
  <2>2. then[t] \in ClientReturns
    BY <1>1, <1>2 DEF LockInv, PlacesInv
  <2>3. ~Starting(t)'
    BY <1>4 DEF PostCall, Starting
  <2>4. at[t] \notin {"owns", "releases", "destroys", "none"}
    BY DEF PostCall
  <2>5. /\ at'[t] \in ClientPlaces /\ then'[t] \in ClientReturns
        /\ at'[t] = "full" => then'[t] \in {"run", "quitwaits"}
        /\ at'[t] \notin {"waits", "owns", "releases", "destroys", "none"}
    BY <1>3, <1>4, <2>2 DEF PostCall
  <2> QED BY <1>1, <1>2, <1>6, <2>1, <2>3, <2>4, <2>5, PlaceStep
<1>8. at'[Task] = at[Task] /\ (Destroyed => Destroyed')
  BY <1>1, <1>4 DEF Users, Destroyed
<1>9. OrderInv' /\ QuitProcessesAll'
  BY <1>1, <1>2, <1>8, OrderSame, OrderPost
<1> QED BY <1>7, <1>9 DEF LooperInductive

(* A post that waited finds room, or the port deleted.                     *)
LEMMA PostRoomKeeps ==
    ASSUME LooperInductive, NEW t \in Users, PostRoom(t)
    PROVE  LooperInductive'
<1> USE LooperAssumption DEF ClientReturns, ClientPlaces, TaskReturns, TaskPlaces,
        lockVars, msgVars, listVars
<1>1. /\ UNCHANGED <<lockDepth, fOwner, fOwnerCount, fLockSem, listed, freed, fRunCalled,
                     fQueue, dispatched, then, posting>>
      /\ at[t] = "full" /\ at' = [at EXCEPT ![t] = then[t]]
      /\ \/ UNCHANGED <<fMsgPort, posted>>
         \/ fMsgPort' = Append(fMsgPort, posting[t]) /\ posted' = Append(posted, posting[t])
  BY DEF PostRoom, Returns, Goes
<1>2. /\ at \in [Users -> ClientPlaces \cup TaskPlaces] /\ posting[t] \in Nat
      /\ fMsgPort \in Seq(Nat) /\ posted \in Seq(Nat)
      /\ LooperTypeOK /\ LockInv /\ OrderInv /\ QuitProcessesAll
  BY DEF LooperInductive, LockInv, LooperTypeOK
<1>3. t # Task /\ t \in Clients /\ then[t] \in {"run", "quitwaits"}
  BY <1>1, <1>2 DEF LockInv, PlacesInv, Users
<1>4. /\ \A u \in Users : u # t => at'[u] = at[u]
      /\ at'[t] \in {"run", "quitwaits"}
      /\ at' \in [Users -> ClientPlaces \cup TaskPlaces]
  BY <1>1, <1>2, <1>3
<1>5. fMsgPort' \in Seq(Nat) /\ posted' \in Seq(Nat)
  <2>1. Append(fMsgPort, posting[t]) \in Seq(Nat) /\ Append(posted, posting[t]) \in Seq(Nat)
    BY <1>2, AppendProperties
  <2> QED BY <1>1, <1>2, <2>1
<1>6. LooperTypeOK'
  BY <1>1, <1>2, <1>4, <1>5 DEF LooperTypeOK
<1>7. LockInv'
  <2>1. Moves(t)
    BY <1>1, <1>4 DEF Moves
  <2>2. ~Starting(t)'
    BY <1>4 DEF Starting
  <2>3. then'[t] \in ClientReturns
    BY <1>1, <1>3
  <2> QED BY <1>1, <1>2, <1>3, <1>4, <1>6, <2>1, <2>2, <2>3, PlaceStep
<1>8. at'[Task] = at[Task] /\ (Destroyed => Destroyed')
  BY <1>1, <1>3, <1>4 DEF Users, Destroyed
<1>9. OrderInv' /\ QuitProcessesAll'
  BY <1>1, <1>2, <1>8, OrderSame, OrderPost
<1> QED BY <1>7, <1>9 DEF LooperInductive

(* A client's step that only moves it to another place of its code.        *)
LEMMA ClientMoveKeeps ==
    ASSUME LooperInductive, NEW t \in Users, (Quit(t) /\ t \in Clients) \/ QuitWait(t)
    PROVE  LooperInductive'
<1> USE LooperAssumption DEF ClientReturns, ClientPlaces, TaskReturns, TaskPlaces,
        lockVars, msgVars, listVars
<1>1. /\ UNCHANGED <<lockDepth, fOwner, fOwnerCount, fLockSem, listed, freed, fRunCalled,
                     fQueue, dispatched, then, posting, fMsgPort, posted>>
      /\ \/ at[t] = "run" /\ at' = [at EXCEPT ![t] = "quits"] /\ t \in Clients
         \/ at[t] = "quitwaits" /\ at' = [at EXCEPT ![t] = "run"]
  BY DEF Quit, QuitWait, Goes
<1>2. /\ at \in [Users -> ClientPlaces \cup TaskPlaces]
      /\ LooperTypeOK /\ LockInv /\ OrderInv /\ QuitProcessesAll
  BY DEF LooperInductive, LockInv, LooperTypeOK
<1>3. t # Task /\ t \in Clients /\ then[t] \in ClientReturns
  BY <1>1, <1>2 DEF LockInv, PlacesInv, Users
<1>4. /\ \A u \in Users : u # t => at'[u] = at[u]
      /\ at'[t] \in {"run", "quits"}
      /\ at' \in [Users -> ClientPlaces \cup TaskPlaces]
  BY <1>1, <1>2
<1>5. LooperTypeOK'
  BY <1>1, <1>2, <1>4 DEF LooperTypeOK
<1>6. LockInv'
  <2>1. Moves(t)
    BY <1>1, <1>4 DEF Moves
  <2>2. ~Starting(t)'
    BY <1>4 DEF Starting
  <2>3. then'[t] \in ClientReturns /\ at[t] \in {"run", "quitwaits"}
    BY <1>1, <1>3
  <2> QED BY <1>1, <1>2, <1>3, <1>4, <1>5, <2>1, <2>2, <2>3, PlaceStep
<1>7. at'[Task] = at[Task] /\ (Destroyed => Destroyed')
  BY <1>1, <1>3, <1>4 DEF Users, Destroyed
<1>8. OrderInv' /\ QuitProcessesAll'
  BY <1>1, <1>2, <1>7, OrderSame
<1> QED BY <1>6, <1>8 DEF LooperInductive

-----------------------------------------------------------------------------
(* The looper's thread.                                                    *)

(* A step of the looper's thread that moves messages and nothing else.     *)
LEMMA TaskMoves ==
    ASSUME LockInv, NEW from, NEW to, at[Task] = from, at' = [at EXCEPT ![Task] = to],
           from \in {"reads", "drains", "next", "counts"},
           to \in {"reads", "drains", "locks", "done", "dead"},
           UNCHANGED <<lockDepth, fOwner, fOwnerCount, fLockSem, listed, freed, fRunCalled,
                       then, posting, posted>>,
           fMsgPort' \in Seq(Nat), fQueue' \in Seq(Nat), dispatched' \in Seq(Nat)
    PROVE  LockInv' /\ at'[Task] = to /\ (Destroyed <=> Destroyed')
<1> USE LooperAssumption DEF ClientReturns, ClientPlaces, TaskReturns, TaskPlaces
<1>1. /\ at \in [Users -> ClientPlaces \cup TaskPlaces] /\ LooperTypeOK
      /\ Task \in Users /\ Task \notin Clients
  BY DEF LockInv, LooperTypeOK, Users
<1>2. /\ \A u \in Users : u # Task => at'[u] = at[u]
      /\ at'[Task] = to /\ at' \in [Users -> ClientPlaces \cup TaskPlaces]
  BY <1>1
<1>3. LooperTypeOK'
  BY <1>1, <1>2 DEF LooperTypeOK
<1>4. Moves(Task) /\ ~Starting(Task)'
  BY <1>2 DEF Moves, Starting
<1>5. /\ at[Task] \notin {"owns", "releases", "destroys", "none"}
      /\ at'[Task] \in TaskPlaces
      /\ at'[Task] \notin {"waits", "owns", "releases", "destroys", "none"}
  BY <1>2
<1>6. LockInv'
  BY <1>1, <1>3, <1>4, <1>5, PlaceStep
<1> QED BY <1>2, <1>6 DEF Destroyed

(* The messages of the port go to the end of the queue.                    *)
LEMMA TaskReadKeeps ==
    ASSUME LooperInductive, TaskRead \/ TaskDrain
    PROVE  LooperInductive'
<1>1. /\ UNCHANGED <<lockDepth, fOwner, fOwnerCount, fLockSem, listed, freed, fRunCalled,
                     dispatched, then, posting, posted>>
      /\ \/ /\ at[Task] = "reads" /\ at' = [at EXCEPT ![Task] = "drains"] /\ fMsgPort # <<>>
            /\ fQueue' = Append(fQueue, Head(fMsgPort)) /\ fMsgPort' = Tail(fMsgPort)
         \/ /\ at[Task] = "drains" /\ at' = [at EXCEPT ![Task] = "locks"]
            /\ fQueue' = fQueue \o fMsgPort /\ fMsgPort' = <<>>
  BY DEF TaskRead, TaskDrain, Goes, Drained, lockVars, listVars
<1>2. /\ fMsgPort \in Seq(Nat) /\ fQueue \in Seq(Nat) /\ dispatched \in Seq(Nat)
      /\ LockInv /\ OrderInv /\ QuitProcessesAll
  BY DEF LooperInductive, LockInv, LooperTypeOK
<1>3. fMsgPort' \in Seq(Nat) /\ fQueue' \in Seq(Nat)
  <2>1. /\ fQueue \o fMsgPort \in Seq(Nat) /\ <<>> \in Seq(Nat)
        /\ fMsgPort # <<>> => /\ Append(fQueue, Head(fMsgPort)) \in Seq(Nat)
                              /\ Tail(fMsgPort) \in Seq(Nat)
    BY <1>2, HeadConcatTail, AppendProperties, ConcatProperties
  <2> QED BY <1>1, <2>1
<1>4. LockInv' /\ at'[Task] # "dead" /\ (Destroyed <=> Destroyed')
  BY <1>1, <1>2, <1>3, TaskMoves
<1>5. fQueue' \o fMsgPort' = fQueue \o fMsgPort
  <2>1. (fQueue \o fMsgPort) \o <<>> = fQueue \o fMsgPort
    BY <1>2, ConcatProperties, ConcatEmptySeq
  <2>2. fMsgPort # <<>> =>
           Append(fQueue, Head(fMsgPort)) \o Tail(fMsgPort) = fQueue \o fMsgPort
    BY <1>2, MoveConcat
  <2> QED BY <1>1, <2>1, <2>2
<1>6. OrderInv'
  <2>1. dispatched \o fQueue \o fMsgPort = dispatched \o (fQueue \o fMsgPort)
    BY <1>2, RestConcat
  <2>2. dispatched \o fQueue' \o fMsgPort' = dispatched \o (fQueue' \o fMsgPort')
    BY <1>2, <1>3, RestConcat
  <2> QED BY <1>1, <1>2, <1>4, <1>5, <2>1, <2>2 DEF OrderInv
<1>7. QuitProcessesAll'
  BY <1>4 DEF QuitProcessesAll
<1> QED BY <1>4, <1>6, <1>7 DEF LooperInductive

(* The first message of the queue is dispatched; when it quits, nothing    *)
(* posted before it is left.                                               *)
LEMMA TaskDispatchKeeps ==
    ASSUME LooperInductive, TaskDispatch
    PROVE  LooperInductive'
<1>1. /\ UNCHANGED <<lockDepth, fOwner, fOwnerCount, fLockSem, listed, freed, fRunCalled,
                     then, posting, posted, fMsgPort>>
      /\ at[Task] = "next" /\ fQueue # <<>>
      /\ at' = [at EXCEPT ![Task] = IF Head(fQueue) = Quits THEN "dead" ELSE "done"]
      /\ dispatched' = Append(dispatched, Head(fQueue)) /\ fQueue' = Tail(fQueue)
  BY DEF TaskDispatch, Goes, lockVars, listVars
<1>2. /\ fMsgPort \in Seq(Nat) /\ fQueue \in Seq(Nat) /\ dispatched \in Seq(Nat)
      /\ posted \in Seq(Nat)
      /\ LockInv /\ OrderInv /\ QuitProcessesAll
  BY DEF LooperInductive, LockInv, LooperTypeOK
<1>3. Head(fQueue) \in Nat /\ fQueue' \in Seq(Nat) /\ dispatched' \in Seq(Nat)
  BY <1>1, <1>2, HeadConcatTail, AppendProperties
<1>4. /\ LockInv' /\ (Destroyed <=> Destroyed')
      /\ at'[Task] = IF Head(fQueue) = Quits THEN "dead" ELSE "done"
  BY <1>1, <1>2, <1>3, TaskMoves
<1>5. ~Destroyed
  BY <1>1, <1>2 DEF LockInv, RunInv
<1>6. dispatched' \o fQueue' = dispatched \o fQueue
  BY <1>1, <1>2, MoveConcat
<1>7. OrderInv'
  BY <1>1, <1>2, <1>5, <1>6 DEF OrderInv
<1>8. QuitProcessesAll'
  <2> DEFINE rest == fQueue' \o fMsgPort
             n == Len(dispatched')
  <2>1. posted = dispatched' \o rest /\ rest \in Seq(Nat)
    <3>1. posted = dispatched' \o fQueue' \o fMsgPort
      BY <1>1, <1>4, <1>5, <1>7 DEF OrderInv
    <3>2. dispatched' \in Seq(Nat) /\ fQueue' \in Seq(Nat) /\ fMsgPort \in Seq(Nat)
      BY <1>2, <1>3
    <3>3. /\ dispatched' \o fQueue' \o fMsgPort = dispatched' \o (fQueue' \o fMsgPort)
          /\ fQueue' \o fMsgPort \in Seq(Nat)
      BY <3>2, RestConcat
    <3> QED BY <3>1, <3>3
  <2>2. n = Len(dispatched) + 1 /\ dispatched'[n] = Head(fQueue) /\ n \in Nat \ {0}
    BY <1>1, <1>2, <1>3, AppendProperties, LenProperties
  <2> HIDE DEF rest
  <2>3. n \in 1 .. Len(posted) /\ posted[n] = Head(fQueue)
    BY <1>3, <2>1, <2>2, ConcatProperties, LenProperties
  <2>4. SubSeq(posted, 1, n) = dispatched'
    BY <1>3, <2>1, <2>2, SubSeqOfConcat1, SubSeqFull
  <2> HIDE DEF n
  <2>5. at'[Task] = "dead" => Head(fQueue) = Quits
    BY <1>4
  <2>6. posted' = posted
    BY <1>1
  <2> QED BY <2>3, <2>4, <2>5, <2>6 DEF QuitProcessesAll
<1> QED BY <1>4, <1>7, <1>8 DEF LooperInductive

(* The rest of the queue, or the port first.                               *)
LEMMA TaskCountKeeps ==
    ASSUME LooperInductive, TaskCount
    PROVE  LooperInductive'
<1>1. /\ UNCHANGED <<lockDepth, fOwner, fOwnerCount, fLockSem, listed, freed, fRunCalled,
                     then, posting, posted, fMsgPort, fQueue, dispatched>>
      /\ at[Task] = "counts"
      /\ at' = [at EXCEPT ![Task] = IF ReadsFirst(fMsgPort) THEN "reads" ELSE "locks"]
  BY DEF TaskCount, Goes, lockVars, listVars, msgVars
<1>2. /\ fMsgPort \in Seq(Nat) /\ fQueue \in Seq(Nat) /\ dispatched \in Seq(Nat)
      /\ LockInv /\ OrderInv /\ QuitProcessesAll
  BY DEF LooperInductive, LockInv, LooperTypeOK
<1>3. LockInv' /\ at'[Task] # "dead" /\ (Destroyed <=> Destroyed')
  BY <1>1, <1>2, TaskMoves
<1>4. OrderInv' /\ QuitProcessesAll'
  BY <1>1, <1>2, <1>3, OrderSame
<1> QED BY <1>3, <1>4 DEF LooperInductive

-----------------------------------------------------------------------------
(* A step on the lock alone leaves the messages where they are.            *)
LEMMA LockStepKeeps ==
    ASSUME LooperInductive, LockInv', UNCHANGED msgVars, UNCHANGED fLockSem \/ ~Destroyed,
           at'[Task] = "dead" => at[Task] = "dead"
    PROVE  LooperInductive'
BY OrderSame DEF LooperInductive, msgVars, Destroyed

(* A Lock or an Unlock, from any of the places that call it.               *)
LEMMA LockCallKeeps ==
    ASSUME LooperInductive, NEW t \in Users, NEW next,
           \/ LockCall(t, next) /\ Lock(t, next)
           \/ UnlockCall(t, next) /\ Unlock(t, next)
    PROVE  LooperInductive'
<1>1. LockInv /\ LockInv'
  BY LockKeeps, UnlockKeeps DEF LooperInductive
<1>2. at \in [Users -> ClientPlaces \cup TaskPlaces] /\ next # "dead"
  BY <1>1 DEF LockInv, LooperTypeOK, LockCall, UnlockCall
<1>3. at'[Task] = "dead" => at[Task] = "dead"
  <2>1. at' \in {[at EXCEPT ![t] = p] : p \in {"run", "waits", "releases", next}}
    BY DEF Lock, Unlock, Calls, Goes
  <2>2. PICK p \in {"run", "waits", "releases", next} : at' = [at EXCEPT ![t] = p]
    BY <2>1
  <2>3. Task \in Users /\ p # "dead"
    BY <1>2 DEF Users
  <2> QED BY <1>2, <2>2, <2>3
<1>4. UNCHANGED msgVars /\ UNCHANGED fLockSem
  BY DEF Lock, Unlock, lockVars
<1> QED BY <1>1, <1>3, <1>4, LockStepKeeps

(* The constructor's state.                                                *)
LEMMA LooperInit ==
    ASSUME InitData
    PROVE  LooperInductive
<1> USE LooperAssumption DEF ClientReturns, ClientPlaces, TaskReturns, TaskPlaces, InitData,
        Deleted, Quits
<1>1. LooperTypeOK
  <2>1. fOwner \in Users /\ lockDepth \in [Users -> Nat] /\ posting \in [Users -> Nat]
    BY DEF Users
  <2>2. /\ at \in [Users -> ClientPlaces \cup TaskPlaces]
        /\ then \in [Users -> ClientReturns \cup TaskReturns]
    OBVIOUS
  <2>3. /\ fMsgPort \in Seq(Nat) /\ fQueue \in Seq(Nat) /\ posted \in Seq(Nat)
        /\ dispatched \in Seq(Nat)
    OBVIOUS
  <2>4. fRunCalled \in BOOLEAN /\ listed \in BOOLEAN /\ freed \in BOOLEAN
    OBVIOUS
  <2>5. fOwnerCount \in Int /\ fLockSem \in {Deleted, 0, 1}
    OBVIOUS
  <2> HIDE DEF InitData, ClientReturns, ClientPlaces, TaskReturns, TaskPlaces
  <2> QED BY <2>1, <2>2, <2>3, <2>4, <2>5 DEF LooperTypeOK
<1>2. /\ \A t \in Users : at[t] = (IF t = Task THEN "none" ELSE "run") /\ then[t] = "run"
      /\ \A t \in Users : lockDepth[t] = IF t = Creator THEN 1 ELSE 0
      /\ Creator \in Users /\ Task \in Users /\ Creator # Task /\ ~Destroyed
  BY DEF Destroyed, Users
<1>3. PlacesInv
  BY <1>2 DEF PlacesInv, Users
<1>4. RunInv
  BY <1>2 DEF RunInv, Starting
<1>5. \A t \in Users : HasUnit(t) <=> t = Creator
  BY <1>2 DEF HasUnit
<1>6. OwnerInv
  BY <1>2, <1>5 DEF OwnerInv
<1>7. UnitInv
  BY <1>2, <1>5 DEF UnitInv
<1>8. OrderInv /\ QuitProcessesAll
  <2>1. posted = dispatched \o fQueue \o fMsgPort
    BY ConcatEmptySeq
  <2> QED BY <1>2, <2>1 DEF OrderInv, QuitProcessesAll
<1> QED BY <1>1, <1>3, <1>4, <1>6, <1>7, <1>8 DEF LooperInductive, LockInv

(* Inside a call.                                                          *)
LEMMA CallStepKeeps ==
    ASSUME LooperInductive, NEW t \in Users, CallStep(t)
    PROVE  LooperInductive'
<1>1. /\ LockInv /\ at \in [Users -> ClientPlaces \cup TaskPlaces] /\ Task \in Users
      /\ then \in [Users -> ClientReturns \cup TaskReturns]
      /\ Task \notin Clients /\ (t # Task => t \in Clients)
  BY LooperAssumption DEF LooperInductive, LockInv, LooperTypeOK, Users
<1>2. at[Task] \in TaskPlaces
  BY <1>1 DEF LockInv, PlacesInv
<1>3. CASE LockAcquire(t)
  <2>1. at' = [at EXCEPT ![t] = "run"] \/ at' = [at EXCEPT ![t] = "owns"]
    BY <1>3 DEF LockAcquire, Goes, AfterDeleted
  <2>2. at'[Task] = "dead" => at[Task] = "dead"
    BY <1>1, <2>1
  <2>3. UNCHANGED fLockSem \/ ~Destroyed
    BY <1>3 DEF LockAcquire, Destroyed, Deleted
  <2>4. UNCHANGED msgVars
    BY <1>3 DEF LockAcquire
  <2> QED BY <1>1, <1>3, <2>2, <2>3, <2>4, LockAcquireKeeps, LockStepKeeps
<1>4. CASE LockTaken(t) \/ UnlockSem(t)
  <2>1. at' = [at EXCEPT ![t] = then[t]] /\ then[t] # "dead"
    BY <1>1, <1>4 DEF LockTaken, UnlockSem, Returns, Goes, ClientReturns, TaskReturns
  <2>2. at'[Task] = "dead" => at[Task] = "dead"
    BY <1>1, <2>1
  <2>3. ~Destroyed
    <3>1. HasUnit(t) /\ at[t] # "destroys"
      BY <1>4 DEF LockTaken, UnlockSem, HasUnit
    <3> QED BY <1>1, <3>1 DEF LockInv, UnitInv
  <2>4. UNCHANGED msgVars
    BY <1>4 DEF LockTaken, UnlockSem
  <2> QED BY <1>1, <1>4, <2>2, <2>3, <2>4, LockTakenKeeps, UnlockSemKeeps, LockStepKeeps
<1>5. CASE PostRoom(t)
  BY <1>5, PostRoomKeeps
<1>6. CASE RunUnlock(t) \/ QuitUnlock(t)
  <2>1. t \in Clients
    BY <1>1, <1>2, <1>6 DEF RunUnlock, QuitUnlock, TaskPlaces, TaskReturns
  <2>2. CASE RunUnlock(t)
    BY <2>1, <2>2, LockCallKeeps DEF RunUnlock, UnlockCall
  <2>3. CASE QuitUnlock(t)
    BY <2>1, <2>3, LockCallKeeps DEF QuitUnlock, UnlockCall
  <2> QED BY <1>6, <2>2, <2>3
<1>7. CASE RunResume(t)
  <2>1. at'[Task] # "dead" /\ UNCHANGED msgVars /\ UNCHANGED fLockSem
    BY <1>1, <1>7 DEF RunResume, lockVars
  <2> QED BY <1>1, <1>7, <2>1, RunResumeKeeps, LockStepKeeps
<1>8. CASE DestroyUnlist(t)
  <2>1. at' = [at EXCEPT ![t] = "run"] /\ UNCHANGED msgVars /\ UNCHANGED fLockSem
    BY <1>8 DEF DestroyUnlist, Goes
  <2>2. at'[Task] = "dead" => at[Task] = "dead"
    BY <1>1, <2>1
  <2> QED BY <1>1, <1>8, <2>1, <2>2, DestroyUnlistKeeps, LockStepKeeps
<1>9. CASE QuitPost(t)
  <2>1. t \in Clients
    BY <1>1, <1>2, <1>9 DEF QuitPost, TaskPlaces, TaskReturns
  <2> QED BY <1>9, <2>1, PostMessageKeeps DEF QuitPost, PostCall, Quits
<1>10. CASE QuitWait(t)
  BY <1>10, ClientMoveKeeps
<1> QED BY <1>3, <1>4, <1>5, <1>6, <1>7, <1>8, <1>9, <1>10 DEF CallStep

(* What a client starts.                                                   *)
LEMMA ClientCallKeeps ==
    ASSUME LooperInductive, NEW t \in Clients, ClientCall(t)
    PROVE  LooperInductive'
<1>1. /\ LockInv /\ at \in [Users -> ClientPlaces \cup TaskPlaces] /\ Task \in Users
      /\ t # Task /\ t \in Users /\ posted \in Seq(Nat)
  BY LooperAssumption DEF LooperInductive, LockInv, LooperTypeOK, Users
<1>2. CASE at[t] = "run" /\ (Lock(t, "run") \/ Unlock(t, "run"))
  BY <1>1, <1>2, LockCallKeeps DEF LockCall, UnlockCall
<1>3. CASE at[t] = "run" /\ \E m \in {Quits, Len(posted) + 1} : PostMessage(t, m, "run")
  <2>1. {Quits, Len(posted) + 1} \subseteq Nat
    BY <1>1, LenProperties DEF Quits
  <2> QED BY <1>1, <1>3, <2>1, PostMessageKeeps DEF PostCall
<1>4. CASE Run(t)
  <2>1. at'[Task] = at[Task] /\ UNCHANGED msgVars /\ UNCHANGED fLockSem
    BY <1>1, <1>4 DEF Run, lockVars
  <2> QED BY <1>1, <1>4, <2>1, RunKeeps, LockStepKeeps
<1>5. CASE Destroy(t)
  <2>1. LockInv'
    BY <1>1, <1>5, DestroyKeeps
  <2>2. Destroyed' /\ at'[Task] = at[Task]
    BY <1>1, <1>5 DEF Destroy, Goes, Destroyed
  <2>3. UNCHANGED <<posted, dispatched>>
    BY <1>5 DEF Destroy
  <2> QED BY <2>1, <2>2, <2>3 DEF LooperInductive, OrderInv, QuitProcessesAll
<1>6. CASE Quit(t)
  BY <1>1, <1>6, ClientMoveKeeps
<1> QED BY <1>2, <1>3, <1>4, <1>5, <1>6 DEF ClientCall

(* The looper's thread.                                                    *)
LEMMA TaskStepKeeps ==
    ASSUME LooperInductive, TaskStep
    PROVE  LooperInductive'
<1>1. Task \in Users
  BY DEF Users
<1>2. CASE TaskLock
  BY <1>1, <1>2, LockCallKeeps DEF TaskLock, LockCall
<1>3. CASE TaskLockNext
  BY <1>1, <1>3, LockCallKeeps DEF TaskLockNext, LockCall
<1>4. CASE TaskUnlock
  BY <1>1, <1>4, LockCallKeeps DEF TaskUnlock, UnlockCall
<1>5. CASE TaskEmpty
  BY <1>1, <1>5, LockCallKeeps DEF TaskEmpty, UnlockCall
<1>6. CASE TaskDone
  BY <1>1, <1>6, LockCallKeeps DEF TaskDone, UnlockCall
<1>7. CASE TaskRead \/ TaskDrain
  BY <1>7, TaskReadKeeps
<1>8. CASE TaskDispatch
  BY <1>8, TaskDispatchKeeps
<1>9. CASE TaskCount
  BY <1>9, TaskCountKeeps
<1> QED BY <1>2, <1>3, <1>4, <1>5, <1>6, <1>7, <1>8, <1>9 DEF TaskStep

(* The inductive invariant holds in every state of the looper.             *)
THEOREM LooperInvariant == LooperSpec => []LooperInductive
<1>1. InitData => LooperInductive
  BY LooperInit
<1>2. LooperInductive /\ [LooperNext]_looperVars => LooperInductive'
  <2> SUFFICES ASSUME LooperInductive, [LooperNext]_looperVars PROVE LooperInductive'
    OBVIOUS
  <2>1. CASE LooperNext
    BY <2>1, CallStepKeeps, ClientCallKeeps, TaskStepKeeps DEF LooperNext
  <2>2. CASE UNCHANGED looperVars
    <3>1. UNCHANGED <<fOwner, fOwnerCount, fLockSem, lockDepth, then, at, listed, freed,
                      fRunCalled, posting, posted, dispatched, fMsgPort, fQueue>>
      BY <2>2 DEF looperVars, lockVars, msgVars, listVars
    <3>2. LockInv'
      BY <3>1 DEF LooperInductive, LockInv, LooperTypeOK, PlacesInv, RunInv, OwnerInv,
         UnitInv, HasUnit, Starting, Destroyed
    <3> QED BY <3>1, <3>2, OrderSame DEF LooperInductive, Destroyed
  <2> QED BY <2>1, <2>2
<1> QED BY <1>1, <1>2, PTL DEF LooperSpec

(* fOwner and fOwnerCount, which Lock and Unlock read and write with       *)
(* different protection, are those of the one thread that has the looper,  *)
(* and then its semaphore has no unit.                                     *)
THEOREM OwnerHasLooperAlways == LooperSpec => []OwnerHasLooper
<1>1. LooperInductive => OwnerHasLooper
  <2> SUFFICES ASSUME LooperInductive, NEW t \in Users, lockDepth[t] > 0
               PROVE  /\ fOwner = t /\ fOwnerCount = lockDepth[t]
                      /\ fLockSem \in {0, Deleted}
    BY DEF OwnerHasLooper
  <2>1. HasUnit(t) /\ fOwner = t /\ fOwnerCount = lockDepth[t]
    BY DEF LooperInductive, LockInv, OwnerInv, HasUnit
  <2>2. fLockSem \in {0, Deleted}
    BY <2>1 DEF LooperInductive, LockInv, UnitInv, Destroyed
  <2> QED BY <2>1, <2>2
<1> QED BY <1>1, LooperInvariant, PTL

(* Nobody is granted the lock of a looper in freed memory, or gives it     *)
(* up there, and its thread dispatches nothing from there.                 *)
THEOREM LooperKeptAlways == LooperSpec => []LooperKept
<1>1. LooperInductive => LooperKept
  <2> SUFFICES ASSUME LooperInductive, freed, NEW t \in Users
               PROVE  at[t] \notin {"owns", "releases", "next", "done"}
    BY DEF LooperKept
  <2>1. Destroyed /\ at[Task] = "none"
    BY DEF LooperInductive, LockInv, UnitInv, RunInv
  <2>2. at[t] \notin {"owns", "releases"}
    BY <2>1 DEF LooperInductive, LockInv, UnitInv, HasUnit
  <2>3. at[t] \notin {"next", "done"}
    BY <2>1 DEF LooperInductive, LockInv, PlacesInv, ClientPlaces, ClientReturns, Users
  <2> QED BY <2>2, <2>3
<1> QED BY <1>1, LooperInvariant, PTL

(* Every message posted is dispatched, in the queue or in the port, in the *)
(* order of the posts, and a thread that quit has dispatched all that was  *)
(* posted before the message to quit.                                      *)
THEOREM MessagesInOrderAlways == LooperSpec => []MessagesInOrder
<1>1. LooperInductive => MessagesInOrder
  BY DEF LooperInductive, LockInv, RunInv, OrderInv, MessagesInOrder, DispatchedInOrder
<1> QED BY <1>1, LooperInvariant, PTL
=============================================================================
