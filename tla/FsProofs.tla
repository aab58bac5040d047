------------------------------ MODULE FsProofs ------------------------------
(***************************************************************************)
(* Theorems about the file systems.  Of Vfs, for any numbers of threads,   *)
(* files, vnodes and descriptors: the reference counts are right.  Of      *)
(* BlockAllocator, for any volume: the bitmap is kept, and a search finds  *)
(* the blocks that are there.                                              *)
(***************************************************************************)
EXTENDS Vfs, BlockAllocator, ListLemmas, FiniteSetTheorems

-----------------------------------------------------------------------------
(* The inductive invariant.                                                *)

VfsPcs == {"run", "lookup", "get", "read", "got", "found", "have", "newfd", "use",
           "dec", "fsput", "unhash", "put", "kfree"}
VThread == [pc : VfsPcs, op : {"none", "open", "cwd", "read", "ioctl", "close", "dup"},
            file : Files \cup {None}, node : Nodes \cup {None},
            slot : {0} \cup FdSlots, todo : Seq(Fds), freeing : Fds \cup {None}]

WalkPcs == {"lookup", "get", "read", "got", "found"}
NodePcs == {"read", "have", "dec", "fsput", "unhash"}
FreePcs == {"dec", "fsput", "unhash", "kfree"}
BusyPcs == {"read", "fsput", "unhash"}

(* What the local variables of a call are at its places.                   *)
VShape(r) ==
    /\ r.pc = "run" => r = Idle
    /\ r.pc \in WalkPcs => r.file \in Files
    /\ r.pc \in WalkPcs \cup {"have"} => r.todo = <<>> /\ r.op \in {"open", "cwd"}
    /\ r.pc \in NodePcs => r.node \in Nodes
    /\ r.pc = "newfd" => /\ Len(r.todo) = 1 /\ r.op \in {"open", "dup"}
                         /\ r.op = "open" => r.node \in Nodes
    /\ r.pc = "use" => /\ Len(r.todo) = 1 /\ r.op \in {"read", "ioctl", "close"}
                       /\ r.op = "close" => r.slot \in FdSlots
    /\ r.pc = "put" => r.todo # <<>>
    /\ r.pc = "kfree" => r.freeing # None
    /\ r.freeing # None => r.pc \in FreePcs
ThreadsInv == th \in [Callers -> VThread] /\ \A t \in Callers : VShape(th[t])

StateInv ==
    /\ vnode \in [Nodes -> [alloc : BOOLEAN, file : Files \cup {None}, ref : Nat,
                            busy : BOOLEAN, del : BOOLEAN]]
    /\ table \in [Files -> Nodes \cup {None}]
    /\ linked \subseteq Files /\ exists \subseteq Files
    /\ fslock \in Callers \cup {None}
    /\ fd \in [Fds -> [alloc : BOOLEAN, ref : Nat, node : Nodes \cup {None}]]
    /\ fds \in [Contexts -> [FdSlots -> Fds \cup {None}]]
    /\ cwd \in [Contexts -> Nodes \cup {None}]
    /\ child \in BOOLEAN /\ iolock \in BOOLEAN
    /\ leaked \in [Fds -> Nat] /\ lost \subseteq Fds

(* A vnode is in the table while it is in use; nobody refers to a busy one, *)
(* and one call works on it.                                                *)
TableInv ==
    /\ \A f \in Files : table[f] # None =>
          vnode[table[f]].alloc /\ vnode[table[f]].file = f
    /\ \A v \in Nodes : IF vnode[v].alloc
                        THEN vnode[v].file \in Files /\ table[vnode[v].file] = v
                        ELSE vnode[v] = NoNode
Counted(v) == IF vnode[v].alloc /\ ~vnode[v].busy THEN vnode[v].ref ELSE 0
RefInv == \A v \in Nodes : Holders(v) = Counted(v)
DelInv == \A v \in Nodes : vnode[v].alloc /\ vnode[v].del => vnode[v].file \notin linked
BusyInv ==
    /\ \A t \in Callers : th[t].pc \in BusyPcs =>
          /\ vnode[th[t].node].alloc /\ vnode[th[t].node].busy
          /\ th[t].pc = "read" => vnode[th[t].node].file = th[t].file
    /\ \A t, u \in Callers : th[t].pc \in BusyPcs /\ th[u].pc \in BusyPcs
                                /\ th[t].node = th[u].node => t = u
    /\ \A t \in Callers : th[t].pc \in {"got", "found"} => table[th[t].file] # None
NodesInv == TableInv /\ RefInv /\ DelInv /\ BusyInv

(* A descriptor counts who refers to it and has its vnode while somebody   *)
(* does; one that was forgotten is in no slot and no call.                 *)
Refs(d) == Cardinality(SlotsWith(1, d)) + Cardinality(SlotsWith(2, d)) + Cardinality(Puts(d))
CountOf(d) ==
    /\ IsFiniteSet(Puts(d))
    /\ IF d \in lost THEN fd[d].alloc /\ Refs(d) = 0
       ELSE /\ fd[d].ref = Refs(d) + leaked[d]
            /\ fd[d].ref > 0 => fd[d].alloc /\ fd[d].node \in Nodes
            /\ fd[d].ref = 0 => fd[d].node = None
CountInv == \A d \in Fds : CountOf(d)
(* A descriptor that vfs_open has not yet given a slot is its own; one     *)
(* that is on its way to kfree is nobody else's.                           *)
Opens(r) == r.pc = "newfd" /\ r.op = "open"
OpenInv ==
    \A t \in Callers : Opens(th[t]) =>
        LET d == th[t].todo[1]
        IN  d \notin lost /\ fd[d].ref = 1 /\ fd[d].node = th[t].node
FreeInv ==
    /\ \A t \in Callers : th[t].freeing # None =>
          LET d == th[t].freeing IN d \notin lost /\ fd[d].alloc /\ fd[d].ref = 0
    /\ \A t, u \in Callers : th[t].freeing # None /\ th[u].freeing = th[t].freeing => t = u
ChildInv == ~child => cwd[2] = None /\ \A s \in FdSlots : fds[2][s] = None
DescInv == CountInv /\ OpenInv /\ FreeInv /\ ChildInv

VfsInductive == StateInv /\ ThreadsInv /\ NodesInv /\ DescInv

-----------------------------------------------------------------------------
(* Counting.                                                               *)

Bit(b) == IF b THEN 1 ELSE 0

(* Sets that differ in one element at most.                                *)
LEMMA CardOneElement ==
    ASSUME NEW S, NEW T, NEW e, IsFiniteSet(S), S \ {e} = T \ {e}
    PROVE  /\ IsFiniteSet(T) /\ Cardinality(S) \in Nat /\ Cardinality(T) \in Nat
           /\ Cardinality(T) = Cardinality(S) - Bit(e \in S) + Bit(e \in T)
<1> DEFINE R == S \ {e}
<1>1. IsFiniteSet(R)
  BY FS_RemoveElement
<1>2. ASSUME NEW U, U \ {e} = R
      PROVE  IsFiniteSet(U) /\ Cardinality(U) = Cardinality(R) + Bit(e \in U)
  <2>0. Cardinality(R) \in Nat
    BY <1>1, FS_CardinalityType
  <2>1. CASE e \in U
    <3>1. U = R \cup {e} /\ e \notin R
      BY <1>2, <2>1
    <3> HIDE DEF R
    <3>2. IsFiniteSet(R \cup {e}) /\ Cardinality(R \cup {e}) = Cardinality(R) + 1
      BY <1>1, <3>1, FS_AddElement
    <3> QED BY <2>1, <3>1, <3>2 DEF Bit
  <2>2. CASE e \notin U
    <3>1. U = R
      BY <1>2, <2>2
    <3> HIDE DEF R
    <3> QED BY <1>1, <2>0, <2>2, <3>1 DEF Bit
  <2> QED BY <2>1, <2>2
<1>3. /\ IsFiniteSet(S) /\ Cardinality(S) = Cardinality(R) + Bit(e \in S)
      /\ IsFiniteSet(T) /\ Cardinality(T) = Cardinality(R) + Bit(e \in T)
  <2>1. S \ {e} = R /\ T \ {e} = R
    OBVIOUS
  <2> HIDE DEF R
  <2> QED BY <1>2, <2>1
<1>4. Cardinality(S) \in Nat /\ Cardinality(T) \in Nat /\ Cardinality(R) \in Nat
  BY <1>1, <1>3, FS_CardinalityType
<1>5. Bit(e \in S) \in Int /\ Bit(e \in T) \in Int
  BY DEF Bit
<1> HIDE DEF R
<1> QED BY <1>3, <1>4, <1>5

(* A finite set that is not empty has an element or more.                  *)
LEMMA CardPositive ==
    ASSUME NEW S, IsFiniteSet(S)
    PROVE  /\ Cardinality(S) \in Nat
           /\ Cardinality(S) = 0 <=> S = {}
BY FS_CardinalityType, FS_EmptySet

(* A finite set of numbers can be listed in increasing order.              *)
LEMMA SortedEnumeration ==
    ASSUME NEW S \in SUBSET Nat, IsFiniteSet(S)
    PROVE  \E p \in [1 .. Cardinality(S) -> S] : \A i, j \in DOMAIN p : i < j => p[i] < p[j]
<1> DEFINE Listed(U) ==
               \E p \in [1 .. Cardinality(U) -> U] : \A i, j \in DOMAIN p : i < j => p[i] < p[j]
           Bad == {n \in Nat : \E U \in SUBSET Nat :
                       IsFiniteSet(U) /\ Cardinality(U) = n /\ ~Listed(U)}
<1>1. SUFFICES ASSUME Bad # {}
               PROVE  FALSE
  <2>1. Cardinality(S) \in Nat
    BY FS_CardinalityType
  <2> HIDE DEF Listed
  <2>2. Listed(S)
    BY <1>1, <2>1
  <2> QED BY <2>2 DEF Listed
<1> DEFINE m == Min(Bad)
<1>2. m \in Bad /\ \A k \in Bad : m <= k
  BY <1>1, MinNat
<1> HIDE DEF m
<1>3. PICK U \in SUBSET Nat : IsFiniteSet(U) /\ Cardinality(U) = m /\ ~Listed(U)
  BY <1>2
<1>4. m \in Nat
  BY <1>2
<1>5. CASE m = 0
  <2>1. U = {}
    BY <1>3, <1>5, FS_EmptySet
  <2> DEFINE e == [i \in 1 .. 0 |-> i]
  <2>2. e \in [1 .. Cardinality(U) -> U] /\ DOMAIN e = {}
    BY <1>3, <1>5, <2>1
  <2> HIDE DEF e
  <2>3. Listed(U)
    BY <2>2
  <2> QED BY <1>3, <2>3
<1>6. CASE m > 0
  <2> DEFINE k == Min(U)
             W == U \ {k}
  <2>1. U # {}
    BY <1>3, <1>6, FS_EmptySet
  <2>2. k \in U /\ \A n \in U : k <= n
    BY <2>1, MinNat
  <2> HIDE DEF k
  <2>3. IsFiniteSet(W) /\ Cardinality(W) = m - 1
    BY <1>3, <2>2, FS_RemoveElement
  <2>4. Listed(W)
    <3>1. m - 1 \notin Bad
      BY <1>2, <1>4
    <3>2. W \in SUBSET Nat
      OBVIOUS
    <3>3. m - 1 \in Nat
      BY <1>4, <1>6
    <3> HIDE DEF Listed, W
    <3> QED BY <2>3, <3>1, <3>2, <3>3
  <2>5. PICK q \in [1 .. m - 1 -> W] : \A i, j \in DOMAIN q : i < j => q[i] < q[j]
    BY <2>3, <2>4
  <2> DEFINE p == [i \in 1 .. m |-> IF i = 1 THEN k ELSE q[i - 1]]
  <2>6. ASSUME NEW i \in 1 .. m
        PROVE  p[i] = IF i = 1 THEN k ELSE q[i - 1]
    BY DEF p
  <2>7. ASSUME NEW i \in 1 .. m, i # 1
        PROVE  i - 1 \in 1 .. m - 1 /\ q[i - 1] \in W
    <3>1. i - 1 \in 1 .. m - 1
      BY <1>4, <2>7
    <3> HIDE DEF W
    <3> QED BY <3>1
  <2>8. p \in [1 .. m -> U]
    <3>1. \A i \in 1 .. m : (IF i = 1 THEN k ELSE q[i - 1]) \in U
      BY <2>2, <2>7
    <3> QED BY <3>1 DEF p
  <2>9. ASSUME NEW i \in 1 .. m, NEW j \in 1 .. m, i < j
        PROVE  p[i] < p[j]
    <3>1. j # 1 /\ p[j] = q[j - 1] /\ q[j - 1] \in W /\ j - 1 \in 1 .. m - 1
      BY <1>4, <2>6, <2>7, <2>9
    <3>2. CASE i = 1
      <4>1. p[i] = k
        BY <2>6, <3>2
      <4>2. k <= q[j - 1] /\ k # q[j - 1] /\ k \in Nat /\ q[j - 1] \in Nat
        BY <2>2, <3>1
      <4> QED BY <3>1, <4>1, <4>2
    <3>3. CASE i # 1
      <4>1. p[i] = q[i - 1] /\ i - 1 \in 1 .. m - 1
        BY <2>6, <2>7, <3>3
      <4>2. i - 1 < j - 1
        BY <1>4, <2>9
      <4>3. DOMAIN q = 1 .. m - 1
        OBVIOUS
      <4>4. q[i - 1] < q[j - 1]
        BY <2>5, <3>1, <4>1, <4>2, <4>3
      <4> HIDE DEF p
      <4> QED BY <3>1, <4>1, <4>4
    <3> QED BY <3>2, <3>3
  <2> HIDE DEF p
  <2>10. DOMAIN p = 1 .. m
    BY <2>8
  <2>11. Listed(U)
    BY <1>3, <2>8, <2>9, <2>10
  <2> QED BY <1>3, <2>11
<1> QED BY <1>4, <1>5, <1>6

-----------------------------------------------------------------------------
(* The places of a descriptor in a list.                                   *)

(* They are finitely many.                                                 *)
LEMMA PlacesFinite ==
    ASSUME NEW s \in Seq(Fds), NEW d
    PROVE  IsFiniteSet(Places(s, d)) /\ Cardinality(Places(s, d)) \in Nat
<1>1. Len(s) \in Nat /\ DOMAIN s = 1 .. Len(s)
  OBVIOUS
<1>2. IsFiniteSet(1 .. Len(s))
  BY <1>1, FS_Interval
<1>3. Places(s, d) \in SUBSET (1 .. Len(s))
  BY <1>1 DEF Places
<1>4. IsFiniteSet(Places(s, d))
  BY <1>2, <1>3, FS_Subset
<1> QED BY <1>4, FS_CardinalityType

(* In the empty list and in a list of one.                                 *)
LEMMA PlacesShort ==
    ASSUME NEW d
    PROVE  /\ Cardinality(Places(<<>>, d)) = 0
           /\ \A e : Cardinality(Places(<<e>>, d)) = Bit(e = d)
<1>1. Places(<<>>, d) = {}
  BY DEF Places
<1>2. ASSUME NEW e
      PROVE  Cardinality(Places(<<e>>, d)) = Bit(e = d)
  <2>1. DOMAIN <<e>> = {1} /\ <<e>>[1] = e
    OBVIOUS
  <2>2. Places(<<e>>, d) = IF e = d THEN {1} ELSE {}
    BY <2>1 DEF Places
  <2> QED BY <2>2, FS_Singleton, FS_EmptySet DEF Bit
<1> QED BY <1>1, <1>2, FS_EmptySet

(* In the first place and behind it.                                       *)
LEMMA PlacesHead ==
    ASSUME NEW s \in Seq(Fds), s # <<>>, NEW d
    PROVE  Cardinality(Places(s, d)) = Bit(Head(s) = d) + Cardinality(Places(Tail(s), d))
<1> DEFINE r == Tail(s)
           P == Places(r, d)
           Q == Places(s, d)
<1>1. /\ Len(s) \in Nat /\ Len(s) > 0 /\ DOMAIN s = 1 .. Len(s) /\ Head(s) = s[1]
      /\ r \in Seq(Fds) /\ DOMAIN r = 1 .. Len(s) - 1
  <2>1. Len(s) \in Nat /\ Len(s) > 0 /\ Head(s) = s[1]
    BY EmptySeq, LenProperties
  <2>2. r \in Seq(Fds) /\ Len(r) = Len(s) - 1
    BY <2>1, HeadTailProperties
  <2> QED BY <2>1, <2>2
<1>2. \A i \in 1 .. Len(s) - 1 : r[i] = s[i + 1]
  BY HeadTailProperties
<1>3. IsFiniteSet(P) /\ IsFiniteSet(Q) /\ Cardinality(P) \in Nat /\ Cardinality(Q) \in Nat
  BY <1>1, PlacesFinite
<1> DEFINE f == [i \in P |-> i + 1]
           R == Q \ {1}
<1>4. /\ \A i : i \in P <=> i \in 1 .. Len(s) - 1 /\ s[i + 1] = d
      /\ \A i : i \in Q <=> i \in 1 .. Len(s) /\ s[i] = d
  BY <1>1, <1>2 DEF Places
<1> HIDE DEF P, Q, r
<1>5. f \in [P -> R] /\ \A i \in P : f[i] = i + 1
  <2>1. ASSUME NEW i \in P
        PROVE  i + 1 \in R
    BY <1>1, <1>4
  <2> QED BY <2>1
<1> HIDE DEF f
<1>6. \A i, j \in P : f[i] = f[j] => i = j
  BY <1>4, <1>5
<1>7. ASSUME NEW q \in R
      PROVE  \E i \in P : f[i] = q
  <2>1. q - 1 \in P /\ (q - 1) + 1 = q
    BY <1>1, <1>4
  <2> QED BY <1>5, <2>1
<1>8. ExistsBijection(P, R)
  <2>1. f \in Injection(P, R)
    BY <1>5, <1>6 DEF Injection, IsInjective
  <2>2. f \in Surjection(P, R)
    BY <1>5, <1>7 DEF Surjection
  <2> QED BY <2>1, <2>2 DEF ExistsBijection, Bijection
<1>9. Cardinality(R) = Cardinality(P)
  BY <1>3, <1>8, FS_Bijection
<1>10. Cardinality(R) = IF 1 \in Q THEN Cardinality(Q) - 1 ELSE Cardinality(Q)
  BY <1>3, FS_RemoveElement
<1>11. 1 \in Q <=> Head(s) = d
  BY <1>1, <1>4
<1> QED BY <1>3, <1>9, <1>10, <1>11 DEF Bit, P, Q, r

(* With a descriptor put in front.                                         *)
LEMMA PlacesCons ==
    ASSUME NEW s \in Seq(Fds), NEW e \in Fds, NEW d
    PROVE  /\ <<e>> \o s \in Seq(Fds) /\ <<e>> \o s # <<>>
           /\ Cardinality(Places(<<e>> \o s, d)) = Bit(e = d) + Cardinality(Places(s, d))
<1> DEFINE c == <<e>> \o s
<1>1. c \in Seq(Fds) /\ Len(c) = Len(s) + 1 /\ Len(s) \in Nat
  OBVIOUS
<1>2. c # <<>>
  BY <1>1
<1>3. Head(c) = e /\ Tail(c) = s
  <2>1. c[1] = e
    OBVIOUS
  <2>2. \A i \in 1 .. Len(s) : c[i + 1] = s[i]
    OBVIOUS
  <2>3. Head(c) = c[1] /\ Tail(c) \in Seq(Fds) /\ Len(Tail(c)) = Len(s)
        /\ \A i \in 1 .. Len(s) : Tail(c)[i] = c[i + 1]
    <3> HIDE DEF c
    <3> QED BY <1>1, <1>2, HeadTailProperties
  <2>4. Tail(c) = s
    <3> HIDE DEF c
    <3> DEFINE b == Tail(c)
    <3>1. b \in Seq(Fds) /\ Len(b) = Len(s) /\ \A i \in 1 .. Len(s) : b[i] = s[i]
      BY <2>2, <2>3
    <3> HIDE DEF b
    <3>2. b = s
      BY <3>1, SeqEqual
    <3> QED BY <3>2 DEF b
  <2> QED BY <2>1, <2>3, <2>4
<1> HIDE DEF c
<1>4. Cardinality(Places(c, d)) = Bit(e = d) + Cardinality(Places(s, d))
  <2>1. Cardinality(Places(c, d)) = Bit(Head(c) = d) + Cardinality(Places(Tail(c), d))
    BY <1>1, <1>2, PlacesHead
  <2> QED BY <1>3, <2>1
<1> QED BY <1>1, <1>2, <1>4 DEF c

(* In the list of the descriptors of an io context: once for every slot.   *)
LEMMA PlacesDescriptors ==
    ASSUME NEW slots \in [FdSlots -> Fds \cup {None}]
    PROVE  /\ Descriptors(slots) \in Seq(Fds)
           /\ \A d \in Fds : Cardinality(Places(Descriptors(slots), d))
                                = Cardinality({s \in FdSlots : slots[s] = d})
<1> DEFINE used == {s \in FdSlots : slots[s] # None}
           n == Cardinality(used)
           Up(p) == \A i, j \in DOMAIN p : i < j => p[i] < p[j]
           place == CHOOSE p \in [1 .. n -> used] : Up(p)
<1>1. used \in SUBSET Nat /\ IsFiniteSet(used) /\ n \in Nat
  <2>1. IsFiniteSet(FdSlots) /\ FdSlots \subseteq Nat
    BY VfsAssumption, FS_Interval DEF FdSlots
  <2>2. IsFiniteSet(used)
    BY <2>1, FS_Subset
  <2> QED BY <2>1, <2>2, FS_CardinalityType
<1>2. Descriptors(slots) = [i \in DOMAIN place |-> slots[place[i]]]
  BY DEF Descriptors
<1>u. \A s : s \in used <=> s \in FdSlots /\ slots[s] # None
  OBVIOUS
<1> HIDE DEF used
<1>3. \E p \in [1 .. n -> used] : Up(p)
  BY <1>1, SortedEnumeration
<1>4. place \in [1 .. n -> used] /\ Up(place)
  BY <1>3
<1> HIDE DEF place, n
<1>5. DOMAIN place = 1 .. n /\ \A i \in 1 .. n : place[i] \in used
  BY <1>4
<1> DEFINE L == Descriptors(slots)
<1>6. L \in Seq(Fds) /\ DOMAIN L = 1 .. n /\ \A i \in 1 .. n : L[i] = slots[place[i]]
  <2>1. L = [i \in 1 .. n |-> slots[place[i]]]
    BY <1>2, <1>5
  <2>2. \A i \in 1 .. n : slots[place[i]] \in Fds
    BY <1>5, <1>u
  <2>3. [i \in 1 .. n |-> slots[place[i]]] \in Seq(Fds)
    BY <1>1, <2>2 DEF n
  <2> QED BY <2>1, <2>3
<1>7. \A i, j \in 1 .. n : place[i] = place[j] => i = j
  <2>1. ASSUME NEW i \in 1 .. n, NEW j \in 1 .. n, i # j
        PROVE  place[i] # place[j]
    <3>1. place[i] \in Nat /\ place[j] \in Nat
      BY <1>1, <1>5
    <3>2. i < j \/ j < i
      BY <1>1, <2>1 DEF n
    <3>3. place[i] < place[j] \/ place[j] < place[i]
      BY <1>4, <1>5, <3>2
    <3> QED BY <3>1, <3>3
  <2> QED BY <2>1
<1>8. \A s \in used : \E i \in 1 .. n : place[i] = s
  <2>1. place \in Injection(1 .. n, used)
    BY <1>4, <1>5, <1>7 DEF Injection, IsInjective
  <2>2. n \in Int /\ n = Cardinality(used)
    BY <1>1 DEF n
  <2>3. IsFiniteSet(1 .. n) /\ Cardinality(1 .. n) = n
    <3>0. n \in Nat
      BY <1>1 DEF n
    <3> HIDE DEF n
    <3>1. \A a, b \in Int : IsFiniteSet(a .. b) /\ Cardinality(a .. b) = IF a > b THEN 0 ELSE b - a + 1
      BY FS_Interval
    <3>2. IsFiniteSet(1 .. n) /\ Cardinality(1 .. n) = IF 1 > n THEN 0 ELSE n - 1 + 1
      BY <3>0, <3>1
    <3> QED BY <3>0, <3>2
  <2>4. place \in Surjection(1 .. n, used)
    BY <1>1, <2>1, <2>2, <2>3, FS_Injection
  <2> QED BY <2>4 DEF Surjection
<1>9. ASSUME NEW d \in Fds
      PROVE  Cardinality(Places(L, d)) = Cardinality({s \in FdSlots : slots[s] = d})
  <2> DEFINE P == Places(L, d)
             Q == {s \in FdSlots : slots[s] = d}
             f == [i \in P |-> place[i]]
  <2>1. \A i : i \in P <=> i \in 1 .. n /\ slots[place[i]] = d
    BY <1>6 DEF Places
  <2>2. \A s : s \in Q <=> s \in used /\ slots[s] = d
    BY <1>u, VfsAssumption
  <2>3. IsFiniteSet(P)
    BY <1>6, PlacesFinite
  <2> HIDE DEF P, Q, L
  <2>4. f \in [P -> Q] /\ \A i \in P : f[i] = place[i]
    BY <1>5, <2>1, <2>2
  <2> HIDE DEF f
  <2>5. f \in Injection(P, Q)
    BY <1>7, <2>1, <2>4 DEF Injection, IsInjective
  <2>6. ASSUME NEW s \in Q
        PROVE  \E i \in P : f[i] = s
    BY <1>8, <2>1, <2>2, <2>4
  <2>7. f \in Surjection(P, Q)
    BY <2>4, <2>6 DEF Surjection
  <2>8. ExistsBijection(P, Q)
    BY <2>5, <2>7 DEF ExistsBijection, Bijection
  <2>9. Cardinality(Q) = Cardinality(P)
    BY <2>3, <2>8, FS_Bijection
  <2> QED BY <2>9 DEF P, Q
<1> QED BY <1>6, <1>9

-----------------------------------------------------------------------------
(* Who refers to a vnode.                                                  *)

WalksOn(t, v) == \/ th[t].pc \in {"got", "found"} /\ table[th[t].file] = v
                 \/ th[t].pc \in {"have", "dec"} /\ th[t].node = v
Describes(d, v) == d \in Fds \ lost /\ fd[d].alloc /\ fd[d].node = v
WorksIn(c, v) == c \in Contexts /\ cwd[c] = v

(* Holders counts them, and is zero when there is nobody.                  *)
LEMMA HoldersAre ==
    ASSUME NEW v
    PROVE  /\ IsFiniteSet(Walkers(v)) /\ IsFiniteSet(OpenOn(v)) /\ IsFiniteSet(CwdIn(v))
           /\ Holders(v) \in Nat
           /\ Holders(v) = 0 <=> /\ \A t \in Callers : ~WalksOn(t, v)
                                 /\ \A d \in Fds : ~Describes(d, v)
                                 /\ \A c \in Contexts : ~WorksIn(c, v)
<1>1. IsFiniteSet(Walkers(v)) /\ IsFiniteSet(OpenOn(v)) /\ IsFiniteSet(CwdIn(v))
  <2>1. IsFiniteSet(Contexts)
    <3>1. Contexts = {1} \cup {2}
      BY DEF Contexts
    <3> QED BY <3>1, FS_Singleton, FS_Union
  <2>2. /\ Walkers(v) \in SUBSET Callers /\ OpenOn(v) \in SUBSET Fds
        /\ CwdIn(v) \in SUBSET Contexts
    BY DEF Walkers, OpenOn, CwdIn
  <2> QED BY <2>1, <2>2, VfsAssumption, FS_Subset
<1>2. /\ Cardinality(Walkers(v)) \in Nat
      /\ Cardinality(Walkers(v)) = 0 <=> Walkers(v) = {}
      /\ Cardinality(OpenOn(v)) \in Nat
      /\ Cardinality(OpenOn(v)) = 0 <=> OpenOn(v) = {}
      /\ Cardinality(CwdIn(v)) \in Nat
      /\ Cardinality(CwdIn(v)) = 0 <=> CwdIn(v) = {}
  BY <1>1, CardPositive
<1>3. /\ Walkers(v) = {} <=> \A t \in Callers : ~WalksOn(t, v)
      /\ OpenOn(v) = {} <=> \A d \in Fds : ~Describes(d, v)
      /\ CwdIn(v) = {} <=> \A c \in Contexts : ~WorksIn(c, v)
  BY DEF Walkers, WalksOn, OpenOn, Describes, CwdIn, WorksIn
<1>4. /\ Holders(v) \in Nat
      /\ Holders(v) = 0 <=> Walkers(v) = {} /\ OpenOn(v) = {} /\ CwdIn(v) = {}
  BY <1>2 DEF Holders
<1> QED BY <1>1, <1>3, <1>4

(* A thread, a descriptor and an io context change.                        *)
LEMMA HoldersStep ==
    ASSUME NEW v, NEW t \in Callers, NEW d, NEW c,
           \A u \in Callers : u # t => (WalksOn(u, v)' <=> WalksOn(u, v)),
           \A e \in Fds : e # d => (Describes(e, v)' <=> Describes(e, v)),
           \A b \in Contexts : b # c => (WorksIn(b, v)' <=> WorksIn(b, v))
    PROVE  Holders(v)' = Holders(v) - Bit(WalksOn(t, v)) + Bit(WalksOn(t, v)')
                                    - Bit(Describes(d, v)) + Bit(Describes(d, v)')
                                    - Bit(WorksIn(c, v)) + Bit(WorksIn(c, v)')
<1>1. /\ Walkers(v) = {u \in Callers : WalksOn(u, v)}
      /\ Walkers(v)' = {u \in Callers : WalksOn(u, v)'}
  BY DEF Walkers, WalksOn
<1>2. /\ OpenOn(v) = {e \in Fds : Describes(e, v)}
      /\ OpenOn(v)' = {e \in Fds : Describes(e, v)'}
  BY DEF OpenOn, Describes
<1>3. /\ CwdIn(v) = {b \in Contexts : WorksIn(b, v)}
      /\ CwdIn(v)' = {b \in Contexts : WorksIn(b, v)'}
  BY DEF CwdIn, WorksIn
<1>4. /\ Walkers(v) \ {t} = Walkers(v)' \ {t} /\ OpenOn(v) \ {d} = OpenOn(v)' \ {d}
      /\ CwdIn(v) \ {c} = CwdIn(v)' \ {c}
  BY <1>1, <1>2, <1>3
<1>5. /\ t \in Walkers(v) <=> WalksOn(t, v)
      /\ t \in Walkers(v)' <=> WalksOn(t, v)'
      /\ d \in OpenOn(v) <=> Describes(d, v)
      /\ d \in OpenOn(v)' <=> Describes(d, v)'
      /\ c \in CwdIn(v) <=> WorksIn(c, v)
      /\ c \in CwdIn(v)' <=> WorksIn(c, v)'
  BY DEF Walkers, WalksOn, OpenOn, Describes, CwdIn, WorksIn
<1>6. IsFiniteSet(Walkers(v)) /\ IsFiniteSet(OpenOn(v)) /\ IsFiniteSet(CwdIn(v))
  BY HoldersAre
<1>7. /\ Cardinality(Walkers(v)) \in Nat
      /\ Cardinality(Walkers(v)') = Cardinality(Walkers(v)) - Bit(t \in Walkers(v))
                                                            + Bit(t \in Walkers(v)')
  BY <1>4, <1>6, CardOneElement
<1>8. /\ Cardinality(OpenOn(v)) \in Nat
      /\ Cardinality(OpenOn(v)') = Cardinality(OpenOn(v)) - Bit(d \in OpenOn(v))
                                                          + Bit(d \in OpenOn(v)')
  BY <1>4, <1>6, CardOneElement
<1>9. /\ Cardinality(CwdIn(v)) \in Nat
      /\ Cardinality(CwdIn(v)') = Cardinality(CwdIn(v)) - Bit(c \in CwdIn(v))
                                                        + Bit(c \in CwdIn(v)')
  BY <1>4, <1>6, CardOneElement
<1>10. /\ Bit(t \in Walkers(v)) = Bit(WalksOn(t, v))
       /\ Bit(t \in Walkers(v)') = Bit(WalksOn(t, v)')
       /\ Bit(d \in OpenOn(v)) = Bit(Describes(d, v))
       /\ Bit(d \in OpenOn(v)') = Bit(Describes(d, v)')
       /\ Bit(c \in CwdIn(v)) = Bit(WorksIn(c, v))
       /\ Bit(c \in CwdIn(v)') = Bit(WorksIn(c, v)')
  BY <1>5 DEF Bit
<1>11. /\ Bit(WalksOn(t, v)) \in Int /\ Bit(WalksOn(t, v)') \in Int
       /\ Bit(Describes(d, v)) \in Int /\ Bit(Describes(d, v)') \in Int
       /\ Bit(WorksIn(c, v)) \in Int /\ Bit(WorksIn(c, v)') \in Int
  BY DEF Bit
<1>12. /\ Holders(v) = Cardinality(Walkers(v)) + Cardinality(OpenOn(v)) + Cardinality(CwdIn(v))
       /\ Holders(v)' = Cardinality(Walkers(v)') + Cardinality(OpenOn(v)')
                          + Cardinality(CwdIn(v)')
  BY DEF Holders
<1> QED BY <1>7, <1>8, <1>9, <1>10, <1>11, <1>12

(* A count keeps up when it changes as the holders do.                     *)
LEMMA RefStep ==
    ASSUME RefInv, NEW t \in Callers, NEW d, NEW c, NEW v \in Nodes,
           \A u \in Callers : u # t => (WalksOn(u, v)' <=> WalksOn(u, v)),
           \A e \in Fds : e # d => (Describes(e, v)' <=> Describes(e, v)),
           \A b \in Contexts : b # c => (WorksIn(b, v)' <=> WorksIn(b, v)),
           Counted(v)' = Counted(v) - Bit(WalksOn(t, v)) + Bit(WalksOn(t, v)')
                                    - Bit(Describes(d, v)) + Bit(Describes(d, v)')
                                    - Bit(WorksIn(c, v)) + Bit(WorksIn(c, v)')
    PROVE  (Holders(v) = Counted(v))'
<1>1. Holders(v) = Counted(v)
  BY DEF RefInv
<1>2. Holders(v)' = Holders(v) - Bit(WalksOn(t, v)) + Bit(WalksOn(t, v)')
                               - Bit(Describes(d, v)) + Bit(Describes(d, v)')
                               - Bit(WorksIn(c, v)) + Bit(WorksIn(c, v)')
  BY HoldersStep
<1> QED BY <1>1, <1>2

-----------------------------------------------------------------------------
(* Who refers to a descriptor.                                             *)

InSlot(s, d) == s \in FdSlots /\ fds[1][s] = d

(* The calls that have to put a descriptor when one of them moves.         *)
LEMMA PutsStep ==
    ASSUME NEW t \in Callers, NEW d, IsFiniteSet(Puts(d)),
           th[t].todo \in Seq(Fds), th'[t].todo \in Seq(Fds),
           \A u \in Callers : u # t => th'[u].todo = th[u].todo
    PROVE  /\ IsFiniteSet(Puts(d)') /\ Cardinality(Puts(d)) \in Nat
           /\ Cardinality(Places(th[t].todo, d)) <= Cardinality(Puts(d))
           /\ Cardinality(Puts(d)') = Cardinality(Puts(d)) - Cardinality(Places(th[t].todo, d))
                                                           + Cardinality(Places(th'[t].todo, d))
<1> DEFINE A == Puts(d) \ ({t} \X Places(th[t].todo, d))
           P == {t} \X Places(th[t].todo, d)
           Q == {t} \X Places(th'[t].todo, d)
<1>1. \A q : q \in Puts(d) <=> \E u \in Callers : \E i \in Places(th[u].todo, d) : q = <<u, i>>
  BY DEF Puts
<1>2. \A q : q \in Puts(d)' <=> \E u \in Callers : \E i \in Places(th'[u].todo, d) : q = <<u, i>>
  BY DEF Puts, Places
<1>3. \A q : q \in A <=> \E u \in Callers : \E i \in Places(th[u].todo, d) : q = <<u, i>> /\ u # t
  BY <1>1
<1>4. /\ Puts(d) = A \cup P /\ A \cap P = {}
      /\ Puts(d)' = A \cup Q /\ A \cap Q = {}
  <2>1. \A q : q \in P <=> \E i \in Places(th[t].todo, d) : q = <<t, i>>
    OBVIOUS
  <2>2. \A q : q \in Q <=> \E i \in Places(th'[t].todo, d) : q = <<t, i>>
    OBVIOUS
  <2> HIDE DEF A, P, Q
  <2>3. Puts(d) = A \cup P
    BY <1>1, <1>3, <2>1
  <2>4. A \cap P = {} /\ A \cap Q = {}
    BY <1>3, <2>1, <2>2
  <2>5. Puts(d)' = A \cup Q
    BY <1>2, <1>3, <2>2
  <2> QED BY <2>3, <2>4, <2>5
<1>5. /\ IsFiniteSet(P) /\ Cardinality(P) = Cardinality(Places(th[t].todo, d))
      /\ IsFiniteSet(Q) /\ Cardinality(Q) = Cardinality(Places(th'[t].todo, d))
      /\ Cardinality(P) \in Nat /\ Cardinality(Q) \in Nat
  BY PlacesFinite, CardPairs
<1>6. IsFiniteSet(A)
  BY FS_Subset
<1> HIDE DEF A, P, Q
<1>7. Cardinality(A) \in Nat
  BY <1>6, FS_CardinalityType
<1>8. /\ IsFiniteSet(A \cup P)
      /\ Cardinality(A \cup P) = Cardinality(A) + Cardinality(P) - Cardinality(A \cap P)
  BY <1>5, <1>6, FS_Union
<1>9. /\ IsFiniteSet(A \cup Q)
      /\ Cardinality(A \cup Q) = Cardinality(A) + Cardinality(Q) - Cardinality(A \cap Q)
  BY <1>5, <1>6, FS_Union
<1>10. Cardinality(A \cap P) = 0 /\ Cardinality(A \cap Q) = 0
  BY <1>4, FS_EmptySet
<1> QED BY <1>4, <1>5, <1>7, <1>8, <1>9, <1>10

(* What a reference of each kind adds.                                     *)
LEMMA RefsAre ==
    ASSUME NEW d, IsFiniteSet(Puts(d))
    PROVE  /\ \A c \in Contexts : /\ IsFiniteSet(SlotsWith(c, d))
                                  /\ Cardinality(SlotsWith(c, d)) \in Nat
                                  /\ Cardinality(SlotsWith(c, d)) = 0
                                         <=> \A s \in FdSlots : fds[c][s] # d
           /\ Cardinality(Puts(d)) \in Nat
           /\ Cardinality(Puts(d)) = 0
                <=> \A t \in Callers : \A i \in DOMAIN th[t].todo : th[t].todo[i] # d
           /\ Refs(d) \in Nat
           /\ Refs(d) = Cardinality(SlotsWith(1, d)) + Cardinality(SlotsWith(2, d))
                          + Cardinality(Puts(d))
<1>1. ASSUME NEW c \in Contexts
      PROVE  /\ IsFiniteSet(SlotsWith(c, d))
             /\ Cardinality(SlotsWith(c, d)) \in Nat
             /\ Cardinality(SlotsWith(c, d)) = 0 <=> \A s \in FdSlots : fds[c][s] # d
  <2>1. IsFiniteSet(FdSlots)
    BY VfsAssumption, FS_Interval DEF FdSlots
  <2>2. SlotsWith(c, d) \in SUBSET FdSlots
    BY DEF SlotsWith
  <2>3. IsFiniteSet(SlotsWith(c, d))
    BY <2>1, <2>2, FS_Subset
  <2>4. SlotsWith(c, d) = {} <=> \A s \in FdSlots : fds[c][s] # d
    BY DEF SlotsWith
  <2> QED BY <2>3, <2>4, CardPositive
<1>2. /\ Cardinality(Puts(d)) \in Nat
      /\ Cardinality(Puts(d)) = 0
           <=> \A t \in Callers : \A i \in DOMAIN th[t].todo : th[t].todo[i] # d
  <2>1. \A q : q \in Puts(d) <=> \E u \in Callers : \E i \in Places(th[u].todo, d) : q = <<u, i>>
    BY DEF Puts
  <2>2. \A u, i : i \in Places(th[u].todo, d) <=> i \in DOMAIN th[u].todo /\ th[u].todo[i] = d
    BY DEF Places
  <2>3. Puts(d) = {} <=> \A t \in Callers : \A i \in DOMAIN th[t].todo : th[t].todo[i] # d
    BY <2>1, <2>2
  <2> QED BY <2>3, CardPositive
<1>3. Refs(d) = Cardinality(SlotsWith(1, d)) + Cardinality(SlotsWith(2, d)) + Cardinality(Puts(d))
  BY DEF Refs
<1>4. 1 \in Contexts /\ 2 \in Contexts
  BY DEF Contexts
<1> QED BY <1>1, <1>2, <1>3, <1>4

(* A slot of the first io context and a call change.                       *)
LEMMA RefsStep ==
    ASSUME NEW t \in Callers, NEW d, NEW s, IsFiniteSet(Puts(d)),
           th[t].todo \in Seq(Fds), th'[t].todo \in Seq(Fds),
           \A u \in Callers : u # t => th'[u].todo = th[u].todo,
           \A r \in FdSlots : r # s => fds'[1][r] = fds[1][r],
           \A r \in FdSlots : fds'[2][r] = fds[2][r]
    PROVE  /\ IsFiniteSet(Puts(d)') /\ Refs(d) \in Nat
           /\ Refs(d)' = Refs(d) - Bit(InSlot(s, d)) + Bit(InSlot(s, d)')
                                 - Cardinality(Places(th[t].todo, d))
                                 + Cardinality(Places(th'[t].todo, d))
<1>1. /\ IsFiniteSet(Puts(d)') /\ Cardinality(Puts(d)) \in Nat
      /\ Cardinality(Puts(d)') = Cardinality(Puts(d)) - Cardinality(Places(th[t].todo, d))
                                                      + Cardinality(Places(th'[t].todo, d))
  BY PutsStep
<1>2. /\ IsFiniteSet(SlotsWith(1, d)) /\ Cardinality(SlotsWith(1, d)) \in Nat
      /\ Cardinality(SlotsWith(2, d)) \in Nat /\ Refs(d) \in Nat
  <2>1. 1 \in Contexts /\ 2 \in Contexts
    BY DEF Contexts
  <2> QED BY <2>1, RefsAre
<1>3. SlotsWith(2, d)' = SlotsWith(2, d)
  BY DEF SlotsWith
<1>4. SlotsWith(1, d)' \ {s} = SlotsWith(1, d) \ {s}
  BY DEF SlotsWith
<1>5. Cardinality(SlotsWith(1, d)') = Cardinality(SlotsWith(1, d)) - Bit(s \in SlotsWith(1, d))
                                                                   + Bit(s \in SlotsWith(1, d)')
  BY <1>2, <1>4, CardOneElement
<1>6. /\ s \in SlotsWith(1, d) <=> InSlot(s, d)
      /\ s \in SlotsWith(1, d)' <=> InSlot(s, d)'
  BY DEF SlotsWith, InSlot
<1>7. /\ Bit(s \in SlotsWith(1, d)) = Bit(InSlot(s, d)) /\ Bit(InSlot(s, d)) \in Int
      /\ Bit(s \in SlotsWith(1, d)') = Bit(InSlot(s, d)') /\ Bit(InSlot(s, d)') \in Int
  BY <1>6 DEF Bit
<1>8. /\ Cardinality(Places(th[t].todo, d)) \in Nat
      /\ Cardinality(Places(th'[t].todo, d)) \in Nat
  BY PlacesFinite
<1>9. /\ Refs(d) = Cardinality(SlotsWith(1, d)) + Cardinality(SlotsWith(2, d))
                     + Cardinality(Puts(d))
      /\ Refs(d)' = Cardinality(SlotsWith(1, d)') + Cardinality(SlotsWith(2, d)')
                      + Cardinality(Puts(d)')
  BY DEF Refs
<1>10. SlotsWith(2, d)' = SlotsWith(2, d) => Cardinality(SlotsWith(2, d)') = Cardinality(SlotsWith(2, d))
  OBVIOUS
<1>11. Refs(d)' = Refs(d) - Bit(InSlot(s, d)) + Bit(InSlot(s, d)')
                          - Cardinality(Places(th[t].todo, d))
                          + Cardinality(Places(th'[t].todo, d))
  <2>1. Cardinality(SlotsWith(1, d)') = Cardinality(SlotsWith(1, d)) - Bit(InSlot(s, d))
                                                                     + Bit(InSlot(s, d)')
    BY <1>5, <1>7
  <2>2. Refs(d)' = Cardinality(SlotsWith(1, d)') + Cardinality(SlotsWith(2, d))
                     + Cardinality(Puts(d)')
    BY <1>9, <1>10, <1>3
  <2>3. Refs(d)' = (Cardinality(SlotsWith(1, d)) - Bit(InSlot(s, d)) + Bit(InSlot(s, d)'))
                     + Cardinality(SlotsWith(2, d))
                     + (Cardinality(Puts(d)) - Cardinality(Places(th[t].todo, d))
                          + Cardinality(Places(th'[t].todo, d)))
    BY <1>1, <2>1, <2>2
  <2>4. Refs(d) = Cardinality(SlotsWith(1, d)) + Cardinality(SlotsWith(2, d))
                    + Cardinality(Puts(d))
    BY <1>9
  <2>5. \A i, j, k, x, y, p, q \in Int :
           (i - x + y) + j + (k - p + q) = (i + j + k) - x + y - p + q
    OBVIOUS
  <2>6. /\ Cardinality(SlotsWith(1, d)) \in Int /\ Cardinality(SlotsWith(2, d)) \in Int
        /\ Cardinality(Puts(d)) \in Int
        /\ Bit(InSlot(s, d)) \in Int /\ Bit(InSlot(s, d)') \in Int
        /\ Cardinality(Places(th[t].todo, d)) \in Int
        /\ Cardinality(Places(th'[t].todo, d)) \in Int
    BY <1>1, <1>2, <1>7, <1>8
  <2> QED BY SMTT(30), <2>3, <2>4, <2>5, <2>6
<1> QED BY <1>1, <1>2, <1>11

-----------------------------------------------------------------------------
(* What the parts of the invariant need of a step.                         *)

(* One thread moves to a place with the local variables r.                 *)
LEMMA ThreadsStep ==
    ASSUME ThreadsInv, NEW t \in Callers, NEW r, th' = [th EXCEPT ![t] = r],
           r \in VThread, VShape(r)
    PROVE  /\ ThreadsInv' /\ th'[t] = r
           /\ \A u \in Callers : u # t => th'[u] = th[u]
<1>1. th \in [Callers -> VThread] /\ \A u \in Callers : VShape(th[u])
  BY DEF ThreadsInv
<1>2. th'[t] = r /\ \A u \in Callers : u # t => th'[u] = th[u]
  BY <1>1
<1>3. th' \in [Callers -> VThread]
  BY <1>1
<1>4. \A u \in Callers : VShape(th'[u])
  BY <1>1, <1>2
<1>5. ThreadsInv'
  BY <1>3, <1>4 DEF ThreadsInv, VShape
<1> QED BY <1>2, <1>5

(* No vnode comes, goes or changes its state.                              *)
LEMMA VnodesKeep ==
    ASSUME TableInv, DelInv, BusyInv, NEW t \in Callers,
           \A v \in Nodes : /\ vnode'[v].alloc = vnode[v].alloc
                            /\ vnode'[v].file = vnode[v].file
                            /\ vnode'[v].busy = vnode[v].busy
                            /\ ~vnode[v].alloc => vnode'[v] = vnode[v]
                            /\ vnode'[v].alloc /\ vnode'[v].del =>
                                  vnode[v].del \/ vnode[v].file \notin linked',
           table' = table, linked' \subseteq linked,
           \A f \in Files : table[f] # None => table[f] \in Nodes,
           \A u \in Callers : th'[u].pc \in BusyPcs => th'[u].node \in Nodes,
           \A u \in Callers : u # t => th'[u] = th[u],
           th'[t].pc \in BusyPcs => /\ th[t].pc \in BusyPcs /\ th'[t].node = th[t].node
                                    /\ th'[t].pc = "read" => th'[t] = th[t],
           th'[t].pc \in {"got", "found"} => table[th'[t].file] # None
    PROVE  TableInv' /\ DelInv' /\ BusyInv'
<1>1. TableInv'
  BY DEF TableInv
<1>2. DelInv'
  BY DEF DelInv
<1>3. BusyInv'
  <2>1. ASSUME NEW u \in Callers, th'[u].pc \in BusyPcs
        PROVE  /\ th[u].pc \in BusyPcs /\ th'[u].node = th[u].node
               /\ vnode'[th'[u].node].alloc /\ vnode'[th'[u].node].busy
               /\ th'[u].pc = "read" => vnode'[th'[u].node].file = th'[u].file
    <3>1. /\ th[u].pc \in BusyPcs /\ th'[u].node = th[u].node
          /\ th'[u].pc = "read" => th'[u] = th[u]
      BY <2>1
    <3>2. th[u].node \in Nodes
      BY <2>1, <3>1
    <3>3. /\ vnode[th[u].node].alloc /\ vnode[th[u].node].busy
          /\ th[u].pc = "read" => vnode[th[u].node].file = th[u].file
      BY <3>1 DEF BusyInv
    <3> QED BY <3>1, <3>2, <3>3
  <2>2. ASSUME NEW u \in Callers, NEW w \in Callers, th'[u].pc \in BusyPcs,
               th'[w].pc \in BusyPcs, th'[u].node = th'[w].node
        PROVE  u = w
    BY <2>1, <2>2 DEF BusyInv
  <2>3. \A u \in Callers : th'[u].pc \in {"got", "found"} => table'[th'[u].file] # None
    BY DEF BusyInv
  <2> QED BY <2>1, <2>2, <2>3 DEF BusyInv
<1> QED BY <1>1, <1>2, <1>3

(* No descriptor changes and no call that has one.                         *)
LEMMA DescFrame ==
    ASSUME CountInv, OpenInv, FreeInv, NEW t \in Callers,
           fd' = fd, fds' = fds, leaked' = leaked, lost' = lost,
           \A u \in Callers : u # t => th'[u] = th[u],
           th'[t].todo = th[t].todo, th'[t].freeing = th[t].freeing,
           ~Opens(th'[t])
    PROVE  CountInv' /\ OpenInv' /\ FreeInv'
<1>1. CountInv'
  <2>1. ASSUME NEW d \in Fds
        PROVE  Puts(d)' = Puts(d) /\ Refs(d)' = Refs(d)
    <3>1. \A u \in Callers : th'[u].todo = th[u].todo
      OBVIOUS
    <3>2. Puts(d)' = Puts(d)
      BY <3>1 DEF Puts, Places
    <3>3. SlotsWith(1, d)' = SlotsWith(1, d) /\ SlotsWith(2, d)' = SlotsWith(2, d)
      BY DEF SlotsWith
    <3> QED BY <3>2, <3>3 DEF Refs
  <2> QED BY <2>1 DEF CountInv, CountOf
<1>2. OpenInv'
  BY DEF OpenInv
<1>3. FreeInv'
  <2>1. \A u \in Callers : th'[u].freeing = th[u].freeing
    OBVIOUS
  <2> QED BY <2>1 DEF FreeInv
<1> QED BY <1>1, <1>2, <1>3

(* The vnode that a call refers to at the place r.                         *)
WalksWith(r, v) == \/ r.pc \in {"got", "found"} /\ table[r.file] = v
                   \/ r.pc \in {"have", "dec"} /\ r.node = v

(* Only a thread moves; it refers to the same vnode.                       *)
LEMMA ThreadMoves ==
    ASSUME VfsInductive, NEW t \in Callers, NEW r, th' = [th EXCEPT ![t] = r],
           r \in VThread, VShape(r), UNCHANGED <<vfsVars, linked, ioVars>>,
           exists' \subseteq Files, fslock' \in Callers \cup {None},
           r.todo = th[t].todo, r.freeing = th[t].freeing,
           ~Opens(r),
           r.pc \in BusyPcs => /\ th[t].pc \in BusyPcs /\ r.node = th[t].node
                               /\ r.pc = "read" => r = th[t],
           r.pc \in {"got", "found"} => table[r.file] # None,
           \A v \in Nodes : WalksWith(r, v) <=> WalksOn(t, v)
    PROVE  VfsInductive'
<1>1. StateInv'
  <2>1. StateInv
    BY DEF VfsInductive
  <2> QED BY <2>1 DEF StateInv, vfsVars, ioVars
<1>2. ThreadsInv' /\ th'[t] = r /\ \A u \in Callers : u # t => th'[u] = th[u]
  BY ThreadsStep DEF VfsInductive
<1>3. TableInv' /\ DelInv' /\ BusyInv'
  <2>1. \A u \in Callers : th'[u].pc \in BusyPcs => th'[u].node \in Nodes
    BY <1>2 DEF ThreadsInv, VShape, BusyPcs, NodePcs
  <2>2. \A f \in Files : table[f] # None => table[f] \in Nodes
    BY DEF VfsInductive, StateInv
  <2>3. /\ TableInv /\ DelInv /\ BusyInv
        /\ vnode' = vnode /\ table' = table /\ linked' = linked
    BY DEF VfsInductive, NodesInv, vfsVars
  <2>4. \A v \in Nodes : vnode'[v].alloc /\ vnode'[v].del =>
                            vnode[v].del \/ vnode[v].file \notin linked'
    BY <2>3
  <2> QED BY <1>2, <2>1, <2>2, <2>3, <2>4, VnodesKeep
<1>4. RefInv'
  <2>1. RefInv /\ vnode' = vnode /\ table' = table /\ fd' = fd /\ lost' = lost /\ cwd' = cwd
    BY DEF VfsInductive, NodesInv, vfsVars, ioVars
  <2>2. ASSUME NEW v \in Nodes
        PROVE  /\ \A u \in Callers : WalksOn(u, v)' <=> WalksOn(u, v)
               /\ \A e : Describes(e, v)' <=> Describes(e, v)
               /\ \A b : WorksIn(b, v)' <=> WorksIn(b, v)
               /\ Counted(v)' = Counted(v)
    <3>1. ASSUME NEW u \in Callers
          PROVE  WalksOn(u, v)' <=> WalksOn(u, v)
      <4>1. WalksOn(u, v)' <=> WalksWith(th'[u], v)
        BY <2>1 DEF WalksOn, WalksWith
      <4>2. WalksOn(u, v) <=> WalksWith(th[u], v)
        BY DEF WalksOn, WalksWith
      <4> QED BY <1>2, <4>1, <4>2
    <3> QED BY <2>1, <3>1 DEF Describes, WorksIn, Counted
  <2>3. ASSUME NEW v \in Nodes
        PROVE  Holders(v)' = Holders(v)
    <3>1. Walkers(v)' = Walkers(v)
      <4>1. Walkers(v) = {u \in Callers : WalksOn(u, v)}
            /\ Walkers(v)' = {u \in Callers : WalksOn(u, v)'}
        BY DEF Walkers, WalksOn
      <4> QED BY <2>2, <4>1
    <3>2. OpenOn(v)' = OpenOn(v) /\ CwdIn(v)' = CwdIn(v)
      BY <2>1 DEF OpenOn, CwdIn
    <3> QED BY <3>1, <3>2 DEF Holders
  <2> QED BY <2>1, <2>2, <2>3 DEF RefInv
<1>5. CountInv' /\ OpenInv' /\ FreeInv'
  <2>1. CountInv /\ OpenInv /\ FreeInv
    BY DEF VfsInductive, DescInv
  <2>2. fd' = fd /\ fds' = fds /\ leaked' = leaked /\ lost' = lost
    BY DEF ioVars
  <2> QED BY <1>2, <2>1, <2>2, DescFrame
<1>6. ChildInv'
  BY DEF VfsInductive, DescInv, ChildInv, ioVars
<1> QED BY <1>1, <1>2, <1>3, <1>4, <1>5, <1>6 DEF VfsInductive, NodesInv, DescInv

(* The places where a call goes on.                                        *)
LEMMA VfsRecords ==
    /\ Idle \in VThread /\ VShape(Idle)
    /\ Idle.todo = <<>> /\ Idle.freeing = None /\ Idle.pc = "run"
    /\ \A todo \in Seq(Fds) :
          /\ Rest(todo) \in VThread /\ VShape(Rest(todo))
          /\ Rest(todo).todo = todo /\ Rest(todo).freeing = None
          /\ Rest(todo).pc \in {"run", "put"}
    /\ \A todo \in Seq(Fds), v \in Nodes :
          /\ Drop(v, todo) \in VThread /\ VShape(Drop(v, todo))
          /\ Drop(v, todo).todo = todo /\ Drop(v, todo).freeing = None
          /\ Drop(v, todo).pc = "dec" /\ Drop(v, todo).node = v
<1>1. /\ Idle \in VThread /\ VShape(Idle)
      /\ Idle.todo = <<>> /\ Idle.freeing = None /\ Idle.pc = "run"
  BY DEF Idle, VThread, VShape, VfsPcs, WalkPcs, NodePcs, FreePcs
<1>2. ASSUME NEW todo \in Seq(Fds), todo # <<>>
      PROVE  /\ Rest(todo) \in VThread /\ VShape(Rest(todo))
             /\ Rest(todo).todo = todo /\ Rest(todo).freeing = None
             /\ Rest(todo).pc \in {"run", "put"}
  <2>1. Rest(todo) = [pc |-> "put", op |-> "none", file |-> None, node |-> None, slot |-> 0,
                      todo |-> todo, freeing |-> None]
    BY <1>2 DEF Rest, Idle
  <2> QED BY <1>2, <2>1 DEF VThread, VShape, VfsPcs, WalkPcs, NodePcs, FreePcs
<1>3. Rest(<<>>) = Idle
  BY DEF Rest
<1>4. ASSUME NEW todo \in Seq(Fds), NEW v \in Nodes
      PROVE  /\ Drop(v, todo) \in VThread /\ VShape(Drop(v, todo))
             /\ Drop(v, todo).todo = todo /\ Drop(v, todo).freeing = None
             /\ Drop(v, todo).pc = "dec" /\ Drop(v, todo).node = v
  <2>1. /\ Drop(v, todo) \in VThread
        /\ Drop(v, todo).todo = todo /\ Drop(v, todo).freeing = None
        /\ Drop(v, todo).pc = "dec" /\ Drop(v, todo).node = v
    BY <1>1 DEF Drop, VThread, VfsPcs
  <2> QED BY <2>1 DEF VShape, WalkPcs, NodePcs, FreePcs
<1> QED BY <1>1, <1>2, <1>3, <1>4

(* A call that has only the vnode left to put.                             *)
LEMMA DropsLast ==
    ASSUME NEW v \in Nodes
    PROVE  /\ Drop(v, <<>>) \in VThread /\ VShape(Drop(v, <<>>))
           /\ Drop(v, <<>>).todo = <<>> /\ Drop(v, <<>>).freeing = None
           /\ Drop(v, <<>>).pc = "dec" /\ Drop(v, <<>>).node = v
<1> DEFINE l == <<>>
<1>1. l \in Seq(Fds)
  OBVIOUS
<1> HIDE DEF l
<1>2. /\ Drop(v, l) \in VThread /\ VShape(Drop(v, l))
      /\ Drop(v, l).todo = l /\ Drop(v, l).freeing = None
      /\ Drop(v, l).pc = "dec" /\ Drop(v, l).node = v
  BY <1>1, VfsRecords
<1> QED BY <1>2 DEF l

-----------------------------------------------------------------------------
(* The steps of a path walk and of a call that only move the thread.       *)

(* The start of a path walk.                                               *)
LEMMA WalkMoves ==
    ASSUME VfsInductive, NEW t \in Callers, NEW op \in {"open", "cwd"}, NEW f \in Files,
           Walk(t, op, f)
    PROVE  VfsInductive'
<1> DEFINE r == [Idle EXCEPT !.pc = "lookup", !.op = op, !.file = f]
<1>1. th' = [th EXCEPT ![t] = r] /\ UNCHANGED <<vfsVars, fsVars, ioVars>> /\ th[t].pc = "run"
  BY DEF Walk, At
<1>2. /\ r \in VThread /\ r.pc = "lookup" /\ r.op = op /\ r.file = f
      /\ r.todo = <<>> /\ r.freeing = None
  <2>1. Idle \in VThread /\ Idle.todo = <<>> /\ Idle.freeing = None
    BY VfsRecords
  <2> QED BY <2>1 DEF VThread, VfsPcs
<1> HIDE DEF r
<1>3. r \in VThread /\ VShape(r)
  BY <1>2 DEF VShape, VfsPcs, WalkPcs, NodePcs, FreePcs
<1>4. th[t] = Idle
  BY <1>1 DEF VfsInductive, ThreadsInv, VShape
<1>5. /\ exists' \subseteq Files /\ fslock' \in Callers \cup {None}
      /\ UNCHANGED <<vfsVars, linked, ioVars>>
  BY <1>1 DEF VfsInductive, StateInv, fsVars
<1>6. \A v \in Nodes : WalksWith(r, v) <=> WalksOn(t, v)
  BY <1>1, <1>2 DEF WalksWith, WalksOn
<1>7. r.todo = th[t].todo /\ r.freeing = th[t].freeing /\ r.pc = "lookup"
  BY <1>2, <1>4, VfsRecords
<1> QED BY <1>1, <1>3, <1>5, <1>6, <1>7, ThreadMoves DEF BusyPcs, Opens

(* What is known of the variables of a thread.                             *)
LEMMA ThreadIs ==
    ASSUME VfsInductive, NEW t \in Callers
    PROVE  /\ th \in [Callers -> VThread] /\ th[t] \in VThread /\ VShape(th[t])
           /\ th[t].todo \in Seq(Fds)
           /\ th[t] = [pc |-> th[t].pc, op |-> th[t].op, file |-> th[t].file,
                       node |-> th[t].node, slot |-> th[t].slot, todo |-> th[t].todo,
                       freeing |-> th[t].freeing]
<1>1. th \in [Callers -> VThread] /\ th[t] \in VThread /\ VShape(th[t])
  BY DEF VfsInductive, ThreadsInv
<1> QED BY <1>1 DEF VThread

(* The file is looked up in its directory.                                 *)
LEMMA LookupMoves ==
    ASSUME VfsInductive, NEW t \in Callers, RootfsLookup(t)
    PROVE  VfsInductive'
<1> DEFINE r == IF th[t].file \in linked THEN [th[t] EXCEPT !.pc = "get"] ELSE Idle
<1>1. /\ th' = [th EXCEPT ![t] = r] /\ UNCHANGED <<vfsVars, linked, exists, ioVars>>
      /\ th[t].pc = "lookup" /\ fslock' \in Callers \cup {None}
  BY ThreadIs DEF RootfsLookup, At
<1>2. th[t] \in VThread /\ VShape(th[t])
  BY ThreadIs
<1>3. th[t].todo = <<>> /\ th[t].freeing = None
  BY <1>1, <1>2 DEF VShape, WalkPcs, FreePcs
<1>4. /\ r \in VThread /\ VShape(r) /\ r.pc \in {"get", "run"}
      /\ r.todo = <<>> /\ r.freeing = None
  <2>1. CASE th[t].file \in linked
    <3>1. r = [th[t] EXCEPT !.pc = "get"]
      BY <2>1
    <3> HIDE DEF r
    <3> QED BY <1>1, <1>2, <1>3, <3>1
         DEF VThread, VShape, VfsPcs, WalkPcs, NodePcs, FreePcs
  <2>2. CASE th[t].file \notin linked
    BY <2>2, VfsRecords
  <2> QED BY <2>1, <2>2
<1> HIDE DEF r
<1>5. exists' \subseteq Files
  BY <1>1 DEF VfsInductive, StateInv
<1>6. \A v \in Nodes : WalksWith(r, v) <=> WalksOn(t, v)
  BY <1>1, <1>4 DEF WalksWith, WalksOn
<1>7. r.todo = th[t].todo /\ r.freeing = th[t].freeing
  BY <1>3, <1>4
<1> QED BY <1>1, <1>4, <1>5, <1>6, <1>7, ThreadMoves DEF BusyPcs, Opens

(* The file system is done.                                                *)
LEMMA LookupDoneMoves ==
    ASSUME VfsInductive, NEW t \in Callers, LookupDone(t)
    PROVE  VfsInductive'
<1> DEFINE r == [th[t] EXCEPT !.pc = "found"]
<1>1. /\ th' = [th EXCEPT ![t] = r] /\ UNCHANGED <<vfsVars, linked, exists, ioVars>>
      /\ th[t].pc = "got" /\ fslock' \in Callers \cup {None}
  BY ThreadIs DEF LookupDone, At
<1>2. th[t] \in VThread /\ VShape(th[t])
  BY ThreadIs
<1>3. /\ r \in VThread /\ r.pc = "found" /\ r.todo = th[t].todo /\ r.freeing = th[t].freeing
      /\ r.file = th[t].file /\ r.node = th[t].node /\ r.op = th[t].op
  BY <1>2 DEF VThread, VfsPcs
<1> HIDE DEF r
<1>4. VShape(r)
  BY <1>1, <1>2, <1>3 DEF VShape, WalkPcs, NodePcs, FreePcs
<1>5. exists' \subseteq Files
  BY <1>1 DEF VfsInductive, StateInv
<1>6. \A v \in Nodes : WalksWith(r, v) <=> WalksOn(t, v)
  BY <1>1, <1>3 DEF WalksWith, WalksOn
<1>7. table[r.file] # None
  BY <1>1, <1>3 DEF VfsInductive, NodesInv, BusyInv
<1> QED BY <1>1, <1>3, <1>4, <1>5, <1>6, <1>7, ThreadMoves DEF BusyPcs, Opens

(* path_to_vnode finds the vnode in the table again.                       *)
LEMMA PathFoundMoves ==
    ASSUME VfsInductive, NEW t \in Callers, PathFound(t)
    PROVE  VfsInductive'
<1> DEFINE r == [th[t] EXCEPT !.pc = "have", !.node = table[th[t].file]]
<1>0. UNCHANGED <<vfsVars, fsVars, ioVars>> /\ th[t].pc = "found" /\ table[th[t].file] # None
  BY DEF PathFound, At
<1>1. th' = [th EXCEPT ![t] = r]
  BY ThreadIs DEF PathFound
<1>2. th[t] \in VThread /\ VShape(th[t]) /\ table[th[t].file] \in Nodes
  <2>1. th[t] \in VThread /\ VShape(th[t])
    BY ThreadIs
  <2>2. th[t].file \in Files
    BY <1>0, <2>1 DEF VShape, WalkPcs
  <2> QED BY <1>0, <2>1, <2>2 DEF VfsInductive, StateInv
<1>3. /\ r \in VThread /\ r.pc = "have" /\ r.todo = th[t].todo /\ r.freeing = th[t].freeing
      /\ r.file = th[t].file /\ r.node = table[th[t].file] /\ r.op = th[t].op
  BY <1>2 DEF VThread, VfsPcs
<1> HIDE DEF r
<1>4. VShape(r)
  BY <1>0, <1>2, <1>3 DEF VShape, WalkPcs, NodePcs, FreePcs
<1>5. /\ exists' \subseteq Files /\ fslock' \in Callers \cup {None}
      /\ UNCHANGED <<vfsVars, linked, ioVars>>
  BY <1>0 DEF VfsInductive, StateInv, fsVars
<1>6. \A v \in Nodes : WalksWith(r, v) <=> WalksOn(t, v)
  BY <1>0, <1>3 DEF WalksWith, WalksOn
<1> QED BY <1>1, <1>3, <1>4, <1>5, <1>6, ThreadMoves DEF BusyPcs, Opens

(* A call with the vnode fails and drops it.                               *)
LEMMA UseFailsMoves ==
    ASSUME VfsInductive, NEW t \in Callers, UseFails(t)
    PROVE  VfsInductive'
<1> DEFINE r == Drop(th[t].node, <<>>)
<1>1. /\ th' = [th EXCEPT ![t] = r] /\ UNCHANGED <<vfsVars, fsVars, ioVars>> /\ th[t].pc = "have"
  BY DEF UseFails, At
<1>2. /\ th[t].node \in Nodes /\ th[t].todo = <<>> /\ th[t].freeing = None /\ <<>> \in Seq(Fds)
  <2>1. VShape(th[t])
    BY ThreadIs
  <2> QED BY <1>1, <2>1 DEF VShape, NodePcs, FreePcs
<1>3. /\ r \in VThread /\ VShape(r) /\ r.pc = "dec" /\ r.node = th[t].node
      /\ r.todo = th[t].todo /\ r.freeing = th[t].freeing
  BY <1>2, VfsRecords
<1> HIDE DEF r
<1>5. /\ exists' \subseteq Files /\ fslock' \in Callers \cup {None}
      /\ UNCHANGED <<vfsVars, linked, ioVars>>
  BY <1>1 DEF VfsInductive, StateInv, fsVars
<1>6. \A v \in Nodes : WalksWith(r, v) <=> WalksOn(t, v)
  BY <1>1, <1>3 DEF WalksWith, WalksOn
<1> QED BY <1>1, <1>3, <1>5, <1>6, ThreadMoves DEF BusyPcs, Opens

(* A call is done with its descriptor.                                     *)
LEMMA UsedMoves ==
    ASSUME VfsInductive, NEW t \in Callers, Used(t)
    PROVE  VfsInductive'
<1> DEFINE r == Rest(th[t].todo)
<1>1. /\ th' = [th EXCEPT ![t] = r] /\ UNCHANGED <<vfsVars, fsVars, ioVars>> /\ th[t].pc = "use"
  BY DEF Used, At
<1>2. th[t].todo \in Seq(Fds) /\ th[t].freeing = None
  <2>1. VShape(th[t]) /\ th[t].todo \in Seq(Fds)
    BY ThreadIs
  <2> QED BY <1>1, <2>1 DEF VShape, FreePcs
<1>3. /\ r \in VThread /\ VShape(r) /\ r.pc \in {"run", "put"}
      /\ r.todo = th[t].todo /\ r.freeing = th[t].freeing
  BY <1>2, VfsRecords
<1> HIDE DEF r
<1>5. /\ exists' \subseteq Files /\ fslock' \in Callers \cup {None}
      /\ UNCHANGED <<vfsVars, linked, ioVars>>
  BY <1>1 DEF VfsInductive, StateInv, fsVars
<1>6. \A v \in Nodes : WalksWith(r, v) <=> WalksOn(t, v)
  BY <1>1, <1>3 DEF WalksWith, WalksOn
<1> QED BY <1>1, <1>3, <1>5, <1>6, ThreadMoves DEF BusyPcs, Opens

(* The file system is told that the vnode goes.                            *)
LEMMA FsPutMoves ==
    ASSUME VfsInductive, NEW t \in Callers, FsPut(t)
    PROVE  VfsInductive'
<1> DEFINE r == [th[t] EXCEPT !.pc = "unhash"]
<1>0. UNCHANGED <<vfsVars, linked, fslock, ioVars>> /\ th[t].pc = "fsput"
  BY DEF FsPut, At
<1>1. th' = [th EXCEPT ![t] = r]
  BY ThreadIs DEF FsPut
<1>2. th[t] \in VThread /\ VShape(th[t])
  BY ThreadIs
<1>3. /\ r \in VThread /\ r.pc = "unhash" /\ r.todo = th[t].todo /\ r.freeing = th[t].freeing
      /\ r.file = th[t].file /\ r.node = th[t].node /\ r.op = th[t].op
  BY <1>2 DEF VThread, VfsPcs
<1> HIDE DEF r
<1>4. VShape(r)
  BY <1>0, <1>2, <1>3 DEF VShape, WalkPcs, NodePcs, FreePcs
<1>5. exists' \subseteq Files /\ fslock' \in Callers \cup {None}
  <2>1. exists \subseteq Files /\ fslock \in Callers \cup {None}
    BY DEF VfsInductive, StateInv
  <2> QED BY <1>0, <2>1 DEF FsPut
<1>6. \A v \in Nodes : WalksWith(r, v) <=> WalksOn(t, v)
  BY <1>0, <1>3 DEF WalksWith, WalksOn
<1> QED BY <1>0, <1>1, <1>3, <1>4, <1>5, <1>6, ThreadMoves DEF BusyPcs, Opens

-----------------------------------------------------------------------------
(* The steps that get a vnode and drop it.                                 *)

(* Only a thread and vnodes change: the count of a vnode as this thread    *)
(* comes or goes.                                                          *)
LEMMA RefMoves ==
    ASSUME VfsInductive, NEW t \in Callers, UNCHANGED ioVars,
           ASSUME NEW v \in Nodes
           PROVE  /\ \A u \in Callers : u # t => (WalksOn(u, v)' <=> WalksOn(u, v))
                  /\ Counted(v)' = Counted(v) - Bit(WalksOn(t, v)) + Bit(WalksOn(t, v)')
    PROVE  RefInv'
<1>1. RefInv
  BY DEF VfsInductive, NodesInv
<1>2. ASSUME NEW v \in Nodes
      PROVE  /\ \A e \in Fds : e # None => (Describes(e, v)' <=> Describes(e, v))
             /\ \A b \in Contexts : b # 0 => (WorksIn(b, v)' <=> WorksIn(b, v))
             /\ Describes(None, v)' <=> Describes(None, v)
             /\ WorksIn(0, v)' <=> WorksIn(0, v)
  BY DEF Describes, WorksIn, ioVars
<1>3. ASSUME NEW v \in Nodes
      PROVE  /\ Bit(WalksOn(t, v)) \in Int /\ Bit(WalksOn(t, v)') \in Int
             /\ Bit(Describes(None, v)) \in Int /\ Bit(WorksIn(0, v)) \in Int
             /\ Counted(v) \in Int
  <2>1. vnode[v].ref \in Nat
    BY DEF VfsInductive, StateInv
  <2> QED BY <2>1 DEF Bit, Counted
<1>4. ASSUME NEW v \in Nodes
      PROVE  (Holders(v) = Counted(v))'
  <2>1. /\ Bit(Describes(None, v)') = Bit(Describes(None, v))
        /\ Bit(WorksIn(0, v)') = Bit(WorksIn(0, v))
    BY <1>2 DEF Bit
  <2>2. Counted(v)' = Counted(v) - Bit(WalksOn(t, v)) + Bit(WalksOn(t, v)')
    OBVIOUS
  <2>3. Counted(v)' = Counted(v) - Bit(WalksOn(t, v)) + Bit(WalksOn(t, v)')
                             - Bit(Describes(None, v)) + Bit(Describes(None, v)')
                             - Bit(WorksIn(0, v)) + Bit(WorksIn(0, v)')
    BY <1>3, <2>1, <2>2
  <2>4. \A u \in Callers : u # t => (WalksOn(u, v)' <=> WalksOn(u, v))
    OBVIOUS
  <2> QED BY <1>1, <1>2, <2>3, <2>4, RefStep
<1> QED BY <1>4 DEF RefInv

(* Only a thread and vnodes change: the descriptors.                       *)
LEMMA DescMoves ==
    ASSUME VfsInductive, NEW t \in Callers, UNCHANGED ioVars,
           \A u \in Callers : u # t => th'[u] = th[u],
           th'[t].todo = th[t].todo, th'[t].freeing = th[t].freeing,
           ~Opens(th'[t])
    PROVE  DescInv'
<1>1. CountInv /\ OpenInv /\ FreeInv /\ ChildInv
  BY DEF VfsInductive, DescInv
<1>2. fd' = fd /\ fds' = fds /\ leaked' = leaked /\ lost' = lost /\ cwd' = cwd /\ child' = child
  BY DEF ioVars
<1>3. CountInv' /\ OpenInv' /\ FreeInv'
  BY <1>1, <1>2, DescFrame
<1>4. ChildInv'
  BY <1>1, <1>2 DEF ChildInv
<1> QED BY <1>3, <1>4 DEF DescInv

(* A vnode that is not in use, or busy, has no holder; one that has a      *)
(* holder is in use, not busy, and in the table.                           *)
LEMMA HeldIs ==
    ASSUME VfsInductive, NEW v \in Nodes
    PROVE  /\ Holders(v) = Counted(v) /\ Holders(v) \in Nat /\ vnode[v].ref \in Nat
           /\ \/ \E t \in Callers : WalksOn(t, v)
              \/ \E d \in Fds : Describes(d, v)
              \/ \E c \in Contexts : WorksIn(c, v)
              => /\ vnode[v].alloc /\ ~vnode[v].busy /\ vnode[v].ref > 0
                 /\ Counted(v) = vnode[v].ref
                 /\ vnode[v].file \in Files /\ table[vnode[v].file] = v
<1>1. Holders(v) = Counted(v) /\ Holders(v) \in Nat /\ vnode[v].ref \in Nat
  BY HoldersAre DEF VfsInductive, NodesInv, RefInv, StateInv
<1>2. ASSUME \/ \E t \in Callers : WalksOn(t, v)
             \/ \E d \in Fds : Describes(d, v)
             \/ \E c \in Contexts : WorksIn(c, v)
      PROVE  Holders(v) # 0
  BY <1>2, HoldersAre
<1>3. Counted(v) # 0 => /\ vnode[v].alloc /\ ~vnode[v].busy
                        /\ Counted(v) = vnode[v].ref
  BY DEF Counted
<1>4. vnode[v].alloc => vnode[v].file \in Files /\ table[vnode[v].file] = v
  BY DEF VfsInductive, NodesInv, TableInv
<1> QED BY <1>1, <1>2, <1>3, <1>4

VVnode == [alloc : BOOLEAN, file : Files \cup {None}, ref : Nat, busy : BOOLEAN, del : BOOLEAN]

(* One vnode changes.                                                      *)
LEMMA VnodeStep ==
    ASSUME vnode \in [Nodes -> VVnode], NEW v \in Nodes, NEW x \in VVnode,
           vnode' = [vnode EXCEPT ![v] = x]
    PROVE  /\ vnode' \in [Nodes -> VVnode] /\ vnode'[v] = x
           /\ \A w \in Nodes : w # v => vnode'[w] = vnode[w]
OBVIOUS

(* get_vnode finds the vnode.                                              *)
LEMMA GetFoundKeeps ==
    ASSUME VfsInductive, NEW t \in Callers, GetFound(t)
    PROVE  VfsInductive'
<1> DEFINE r == [th[t] EXCEPT !.pc = "got"]
           v == table[th[t].file]
<1>0. /\ UNCHANGED <<table, fsVars, ioVars>> /\ th[t].pc = "get" /\ v # None
      /\ ~vnode[v].busy /\ vnode' = [vnode EXCEPT ![v].ref = @ + 1]
  BY DEF GetFound, At, Referenced
<1>1. th' = [th EXCEPT ![t] = r]
  BY ThreadIs DEF GetFound
<1>2. th[t] \in VThread /\ VShape(th[t]) /\ th[t].file \in Files /\ v \in Nodes
  <2>1. th[t] \in VThread /\ VShape(th[t])
    BY ThreadIs
  <2>2. th[t].file \in Files
    BY <1>0, <2>1 DEF VShape, WalkPcs
  <2> QED BY <1>0, <2>1, <2>2 DEF VfsInductive, StateInv
<1>3. /\ r \in VThread /\ r.pc = "got" /\ r.todo = th[t].todo /\ r.freeing = th[t].freeing
      /\ r.file = th[t].file /\ r.node = th[t].node /\ r.op = th[t].op
  BY <1>2 DEF VThread, VfsPcs
<1> HIDE DEF r
<1>4. VShape(r)
  BY <1>0, <1>2, <1>3 DEF VShape, WalkPcs, NodePcs, FreePcs
<1>5. ThreadsInv' /\ th'[t] = r /\ \A u \in Callers : u # t => th'[u] = th[u]
  BY <1>1, <1>3, <1>4, ThreadsStep DEF VfsInductive
<1>6. /\ vnode \in [Nodes -> VVnode] /\ vnode[v] \in VVnode
      /\ vnode[v].alloc /\ vnode[v].file = th[t].file
  BY <1>0, <1>2 DEF VfsInductive, StateInv, NodesInv, TableInv, VVnode
<1> HIDE DEF v
<1>7. /\ vnode' \in [Nodes -> VVnode]
      /\ \A w \in Nodes : w # v => vnode'[w] = vnode[w]
      /\ vnode'[v].alloc = vnode[v].alloc /\ vnode'[v].file = vnode[v].file
      /\ vnode'[v].busy = vnode[v].busy /\ vnode'[v].del = vnode[v].del
      /\ vnode'[v].ref = vnode[v].ref + 1
  <2> DEFINE x == [vnode[v] EXCEPT !.ref = @ + 1]
  <2>1. /\ x \in VVnode /\ x.alloc = vnode[v].alloc /\ x.file = vnode[v].file
        /\ x.busy = vnode[v].busy /\ x.del = vnode[v].del /\ x.ref = vnode[v].ref + 1
    <3> DEFINE y == vnode[v]
    <3>1. y \in VVnode /\ y.ref + 1 \in Nat
      BY <1>6 DEF VVnode
    <3> HIDE DEF y
    <3>2. [y EXCEPT !.ref = @ + 1] \in VVnode
      BY <3>1 DEF VVnode
    <3> QED BY <3>1, <3>2 DEF VVnode, y
  <2>2. vnode' = [vnode EXCEPT ![v] = x]
    BY <1>0, <1>2, <1>6
  <2> HIDE DEF x
  <2> QED BY <1>2, <1>6, <2>1, <2>2, VnodeStep
<1>8. StateInv'
  BY <1>0, <1>7 DEF VfsInductive, StateInv, VVnode, fsVars, ioVars
<1>9. TableInv' /\ DelInv' /\ BusyInv'
  <2>1. \A u \in Callers : th'[u].pc \in BusyPcs => th'[u].node \in Nodes
    BY <1>5 DEF ThreadsInv, VShape, BusyPcs, NodePcs
  <2>2. \A f \in Files : table[f] # None => table[f] \in Nodes
    BY DEF VfsInductive, StateInv
  <2>3. TableInv /\ DelInv /\ BusyInv /\ table' = table /\ linked' = linked
    BY <1>0 DEF VfsInductive, NodesInv, fsVars
  <2>4. \A w \in Nodes : /\ vnode'[w].alloc = vnode[w].alloc
                         /\ vnode'[w].file = vnode[w].file
                         /\ vnode'[w].busy = vnode[w].busy
                         /\ ~vnode[w].alloc => vnode'[w] = vnode[w]
                         /\ vnode'[w].alloc /\ vnode'[w].del =>
                               vnode[w].del \/ vnode[w].file \notin linked'
    BY <1>6, <1>7
  <2>5. th'[t].pc \notin BusyPcs /\ table[th'[t].file] # None
    BY <1>0, <1>3, <1>5 DEF BusyPcs, v
  <2> QED BY <1>5, <2>1, <2>2, <2>3, <2>4, <2>5, VnodesKeep
<1>10. RefInv'
  <2>1. ASSUME NEW w \in Nodes
        PROVE  /\ \A u \in Callers : u # t => (WalksOn(u, w)' <=> WalksOn(u, w))
               /\ Counted(w)' = Counted(w) - Bit(WalksOn(t, w)) + Bit(WalksOn(t, w)')
    <3>1. \A u \in Callers : u # t => (WalksOn(u, w)' <=> WalksOn(u, w))
      BY <1>0, <1>5 DEF WalksOn
    <3>2. ~WalksOn(t, w) /\ (WalksOn(t, w)' <=> w = v)
      BY <1>0, <1>3, <1>5 DEF WalksOn, v
    <3>3. Counted(w)' = IF w = v THEN Counted(w) + 1 ELSE Counted(w)
      BY <1>0, <1>2, <1>6, <1>7 DEF Counted
    <3>4. Counted(w) \in Int
      BY HeldIs
    <3> QED BY <3>1, <3>2, <3>3, <3>4 DEF Bit
  <2> QED BY <1>0, <2>1, RefMoves
<1>11. DescInv'
  BY <1>0, <1>3, <1>5, DescMoves DEF Opens
<1> QED BY <1>5, <1>8, <1>9, <1>10, <1>11 DEF VfsInductive, NodesInv

(* One vnode changes, at the hands of one thread.                          *)
LEMMA OneVnode ==
    ASSUME VfsInductive, NEW t \in Callers, NEW v \in Nodes, NEW x \in VVnode, NEW f \in Files,
           NEW y, NEW r \in VThread, VShape(r),
           th' = [th EXCEPT ![t] = r], vnode' = [vnode EXCEPT ![v] = x],
           table' = [table EXCEPT ![f] = y], UNCHANGED <<linked, exists, ioVars>>,
           fslock' \in Callers \cup {None},
           r.todo = th[t].todo, r.freeing = th[t].freeing, r.pc \notin {"newfd", "have", "dec"},
           IF x.alloc THEN x.file = f /\ y = v ELSE x = NoNode /\ y = None,
           IF vnode[v].alloc THEN vnode[v].file = f ELSE table[f] = None,
           x.alloc /\ x.del => f \notin linked,
           r.pc \in BusyPcs => r.node = v /\ x.alloc /\ x.busy /\ (r.pc = "read" => r.file = f),
           \A u \in Callers : u # t /\ th[u].pc \in BusyPcs => th[u].node # v,
           r.pc \in {"got", "found"} => r.file = f /\ y = v,
           Counted(v) # 0 => y = v,
           \A w \in Nodes : WalksOn(t, w) => w = v,
           (IF x.alloc /\ ~x.busy THEN x.ref ELSE 0)
              = Counted(v) - Bit(WalksOn(t, v)) + Bit(r.pc \in {"got", "found"})
    PROVE  VfsInductive'
<1>1. ThreadsInv' /\ th'[t] = r /\ \A u \in Callers : u # t => th'[u] = th[u]
  BY ThreadsStep DEF VfsInductive
<1>2. vnode \in [Nodes -> VVnode] /\ table \in [Files -> Nodes \cup {None}]
  BY DEF VfsInductive, StateInv, VVnode
<1>3. /\ vnode' \in [Nodes -> VVnode] /\ vnode'[v] = x
      /\ \A w \in Nodes : w # v => vnode'[w] = vnode[w]
  BY <1>2, VnodeStep
<1>4. /\ table' \in [Files -> Nodes \cup {None}] /\ table'[f] = y
      /\ \A g \in Files : g # f => table'[g] = table[g]
  <2>1. y \in Nodes \cup {None}
    OBVIOUS
  <2> QED BY <1>2, <2>1
<1>5. /\ \A g \in Files : table[g] # None => vnode[table[g]].alloc /\ vnode[table[g]].file = g
      /\ \A w \in Nodes : IF vnode[w].alloc
                          THEN vnode[w].file \in Files /\ table[vnode[w].file] = w
                          ELSE vnode[w] = NoNode
  BY DEF VfsInductive, NodesInv, TableInv
<1>6. table[f] = IF vnode[v].alloc THEN v ELSE None
  BY <1>5
<1>7. \A w \in Nodes : w # v /\ vnode[w].alloc => vnode[w].file # f
  BY <1>5, <1>6, VfsAssumption
<1>8. \A g \in Files : g # f => table[g] # v
  BY <1>5, VfsAssumption
<1>9. v # None
  BY VfsAssumption
<1>s. StateInv'
  BY <1>3, <1>4 DEF VfsInductive, StateInv, VVnode, ioVars
<1>t. TableInv'
  <2>1. ASSUME NEW g \in Files, table'[g] # None
        PROVE  vnode'[table'[g]].alloc /\ vnode'[table'[g]].file = g
    <3>1. CASE g = f
      <4>1. y = v /\ x.alloc /\ x.file = f
        BY <1>4, <2>1, <3>1
      <4> QED BY <1>3, <1>4, <3>1, <4>1
    <3>2. CASE g # f
      <4>1. table'[g] = table[g] /\ table[g] # v /\ table[g] \in Nodes
        BY <1>2, <1>4, <1>8, <2>1, <3>2
      <4> QED BY <1>3, <1>5, <2>1, <4>1
    <3> QED BY <3>1, <3>2
  <2>2. ASSUME NEW w \in Nodes
        PROVE  IF vnode'[w].alloc THEN vnode'[w].file \in Files /\ table'[vnode'[w].file] = w
               ELSE vnode'[w] = NoNode
    <3>1. CASE w = v
      BY <1>3, <1>4, <3>1
    <3>2. CASE w # v
      BY <1>3, <1>4, <1>5, <1>7, <3>2
    <3> QED BY <3>1, <3>2
  <2> QED BY <2>1, <2>2 DEF TableInv
<1>d. DelInv'
  <2>1. \A w \in Nodes : vnode[w].alloc /\ vnode[w].del => vnode[w].file \notin linked
    BY DEF VfsInductive, NodesInv, DelInv
  <2>2. ASSUME NEW w \in Nodes, vnode'[w].alloc, vnode'[w].del
        PROVE  vnode'[w].file \notin linked'
    <3>1. CASE w = v
      BY <1>3, <2>2, <3>1
    <3>2. CASE w # v
      BY <1>3, <2>1, <2>2, <3>2
    <3> QED BY <3>1, <3>2
  <2> QED BY <2>2 DEF DelInv
<1>w. ASSUME NEW u \in Callers, u # t, th[u].pc \in {"got", "found"}
      PROVE  table'[th[u].file] = table[th[u].file] /\ table[th[u].file] # None
  <2>1. th[u].file \in Files /\ table[th[u].file] # None
    <3>1. VShape(th[u])
      BY ThreadIs
    <3> QED BY <1>w, <3>1 DEF VShape, WalkPcs, VfsInductive, NodesInv, BusyInv
  <2>2. CASE th[u].file = f
    <3>1. table[f] = v
      BY <1>6, <2>1, <2>2
    <3>2. WalksOn(u, v)
      BY <1>w, <2>2, <3>1 DEF WalksOn
    <3>3. Counted(v) # 0
      BY <3>2, HeldIs
    <3> QED BY <1>4, <2>1, <2>2, <3>1, <3>3
  <2>3. CASE th[u].file # f
    BY <1>4, <2>1, <2>3
  <2> QED BY <2>2, <2>3
<1>b. BusyInv'
  <2>0. BusyInv
    BY DEF VfsInductive, NodesInv
  <2>1. ASSUME NEW u \in Callers, th'[u].pc \in BusyPcs
        PROVE  /\ vnode'[th'[u].node].alloc /\ vnode'[th'[u].node].busy
               /\ th'[u].pc = "read" => vnode'[th'[u].node].file = th'[u].file
               /\ u = t <=> th'[u].node = v
    <3>1. CASE u = t
      BY <1>1, <1>3, <2>1, <3>1
    <3>2. CASE u # t
      <4>1. th[u].pc \in BusyPcs /\ th'[u] = th[u] /\ th[u].node # v
        BY <1>1, <2>1, <3>2
      <4>2. th[u].node \in Nodes
        BY <4>1, ThreadIs DEF VShape, BusyPcs, NodePcs
      <4>3. /\ vnode[th[u].node].alloc /\ vnode[th[u].node].busy
            /\ th[u].pc = "read" => vnode[th[u].node].file = th[u].file
        BY <2>0, <4>1 DEF BusyInv
      <4> QED BY <1>3, <3>2, <4>1, <4>2, <4>3
    <3> QED BY <3>1, <3>2
  <2>2. ASSUME NEW u \in Callers, NEW w \in Callers, th'[u].pc \in BusyPcs,
               th'[w].pc \in BusyPcs, th'[u].node = th'[w].node
        PROVE  u = w
    <3>1. CASE u = t \/ w = t
      BY <2>1, <2>2, <3>1
    <3>2. CASE u # t /\ w # t
      <4>1. th'[u] = th[u] /\ th'[w] = th[w]
        BY <1>1, <3>2
      <4> QED BY <2>0, <2>2, <4>1 DEF BusyInv
    <3> QED BY <3>1, <3>2
  <2>3. ASSUME NEW u \in Callers, th'[u].pc \in {"got", "found"}
        PROVE  table'[th'[u].file] # None
    <3>1. CASE u = t
      BY <1>1, <1>4, <1>9, <2>3, <3>1
    <3>2. CASE u # t
      BY <1>1, <1>w, <2>3, <3>2
    <3> QED BY <3>1, <3>2
  <2> QED BY <2>1, <2>2, <2>3 DEF BusyInv
<1>r. RefInv'
  <2>1. ASSUME NEW w \in Nodes
        PROVE  /\ \A u \in Callers : u # t => (WalksOn(u, w)' <=> WalksOn(u, w))
               /\ Counted(w)' = Counted(w) - Bit(WalksOn(t, w)) + Bit(WalksOn(t, w)')
    <3>1. ASSUME NEW u \in Callers, u # t
          PROVE  WalksOn(u, w)' <=> WalksOn(u, w)
      BY <1>1, <1>w, <3>1 DEF WalksOn
    <3>2. WalksOn(t, w)' <=> r.pc \in {"got", "found"} /\ w = v
      BY <1>1, <1>4 DEF WalksOn
    <3>3. CASE w = v
      <4>1. Counted(v)' = IF x.alloc /\ ~x.busy THEN x.ref ELSE 0
        BY <1>3 DEF Counted
      <4>2. Bit(WalksOn(t, v)') = Bit(r.pc \in {"got", "found"})
        BY <3>2, <3>3 DEF Bit
      <4> QED BY <3>1, <3>3, <4>1, <4>2
    <3>4. CASE w # v
      <4>1. Counted(w)' = Counted(w)
        BY <1>3, <3>4 DEF Counted
      <4>2. Bit(WalksOn(t, w)) = 0 /\ Bit(WalksOn(t, w)') = 0
        BY <3>2, <3>4 DEF Bit
      <4>3. Counted(w) \in Int
        BY HeldIs
      <4> QED BY <3>1, <4>1, <4>2, <4>3
    <3> QED BY <3>3, <3>4
  <2> QED BY <2>1, RefMoves
<1>c. DescInv'
  BY <1>1, DescMoves DEF Opens
<1> QED BY <1>1, <1>s, <1>t, <1>d, <1>b, <1>r, <1>c DEF VfsInductive, NodesInv

(* Records that differ in some fields.                                     *)
LEMMA VnodeRecords ==
    /\ NoNode \in VVnode /\ ~NoNode.alloc /\ NoNode.ref = 0 /\ ~NoNode.busy
    /\ \A y \in VVnode : /\ y.ref \in Nat /\ y.busy \in BOOLEAN /\ y.alloc \in BOOLEAN
                         /\ y.file \in Files \cup {None} /\ y.del \in BOOLEAN
    /\ \A y \in VVnode, n \in Nat, b \in BOOLEAN :
          LET x == [y EXCEPT !.ref = n, !.busy = b]
          IN  /\ x \in VVnode /\ x.ref = n /\ x.busy = b
              /\ x.alloc = y.alloc /\ x.file = y.file /\ x.del = y.del
    /\ \A f \in Files :
          LET x == [NoNode EXCEPT !.alloc = TRUE, !.file = f, !.busy = TRUE]
          IN  x \in VVnode /\ x.alloc /\ x.file = f /\ x.busy /\ ~x.del
<1>1. NoNode \in VVnode /\ ~NoNode.alloc /\ NoNode.ref = 0 /\ ~NoNode.busy /\ ~NoNode.del
  BY DEF NoNode, VVnode
<1>2. \A y \in VVnode : /\ y.ref \in Nat /\ y.busy \in BOOLEAN /\ y.alloc \in BOOLEAN
                        /\ y.file \in Files \cup {None} /\ y.del \in BOOLEAN
  BY DEF VVnode
<1>3. ASSUME NEW y \in VVnode, NEW n \in Nat, NEW b \in BOOLEAN
      PROVE  LET x == [y EXCEPT !.ref = n, !.busy = b]
             IN  /\ x \in VVnode /\ x.ref = n /\ x.busy = b
                 /\ x.alloc = y.alloc /\ x.file = y.file /\ x.del = y.del
  BY DEF VVnode
<1>4. ASSUME NEW f \in Files
      PROVE  LET x == [NoNode EXCEPT !.alloc = TRUE, !.file = f, !.busy = TRUE]
             IN  x \in VVnode /\ x.alloc /\ x.file = f /\ x.busy /\ ~x.del
  BY <1>1 DEF VVnode
<1> QED BY <1>1, <1>2, <1>3, <1>4

(* get_vnode creates the vnode.                                            *)
LEMMA GetCreateKeeps ==
    ASSUME VfsInductive, NEW t \in Callers, GetCreate(t)
    PROVE  VfsInductive'
<1> DEFINE f == th[t].file
           x == [NoNode EXCEPT !.alloc = TRUE, !.file = f, !.busy = TRUE]
<1>0. /\ th[t].pc = "get" /\ table[f] = None /\ UNCHANGED <<fsVars, ioVars>>
  BY DEF GetCreate, At
<1>1. PICK v \in Nodes : /\ ~vnode[v].alloc /\ vnode' = [vnode EXCEPT ![v] = x]
                         /\ table' = [table EXCEPT ![f] = v]
                         /\ th' = [th EXCEPT ![t].pc = "read", ![t].node = v]
  BY DEF GetCreate
<1>2. th[t] \in VThread /\ VShape(th[t]) /\ f \in Files
  BY <1>0, ThreadIs DEF VShape, WalkPcs
<1> DEFINE r == [th[t] EXCEPT !.pc = "read", !.node = v]
<1>3. th' = [th EXCEPT ![t] = r]
  BY <1>1, ThreadIs
<1>4. /\ r \in VThread /\ r.pc = "read" /\ r.todo = th[t].todo /\ r.freeing = th[t].freeing
      /\ r.file = f /\ r.node = v /\ r.op = th[t].op
  BY <1>2 DEF VThread, VfsPcs
<1> HIDE DEF r
<1>5. VShape(r)
  BY <1>0, <1>2, <1>4 DEF VShape, WalkPcs, NodePcs, FreePcs
<1>6. x \in VVnode /\ x.alloc /\ x.file = f /\ x.busy /\ ~x.del
  BY <1>2, VnodeRecords
<1> HIDE DEF x, f
<1>7. /\ fslock' \in Callers \cup {None} /\ UNCHANGED <<linked, exists, ioVars>>
  BY <1>0 DEF VfsInductive, StateInv, fsVars
<1>8. \A u \in Callers : u # t /\ th[u].pc \in BusyPcs => th[u].node # v
  BY <1>1 DEF VfsInductive, NodesInv, BusyInv
<1>9. Counted(v) = 0 /\ \A w \in Nodes : ~WalksOn(t, w)
  BY <1>0, <1>1 DEF Counted, WalksOn
<1>10. (IF x.alloc /\ ~x.busy THEN x.ref ELSE 0)
          = Counted(v) - Bit(WalksOn(t, v)) + Bit(r.pc \in {"got", "found"})
  BY <1>4, <1>6, <1>9 DEF Bit
<1> QED BY <1>0, <1>1, <1>2, <1>3, <1>4, <1>5, <1>6, <1>7, <1>8, <1>9, <1>10, OneVnode

(* A vnode that a thread works on is its own.                              *)
LEMMA BusyIs ==
    ASSUME VfsInductive, NEW t \in Callers, th[t].pc \in BusyPcs
    PROVE  /\ th[t].node \in Nodes /\ vnode[th[t].node] \in VVnode
           /\ vnode[th[t].node].alloc /\ vnode[th[t].node].busy
           /\ vnode[th[t].node].file \in Files
           /\ th[t].pc = "read" => vnode[th[t].node].file = th[t].file
           /\ Counted(th[t].node) = 0 /\ \A w \in Nodes : ~WalksOn(t, w)
           /\ \A u \in Callers : u # t /\ th[u].pc \in BusyPcs => th[u].node # th[t].node
<1>1. th[t].node \in Nodes
  BY ThreadIs DEF VShape, BusyPcs, NodePcs
<1>2. /\ vnode[th[t].node].alloc /\ vnode[th[t].node].busy
      /\ th[t].pc = "read" => vnode[th[t].node].file = th[t].file
      /\ \A u \in Callers : u # t /\ th[u].pc \in BusyPcs => th[u].node # th[t].node
  BY DEF VfsInductive, NodesInv, BusyInv
<1>3. vnode[th[t].node] \in VVnode /\ vnode[th[t].node].file \in Files
  BY <1>1, <1>2 DEF VfsInductive, StateInv, VVnode, NodesInv, TableInv
<1>4. Counted(th[t].node) = 0 /\ \A w \in Nodes : ~WalksOn(t, w)
  BY <1>2 DEF Counted, WalksOn, BusyPcs
<1> QED BY <1>1, <1>2, <1>3, <1>4

(* The file system has read the vnode.                                     *)
LEMMA GetReadKeeps ==
    ASSUME VfsInductive, NEW t \in Callers, GetRead(t)
    PROVE  VfsInductive'
<1> DEFINE v == th[t].node
           f == th[t].file
           x == [vnode[v] EXCEPT !.ref = 1, !.busy = FALSE]
           r == [th[t] EXCEPT !.pc = "got", !.node = None]
<1>0. /\ th[t].pc = "read" /\ UNCHANGED <<table, fsVars, ioVars>>
      /\ vnode' = [vnode EXCEPT ![v].busy = FALSE, ![v].ref = 1]
      /\ th' = [th EXCEPT ![t].pc = "got", ![t].node = None]
  BY DEF GetRead, At
<1>1. th[t].pc \in BusyPcs
  BY <1>0 DEF BusyPcs
<1>2. /\ v \in Nodes /\ vnode[v] \in VVnode /\ vnode[v].alloc /\ vnode[v].file = f
      /\ Counted(v) = 0 /\ f \in Files /\ vnode[v].busy
      /\ \A w \in Nodes : ~WalksOn(t, w)
      /\ \A u \in Callers : u # t /\ th[u].pc \in BusyPcs => th[u].node # v
  BY <1>0, <1>1, BusyIs
<1>3. th[t] \in VThread /\ VShape(th[t])
  BY ThreadIs
<1>4. th' = [th EXCEPT ![t] = r]
  BY <1>0, ThreadIs
<1>5. /\ r \in VThread /\ r.pc = "got" /\ r.todo = th[t].todo /\ r.freeing = th[t].freeing
      /\ r.file = f /\ r.op = th[t].op
  BY <1>3 DEF VThread, VfsPcs
<1> HIDE DEF r
<1>6. VShape(r)
  BY <1>0, <1>3, <1>5 DEF VShape, WalkPcs, NodePcs, FreePcs
<1>7. /\ x \in VVnode /\ x.alloc /\ x.file = f /\ ~x.busy /\ x.ref = 1 /\ x.del = vnode[v].del
  <2> DEFINE y == vnode[v]
             z == [y EXCEPT !.ref = 1, !.busy = FALSE]
  <2>1. y \in VVnode /\ y.alloc /\ y.file = f
    BY <1>2
  <2> HIDE DEF y
  <2>2. /\ z \in VVnode /\ z.ref = 1 /\ z.busy = FALSE
        /\ z.alloc = y.alloc /\ z.file = y.file /\ z.del = y.del
    BY <2>1, VnodeRecords
  <2>3. x = z
    BY DEF y
  <2> HIDE DEF z, x
  <2> QED BY <2>1, <2>2, <2>3 DEF y
<1>8. vnode' = [vnode EXCEPT ![v] = x]
  <2>1. vnode \in [Nodes -> VVnode]
    BY DEF VfsInductive, StateInv, VVnode
  <2>2. x = [vnode[v] EXCEPT !.busy = FALSE, !.ref = 1]
    BY <1>2 DEF VVnode
  <2> HIDE DEF x
  <2> QED BY <1>0, <1>2, <2>1, <2>2
<1>9. table' = [table EXCEPT ![f] = v]
  <2>1. table \in [Files -> Nodes \cup {None}] /\ table[f] = v
    BY <1>2 DEF VfsInductive, StateInv, NodesInv, TableInv
  <2> QED BY <1>0, <2>1
<1>10. x.alloc /\ x.del => f \notin linked
  BY <1>2, <1>7 DEF VfsInductive, NodesInv, DelInv
<1> HIDE DEF x, f, v
<1>11. /\ fslock' \in Callers \cup {None} /\ UNCHANGED <<linked, exists, ioVars>>
  BY <1>0 DEF VfsInductive, StateInv, fsVars
<1>12. (IF x.alloc /\ ~x.busy THEN x.ref ELSE 0)
          = Counted(v) - Bit(WalksOn(t, v)) + Bit(r.pc \in {"got", "found"})
  BY <1>2, <1>5, <1>7 DEF Bit
<1>13. r.pc \notin {"newfd", "have", "dec"} /\ r.pc \notin BusyPcs
  BY <1>5 DEF BusyPcs
<1> QED BY <1>2, <1>4, <1>5, <1>6, <1>7, <1>8, <1>9, <1>10, <1>11, <1>12, <1>13, OneVnode

(* get_vnode fails.                                                        *)
LEMMA GetFailsKeeps ==
    ASSUME VfsInductive, NEW t \in Callers, GetFails(t)
    PROVE  VfsInductive'
<1>0. /\ th' = [th EXCEPT ![t] = Idle] /\ fslock' = None /\ UNCHANGED <<linked, exists, ioVars>>
  BY DEF GetFails, LockAfterFailure
<1>1. /\ th[t].pc \in {"get", "read"} /\ th[t].todo = <<>> /\ th[t].freeing = None
      /\ VShape(th[t]) /\ th[t].file \in Files
  <2>1. VShape(th[t]) /\ th[t].pc \in {"get", "read"}
    BY ThreadIs DEF GetFails, At
  <2> QED BY <2>1 DEF VShape, WalkPcs, FreePcs
<1>2. exists' \subseteq Files
  BY <1>0 DEF VfsInductive, StateInv
<1>3. CASE At(t, "get") /\ table[th[t].file] = None /\ UNCHANGED vfsVars
  <2>1. \A v \in Nodes : WalksWith(Idle, v) <=> WalksOn(t, v)
    BY <1>3, VfsRecords DEF WalksWith, WalksOn, At
  <2> QED BY <1>0, <1>1, <1>2, <1>3, <2>1, VfsRecords, ThreadMoves DEF BusyPcs, Opens
<1>4. CASE /\ At(t, "read") /\ vnode' = [vnode EXCEPT ![th[t].node] = NoNode]
           /\ table' = [table EXCEPT ![th[t].file] = None]
  <2> DEFINE v == th[t].node
             f == th[t].file
  <2>1. th[t].pc \in BusyPcs /\ th[t].pc = "read"
    BY <1>4 DEF BusyPcs, At
  <2>2. /\ v \in Nodes /\ vnode[v].alloc /\ vnode[v].file = f
        /\ Counted(v) = 0 /\ f \in Files /\ \A w \in Nodes : ~WalksOn(t, w)
        /\ \A u \in Callers : u # t /\ th[u].pc \in BusyPcs => th[u].node # v
    BY <2>1, BusyIs
  <2>3. (IF NoNode.alloc /\ ~NoNode.busy THEN NoNode.ref ELSE 0)
           = Counted(v) - Bit(WalksOn(t, v)) + Bit(Idle.pc \in {"got", "found"})
    <3>1. /\ Bit(WalksOn(t, v)) = 0 /\ Counted(v) = 0
          /\ ~NoNode.alloc
      BY <2>2, VnodeRecords DEF Bit
    <3>2. Bit(Idle.pc \in {"got", "found"}) = 0
      BY VfsRecords DEF Bit
    <3> QED BY <3>1, <3>2
  <2>4. vnode' = [vnode EXCEPT ![v] = NoNode] /\ table' = [table EXCEPT ![f] = None]
    BY <1>4
  <2>5. Idle.pc \notin {"newfd", "have", "dec"} /\ Idle.pc \notin BusyPcs
        /\ Idle.pc \notin {"got", "found"}
    BY VfsRecords DEF BusyPcs
  <2>6. Idle.todo = th[t].todo /\ Idle.freeing = th[t].freeing
    BY <1>1, VfsRecords
  <2>7. Idle \in VThread /\ VShape(Idle) /\ NoNode \in VVnode /\ ~NoNode.alloc
    BY VfsRecords, VnodeRecords
  <2>8. fslock' \in Callers \cup {None}
    BY <1>0
  <2> HIDE DEF v, f
  <2> QED BY <1>0, <2>2, <2>3, <2>4, <2>5, <2>6, <2>7, <2>8, OneVnode
<1> QED BY <1>3, <1>4 DEF GetFails

(* Where a call goes on when it has dropped a vnode.                       *)
LEMMA AfterDecIs ==
    ASSUME VfsInductive, NEW t \in Callers, th[t].pc \in {"dec", "unhash"}
    PROVE  /\ AfterDec(t) \in VThread /\ VShape(AfterDec(t))
           /\ AfterDec(t).todo = th[t].todo /\ AfterDec(t).freeing = th[t].freeing
           /\ AfterDec(t).pc \in {"kfree", "run", "put"}
<1>1. th[t] \in VThread /\ VShape(th[t]) /\ th[t].todo \in Seq(Fds)
  BY ThreadIs
<1>2. CASE th[t].freeing = None
  <2>1. AfterDec(t) = Rest(th[t].todo)
    BY <1>2 DEF AfterDec
  <2> QED BY <1>1, <1>2, <2>1, VfsRecords
<1>3. CASE th[t].freeing # None
  <2> DEFINE r == [th[t] EXCEPT !.pc = "kfree", !.node = None]
  <2>1. AfterDec(t) = r
    BY <1>3 DEF AfterDec
  <2>2. /\ r \in VThread /\ r.pc = "kfree" /\ r.todo = th[t].todo /\ r.freeing = th[t].freeing
    BY <1>1 DEF VThread, VfsPcs
  <2> HIDE DEF r
  <2>3. VShape(r)
    BY <1>3, <2>2 DEF VShape, WalkPcs, NodePcs, FreePcs
  <2> QED BY <2>1, <2>2, <2>3
<1> QED BY <1>2, <1>3

(* A reference of a vnode is dropped.                                      *)
LEMMA DecRefKeeps ==
    ASSUME VfsInductive, NEW t \in Callers, DecRef(t)
    PROVE  VfsInductive'
<1> DEFINE v == th[t].node
           last == LastRef(vnode[v].ref)
           x == [vnode[v] EXCEPT !.ref = vnode[v].ref - 1, !.busy = last]
           f == vnode[v].file
           r == IF last THEN [th[t] EXCEPT !.pc = "fsput"] ELSE AfterDec(t)
<1>0. /\ th[t].pc = "dec" /\ UNCHANGED <<table, fsVars, ioVars>>
      /\ vnode' = [vnode EXCEPT ![v].ref = @ - 1, ![v].busy = last]
      /\ th' = [th EXCEPT ![t] = r]
  BY ThreadIs DEF DecRef, At
<1>1. th[t] \in VThread /\ VShape(th[t]) /\ v \in Nodes
  BY <1>0, ThreadIs DEF VShape, NodePcs
<1>2. WalksOn(t, v) /\ \A w \in Nodes : WalksOn(t, w) => w = v
  BY <1>0 DEF WalksOn
<1>3. /\ vnode[v].alloc /\ ~vnode[v].busy /\ vnode[v].ref > 0 /\ vnode[v].ref \in Nat
      /\ Counted(v) = vnode[v].ref /\ f \in Files /\ table[f] = v
  BY <1>1, <1>2, HeldIs
<1>4. vnode \in [Nodes -> VVnode] /\ vnode[v] \in VVnode
  BY <1>1 DEF VfsInductive, StateInv, VVnode
<1>5. last <=> vnode[v].ref = 1
  BY DEF LastRef
<1>6. last \in BOOLEAN
  BY DEF LastRef
<1>7. /\ r \in VThread /\ VShape(r) /\ r.todo = th[t].todo /\ r.freeing = th[t].freeing
      /\ r.pc = "fsput" => r.node = v
      /\ IF last THEN r.pc = "fsput" ELSE r.pc \in {"kfree", "run", "put"}
  <2>1. CASE last
    <3> DEFINE q == [th[t] EXCEPT !.pc = "fsput"]
    <3>1. r = q
      BY <2>1
    <3>2. /\ q \in VThread /\ q.pc = "fsput" /\ q.todo = th[t].todo
          /\ q.freeing = th[t].freeing /\ q.node = v
      BY <1>1 DEF VThread, VfsPcs
    <3> HIDE DEF q, r
    <3>3. VShape(q)
      BY <1>1, <3>2 DEF VShape, WalkPcs, NodePcs, FreePcs
    <3> QED BY <2>1, <3>1, <3>2, <3>3
  <2>2. CASE ~last
    <3>1. r = AfterDec(t)
      BY <2>2
    <3> HIDE DEF r, last
    <3> QED BY <1>0, <2>2, <3>1, AfterDecIs
  <2> QED BY <2>1, <2>2
<1> HIDE DEF r
<1>8. /\ x \in VVnode /\ x.alloc /\ x.file = f /\ x.ref = vnode[v].ref - 1 /\ x.busy = last
      /\ x.del = vnode[v].del
  <2> DEFINE y == vnode[v]
             n == y.ref - 1
             z == [y EXCEPT !.ref = n, !.busy = last]
  <2>1. y \in VVnode /\ y.alloc /\ y.file = f /\ n \in Nat
    BY <1>3, <1>4
  <2>2. x = z
    BY DEF y, n
  <2> HIDE DEF y, n, last
  <2>3. /\ z \in VVnode /\ z.ref = n /\ z.busy = last
        /\ z.alloc = y.alloc /\ z.file = y.file /\ z.del = y.del
    BY <1>6, <2>1 DEF VVnode
  <2> HIDE DEF z, x
  <2> QED BY <2>1, <2>2, <2>3 DEF y, n
<1>9. vnode' = [vnode EXCEPT ![v] = x]
  BY <1>0, <1>1, <1>4
<1>10. table' = [table EXCEPT ![f] = v]
  BY <1>0, <1>3 DEF VfsInductive, StateInv
<1>11. x.alloc /\ x.del => f \notin linked
  BY <1>1, <1>3, <1>8 DEF VfsInductive, NodesInv, DelInv
<1>12. /\ fslock' \in Callers \cup {None} /\ UNCHANGED <<linked, exists, ioVars>>
  BY <1>0 DEF VfsInductive, StateInv, fsVars
<1>13. \A u \in Callers : u # t /\ th[u].pc \in BusyPcs => th[u].node # v
  BY <1>3, BusyIs
<1> HIDE DEF x, last
<1>14. r.pc \notin {"newfd", "have", "dec", "got", "found"} /\ r.pc # "read"
       /\ (r.pc \in BusyPcs => last /\ r.node = v)
  BY <1>7 DEF BusyPcs
<1>15. (IF x.alloc /\ ~x.busy THEN x.ref ELSE 0)
          = Counted(v) - Bit(WalksOn(t, v)) + Bit(r.pc \in {"got", "found"})
  <2>1. Bit(WalksOn(t, v)) = 1 /\ Bit(r.pc \in {"got", "found"}) = 0
    BY <1>2, <1>14 DEF Bit
  <2> QED BY <1>3, <1>5, <1>8, <2>1
<1>16. PICK g \in Files : g = f
  BY <1>3
<1>17. /\ x.alloc /\ vnode[v].alloc /\ x.file = g /\ vnode[v].file = g
       /\ table' = [table EXCEPT ![g] = v] /\ (x.alloc /\ x.del => g \notin linked)
  BY <1>3, <1>8, <1>10, <1>11, <1>16
<1>18. x \in VVnode /\ r \in VThread /\ VShape(r) /\ r.todo = th[t].todo /\ r.freeing = th[t].freeing
  BY <1>7, <1>8
<1>19. r.pc \in BusyPcs => r.node = v /\ x.alloc /\ x.busy /\ (r.pc = "read" => r.file = g)
  BY <1>8, <1>14, <1>17
<1>20. th' = [th EXCEPT ![t] = r] /\ v \in Nodes
  BY <1>0, <1>1
<1>21. r.pc \notin {"newfd", "have", "dec"} /\ r.pc \notin {"got", "found"}
  BY <1>14
<1> HIDE DEF v
<1> QED BY <1>2, <1>9, <1>12, <1>13, <1>15, <1>16, <1>17, <1>18, <1>19, <1>20, <1>21, OneVnode

(* The vnode is taken out of the table.                                    *)
LEMMA UnhashKeeps ==
    ASSUME VfsInductive, NEW t \in Callers, Unhash(t)
    PROVE  VfsInductive'
<1> DEFINE v == th[t].node
           f == vnode[v].file
           r == AfterDec(t)
<1>0. /\ th[t].pc = "unhash" /\ UNCHANGED <<fsVars, ioVars>>
      /\ table' = [table EXCEPT ![f] = None] /\ vnode' = [vnode EXCEPT ![v] = NoNode]
      /\ th' = [th EXCEPT ![t] = r]
  BY DEF Unhash, At
<1>1. th[t].pc \in BusyPcs
  BY <1>0 DEF BusyPcs
<1>2. /\ v \in Nodes /\ vnode[v].alloc /\ Counted(v) = 0 /\ f \in Files
      /\ \A w \in Nodes : ~WalksOn(t, w)
      /\ \A u \in Callers : u # t /\ th[u].pc \in BusyPcs => th[u].node # v
  BY <1>1, BusyIs
<1>3. /\ r \in VThread /\ VShape(r) /\ r.todo = th[t].todo /\ r.freeing = th[t].freeing
      /\ r.pc \in {"kfree", "run", "put"}
  BY <1>0, AfterDecIs
<1> HIDE DEF r
<1>4. /\ fslock' \in Callers \cup {None} /\ UNCHANGED <<linked, exists, ioVars>>
  BY <1>0 DEF VfsInductive, StateInv, fsVars
<1>5. (IF NoNode.alloc /\ ~NoNode.busy THEN NoNode.ref ELSE 0)
         = Counted(v) - Bit(WalksOn(t, v)) + Bit(r.pc \in {"got", "found"})
  <2>1. Bit(WalksOn(t, v)) = 0 /\ Counted(v) = 0 /\ ~NoNode.alloc
    BY <1>2, VnodeRecords DEF Bit
  <2>2. Bit(r.pc \in {"got", "found"}) = 0
    BY <1>3 DEF Bit
  <2> QED BY <2>1, <2>2
<1>6. r.pc \notin {"newfd", "have", "dec"} /\ r.pc \notin BusyPcs /\ r.pc \notin {"got", "found"}
  BY <1>3 DEF BusyPcs
<1>7. NoNode \in VVnode /\ ~NoNode.alloc
  BY VnodeRecords
<1>8. PICK g \in Files : vnode[v].file = g /\ table' = [table EXCEPT ![g] = None]
  BY <1>0, <1>2
<1>9. /\ v \in Nodes /\ vnode[v].alloc /\ Counted(v) = 0 /\ vnode' = [vnode EXCEPT ![v] = NoNode]
      /\ th' = [th EXCEPT ![t] = r]
      /\ \A w \in Nodes : ~WalksOn(t, w)
      /\ \A u \in Callers : u # t /\ th[u].pc \in BusyPcs => th[u].node # v
  BY <1>0, <1>2
<1> HIDE DEF v
<1> QED BY <1>3, <1>4, <1>5, <1>6, <1>7, <1>8, <1>9, OneVnode

(* A file is taken out of its directory.                                   *)
LEMMA UnlinkKeeps ==
    ASSUME VfsInductive, NEW t \in Callers, NEW f \in Files, vfs_unlink(t, f)
    PROVE  VfsInductive'
<1>0. /\ linked' = linked \ {f} /\ UNCHANGED <<table, exists, fslock, ioVars, th>>
      /\ vnode' = IF table[f] = None THEN vnode ELSE [vnode EXCEPT ![table[f]].del = TRUE]
  BY DEF vfs_unlink
<1>1. /\ vnode \in [Nodes -> VVnode] /\ table \in [Files -> Nodes \cup {None}]
      /\ linked \subseteq Files
  BY DEF VfsInductive, StateInv, VVnode
<1>2. /\ vnode' \in [Nodes -> VVnode]
      /\ \A w \in Nodes : /\ vnode'[w].alloc = vnode[w].alloc
                          /\ vnode'[w].file = vnode[w].file
                          /\ vnode'[w].busy = vnode[w].busy /\ vnode'[w].ref = vnode[w].ref
                          /\ w # table[f] => vnode'[w] = vnode[w]
  <2>1. CASE table[f] = None
    BY <1>0, <1>1, <2>1
  <2>2. CASE table[f] # None
    <3> DEFINE v == table[f]
               x == [vnode[v] EXCEPT !.del = TRUE]
    <3>1. v \in Nodes /\ vnode[v] \in VVnode
      BY <1>1, <2>2
    <3>2. /\ x \in VVnode /\ x.alloc = vnode[v].alloc /\ x.file = vnode[v].file
          /\ x.busy = vnode[v].busy /\ x.ref = vnode[v].ref
      BY <3>1 DEF VVnode
    <3>3. vnode' = [vnode EXCEPT ![v] = x]
      BY <1>0, <1>1, <2>2, <3>1
    <3> HIDE DEF x
    <3>4. /\ vnode' \in [Nodes -> VVnode] /\ vnode'[v] = x
          /\ \A w \in Nodes : w # v => vnode'[w] = vnode[w]
      BY <1>1, <3>1, <3>2, <3>3, VnodeStep
    <3> QED BY <3>2, <3>4
  <2> QED BY <2>1, <2>2
<1>3. StateInv'
  BY <1>0, <1>1, <1>2 DEF VfsInductive, StateInv, VVnode, ioVars
<1>4. ThreadsInv'
  BY <1>0 DEF VfsInductive, ThreadsInv
<1>5. TableInv /\ DelInv /\ BusyInv
  BY DEF VfsInductive, NodesInv
<1>6. ASSUME NEW w \in Nodes
      PROVE  /\ ~vnode[w].alloc => vnode'[w] = vnode[w]
             /\ vnode'[w].alloc /\ vnode'[w].del => vnode[w].del \/ vnode[w].file \notin linked'
  <2>1. CASE w = table[f]
    <3>1. vnode[w].alloc /\ vnode[w].file = f
      BY <1>5, <2>1, VfsAssumption DEF TableInv
    <3> QED BY <1>0, <3>1
  <2>2. CASE w # table[f]
    BY <1>2, <2>2
  <2> QED BY <2>1, <2>2
<1>7. TableInv' /\ DelInv' /\ BusyInv'
  <2>1. \A u \in Callers : th'[u].pc \in BusyPcs => th'[u].node \in Nodes
    BY <1>0, BusyIs
  <2>2. \A g \in Files : table[g] # None => table[g] \in Nodes
    BY <1>1
  <2>3. th'[t].pc \in {"got", "found"} => table[th'[t].file] # None
    BY <1>0, <1>5 DEF BusyInv
  <2>4. table' = table /\ linked' \subseteq linked /\ th' = th
    BY <1>0
  <2> QED BY <1>2, <1>5, <1>6, <2>1, <2>2, <2>3, <2>4, VnodesKeep
<1>8. RefInv'
  <2>1. ASSUME NEW w \in Nodes
        PROVE  /\ \A u \in Callers : u # t => (WalksOn(u, w)' <=> WalksOn(u, w))
               /\ Counted(w)' = Counted(w) - Bit(WalksOn(t, w)) + Bit(WalksOn(t, w)')
    <3>1. \A u \in Callers : WalksOn(u, w)' <=> WalksOn(u, w)
      BY <1>0 DEF WalksOn
    <3>2. Counted(w)' = Counted(w) /\ Counted(w) \in Int
      BY <1>2, HeldIs DEF Counted
    <3>3. Bit(WalksOn(t, w)') = Bit(WalksOn(t, w)) /\ Bit(WalksOn(t, w)) \in Int
      BY <3>1 DEF Bit
    <3> QED BY <3>1, <3>2, <3>3
  <2> QED BY <1>0, <2>1, RefMoves
<1>9. CountInv /\ OpenInv /\ FreeInv /\ ChildInv
  BY DEF VfsInductive, DescInv
<1>10. CountInv'
  BY <1>0, <1>9 DEF CountInv, CountOf, Refs, Puts, Places, SlotsWith, ioVars
<1>11. OpenInv' /\ FreeInv' /\ ChildInv'
  BY <1>0, <1>9 DEF OpenInv, FreeInv, ChildInv, ioVars
<1> QED BY <1>3, <1>4, <1>7, <1>8, <1>10, <1>11 DEF VfsInductive, NodesInv, DescInv

(* The working directory changes.                                          *)
LEMMA SetCwdKeeps ==
    ASSUME VfsInductive, NEW t \in Callers, SetCwd(t)
    PROVE  VfsInductive'
<1> DEFINE v == th[t].node
           o == cwd[1]
           r == IF o = None THEN Idle ELSE Drop(o, <<>>)
<1>0. /\ th[t].pc = "have" /\ cwd' = [cwd EXCEPT ![1] = v] /\ th' = [th EXCEPT ![t] = r]
      /\ UNCHANGED <<vfsVars, fsVars, fd, fds, child, iolock, leaked, lost>>
  BY DEF SetCwd, At
<1>1. VShape(th[t]) /\ v \in Nodes /\ th[t].todo = <<>> /\ th[t].freeing = None
  BY <1>0, ThreadIs DEF VShape, NodePcs, FreePcs
<1>2. cwd \in [Contexts -> Nodes \cup {None}] /\ 1 \in Contexts /\ o \in Nodes \cup {None}
  BY DEF VfsInductive, StateInv, Contexts
<1>3. /\ r \in VThread /\ VShape(r) /\ r.todo = <<>> /\ r.freeing = None
      /\ IF o = None THEN r.pc = "run" ELSE r.pc = "dec" /\ r.node = o
  <2>1. <<>> \in Seq(Fds)
    OBVIOUS
  <2>2. CASE o = None
    BY <2>2, VfsRecords
  <2>3. CASE o # None
    <3>1. r = Drop(o, <<>>) /\ o \in Nodes
      BY <1>2, <2>3
    <3> HIDE DEF r, o
    <3> QED BY <2>3, <3>1, DropsLast
  <2> QED BY <2>2, <2>3
<1> HIDE DEF r
<1>4. ThreadsInv' /\ th'[t] = r /\ \A u \in Callers : u # t => th'[u] = th[u]
  BY <1>0, <1>3, ThreadsStep DEF VfsInductive
<1>5. /\ cwd' \in [Contexts -> Nodes \cup {None}] /\ cwd'[1] = v
      /\ \A b \in Contexts : b # 1 => cwd'[b] = cwd[b]
  BY <1>0, <1>1, <1>2
<1>6. StateInv'
  BY <1>0, <1>5 DEF VfsInductive, StateInv, vfsVars, fsVars
<1>7. TableInv' /\ DelInv' /\ BusyInv'
  <2>1. \A u \in Callers : th'[u].pc \in BusyPcs => th'[u].node \in Nodes
    BY <1>4 DEF ThreadsInv, VShape, BusyPcs, NodePcs
  <2>2. \A f \in Files : table[f] # None => table[f] \in Nodes
    BY DEF VfsInductive, StateInv
  <2>3. /\ TableInv /\ DelInv /\ BusyInv
        /\ vnode' = vnode /\ table' = table /\ linked' = linked
    BY <1>0 DEF VfsInductive, NodesInv, vfsVars, fsVars
  <2>4. \A w \in Nodes : vnode'[w].alloc /\ vnode'[w].del =>
                            vnode[w].del \/ vnode[w].file \notin linked'
    BY <2>3
  <2>5. th'[t].pc \notin BusyPcs /\ th'[t].pc \notin {"got", "found"}
    BY <1>3, <1>4 DEF BusyPcs
  <2> QED BY <1>4, <2>1, <2>2, <2>3, <2>4, <2>5, VnodesKeep
<1>8. RefInv'
  <2>0. RefInv /\ vnode' = vnode /\ table' = table /\ fd' = fd /\ lost' = lost
    BY <1>0 DEF VfsInductive, NodesInv, vfsVars
  <2>1. ASSUME NEW w \in Nodes
        PROVE  (Holders(w) = Counted(w))'
    <3>1. \A u \in Callers : u # t => (WalksOn(u, w)' <=> WalksOn(u, w))
      BY <1>4, <2>0 DEF WalksOn
    <3>2. \A e \in Fds : e # None => (Describes(e, w)' <=> Describes(e, w))
      BY <2>0 DEF Describes
    <3>3. \A b \in Contexts : b # 1 => (WorksIn(b, w)' <=> WorksIn(b, w))
      BY <1>5 DEF WorksIn
    <3>4. /\ WalksOn(t, w) <=> w = v
          /\ WalksOn(t, w)' <=> w = o
      BY <1>0, <1>3, <1>4, VfsAssumption DEF WalksOn
    <3>5. /\ WorksIn(1, w) <=> w = o
          /\ WorksIn(1, w)' <=> w = v
      BY <1>2, <1>5 DEF WorksIn
    <3>6. /\ Bit(WalksOn(t, w)) = Bit(w = v) /\ Bit(WalksOn(t, w)') = Bit(w = o)
          /\ Bit(WorksIn(1, w)) = Bit(w = o) /\ Bit(WorksIn(1, w)') = Bit(w = v)
      BY <3>4, <3>5 DEF Bit
    <3>7. Bit(Describes(None, w)') = Bit(Describes(None, w))
      BY <2>0 DEF Describes
    <3>8. /\ Bit(w = v) \in Int /\ Bit(w = o) \in Int /\ Bit(Describes(None, w)) \in Int
      BY DEF Bit
    <3>9. Counted(w)' = Counted(w) /\ Counted(w) \in Int
      BY <2>0, HeldIs DEF Counted
    <3>10. Counted(w)' = Counted(w) - Bit(WalksOn(t, w)) + Bit(WalksOn(t, w)')
                           - Bit(Describes(None, w)) + Bit(Describes(None, w)')
                           - Bit(WorksIn(1, w)) + Bit(WorksIn(1, w)')
      BY <3>6, <3>7, <3>8, <3>9
    <3> QED BY <2>0, <3>1, <3>2, <3>3, <3>10, RefStep
  <2> QED BY <2>1 DEF RefInv
<1>9. CountInv' /\ OpenInv' /\ FreeInv'
  <2>1. CountInv /\ OpenInv /\ FreeInv
    BY DEF VfsInductive, DescInv
  <2> QED BY <1>0, <1>1, <1>3, <1>4, <2>1, DescFrame DEF Opens
<1>10. ChildInv'
  <2>1. 2 \in Contexts
    BY DEF Contexts
  <2> QED BY <1>0, <1>5, <2>1 DEF VfsInductive, DescInv, ChildInv
<1> QED BY <1>4, <1>6, <1>7, <1>8, <1>9, <1>10 DEF VfsInductive, NodesInv, DescInv

-----------------------------------------------------------------------------
(* The steps that take and put descriptors.                                *)

VFd == [alloc : BOOLEAN, ref : Nat, node : Nodes \cup {None}]

(* What is known of a descriptor.                                          *)
LEMMA DescIs ==
    ASSUME VfsInductive, NEW d \in Fds
    PROVE  /\ fd \in [Fds -> VFd] /\ fd[d] \in VFd /\ fd[d].ref \in Nat /\ leaked[d] \in Nat
           /\ IsFiniteSet(Puts(d)) /\ Refs(d) \in Nat
           /\ d \in lost => fd[d].alloc /\ Refs(d) = 0
           /\ d \notin lost => fd[d].ref = Refs(d) + leaked[d]
           /\ d \notin lost /\ fd[d].ref > 0 => fd[d].alloc /\ fd[d].node \in Nodes
           /\ d \notin lost /\ fd[d].ref = 0 => fd[d].node = None
           /\ \A c \in Contexts, s \in FdSlots : fds[c][s] = d => Refs(d) > 0
           /\ \A u \in Callers : \A i \in DOMAIN th[u].todo : th[u].todo[i] = d => Refs(d) > 0
<1>1. /\ fd \in [Fds -> VFd] /\ fd[d] \in VFd /\ fd[d].ref \in Nat /\ leaked[d] \in Nat
  BY DEF VfsInductive, StateInv, VFd
<1>2. CountOf(d)
  BY DEF VfsInductive, DescInv, CountInv
<1>3. IsFiniteSet(Puts(d))
  BY <1>2 DEF CountOf
<1>4. /\ \A c \in Contexts : /\ Cardinality(SlotsWith(c, d)) \in Nat
                             /\ Cardinality(SlotsWith(c, d)) = 0
                                    <=> \A s \in FdSlots : fds[c][s] # d
      /\ Cardinality(Puts(d)) \in Nat
      /\ Cardinality(Puts(d)) = 0
           <=> \A t \in Callers : \A i \in DOMAIN th[t].todo : th[t].todo[i] # d
      /\ Refs(d) \in Nat
      /\ Refs(d) = Cardinality(SlotsWith(1, d)) + Cardinality(SlotsWith(2, d))
                     + Cardinality(Puts(d))
  BY <1>3, RefsAre
<1>5. Cardinality(SlotsWith(1, d)) \in Nat /\ Cardinality(SlotsWith(2, d)) \in Nat
  BY <1>4 DEF Contexts
<1>6. ASSUME NEW c \in Contexts, NEW s \in FdSlots, fds[c][s] = d
      PROVE  Refs(d) > 0
  <2>1. Cardinality(SlotsWith(c, d)) \in Nat /\ Cardinality(SlotsWith(c, d)) # 0 /\ c \in {1, 2}
    BY <1>4, <1>6 DEF Contexts
  <2>2. CASE c = 1
    BY <1>4, <1>5, <2>1, <2>2
  <2>3. CASE c = 2
    BY <1>4, <1>5, <2>1, <2>3
  <2> QED BY <2>1, <2>2, <2>3
<1>7. ASSUME NEW u \in Callers, NEW i \in DOMAIN th[u].todo, th[u].todo[i] = d
      PROVE  Refs(d) > 0
  <2>1. Cardinality(Puts(d)) # 0
    BY <1>4, <1>7
  <2> QED BY <1>4, <1>5, <2>1
<1> QED BY <1>1, <1>2, <1>3, <1>4, <1>6, <1>7 DEF CountOf

(* Nobody else refers to a descriptor that has not got a slot yet.         *)
LEMMA OpenerAlone ==
    ASSUME VfsInductive, NEW u \in Callers, Opens(th[u]), NEW d, d = th[u].todo[1]
    PROVE  /\ d \in Fds /\ d \notin lost /\ fd[d].ref = 1 /\ fd[d].node = th[u].node
           /\ Refs(d) = 1 /\ leaked[d] = 0
           /\ \A c \in Contexts, s \in FdSlots : fds[c][s] # d
           /\ \A w \in Callers : w # u => \A i \in DOMAIN th[w].todo : th[w].todo[i] # d
<1>1. th[u].todo \in Seq(Fds) /\ Len(th[u].todo) = 1 /\ 1 \in DOMAIN th[u].todo /\ d \in Fds
  <2>1. th[u].todo \in Seq(Fds) /\ Len(th[u].todo) = 1
    BY ThreadIs DEF VShape, Opens
  <2> QED BY <2>1
<1>2. d \notin lost /\ fd[d].ref = 1 /\ fd[d].node = th[u].node
  BY DEF VfsInductive, DescInv, OpenInv
<1>3. Refs(d) > 0 /\ leaked[d] \in Nat /\ Refs(d) \in Nat /\ fd[d].ref = Refs(d) + leaked[d]
      /\ IsFiniteSet(Puts(d))
  BY <1>1, <1>2, DescIs
<1>4. Refs(d) = 1 /\ leaked[d] = 0
  BY <1>2, <1>3
<1>5. /\ \A c \in Contexts : /\ Cardinality(SlotsWith(c, d)) \in Nat
                             /\ Cardinality(SlotsWith(c, d)) = 0
                                    <=> \A s \in FdSlots : fds[c][s] # d
      /\ Cardinality(Puts(d)) \in Nat
      /\ Cardinality(Puts(d)) = 0
           <=> \A t \in Callers : \A i \in DOMAIN th[t].todo : th[t].todo[i] # d
      /\ Refs(d) = Cardinality(SlotsWith(1, d)) + Cardinality(SlotsWith(2, d))
                     + Cardinality(Puts(d))
  BY <1>3, RefsAre
<1>6. /\ Cardinality(SlotsWith(1, d)) \in Nat /\ Cardinality(SlotsWith(2, d)) \in Nat
      /\ Cardinality(Puts(d)) # 0
  BY <1>1, <1>5 DEF Contexts
<1>7. /\ Cardinality(SlotsWith(1, d)) = 0 /\ Cardinality(SlotsWith(2, d)) = 0
      /\ Cardinality(Puts(d)) = 1
  BY <1>4, <1>5, <1>6
<1>8. \A c \in Contexts, s \in FdSlots : fds[c][s] # d
  BY <1>5, <1>7 DEF Contexts
<1>9. ASSUME NEW w \in Callers, w # u, NEW i \in DOMAIN th[w].todo
      PROVE  th[w].todo[i] # d
  <2>1. PICK q : Puts(d) = {q}
    BY <1>3, <1>7, FS_Singleton
  <2>2. <<u, 1>> \in Puts(d)
    BY <1>1 DEF Puts, Places
  <2>3. th[w].todo[i] = d => <<w, i>> \in Puts(d)
    BY DEF Puts, Places
  <2> QED BY <1>9, <2>1, <2>2, <2>3
<1> QED BY <1>1, <1>2, <1>4, <1>8, <1>9

(* Nobody refers to one that is being freed.                               *)
LEMMA FreedAlone ==
    ASSUME VfsInductive, NEW u \in Callers, th[u].freeing # None, NEW d, d = th[u].freeing
    PROVE  /\ d \in Fds /\ d \notin lost /\ fd[d].alloc /\ fd[d].ref = 0
           /\ Refs(d) = 0 /\ leaked[d] = 0 /\ fd[d].node = None
           /\ \A w \in Callers : th[w].freeing = d => w = u
<1>1. d \in Fds
  BY ThreadIs DEF VThread
<1>2. /\ d \notin lost /\ fd[d].alloc /\ fd[d].ref = 0
      /\ \A w \in Callers : th[w].freeing = d => w = u
  BY DEF VfsInductive, DescInv, FreeInv
<1>3. Refs(d) \in Nat /\ leaked[d] \in Nat /\ fd[d].ref = Refs(d) + leaked[d]
      /\ fd[d].node = None
  BY <1>1, <1>2, DescIs
<1> QED BY <1>1, <1>2, <1>3

(* One descriptor changes, that no other call opens or frees.              *)
LEMMA DescStep ==
    ASSUME VfsInductive, NEW t \in Callers, NEW d,
           \A u \in Callers : u # t => th'[u] = th[u],
           \A e \in Fds : e # d => fd'[e] = fd[e] /\ (e \in lost' <=> e \in lost),
           \A u \in Callers : u # t /\ Opens(th[u]) => th[u].todo[1] # d,
           \A u \in Callers : u # t /\ th[u].freeing # None => th[u].freeing # d,
           Opens(th'[t]) => LET e == th'[t].todo[1]
                            IN  e \notin lost' /\ fd'[e].ref = 1 /\ fd'[e].node = th'[t].node,
           th'[t].freeing # None =>
               LET e == th'[t].freeing
               IN  /\ e \notin lost' /\ fd'[e].alloc /\ fd'[e].ref = 0
                   /\ \A u \in Callers : u # t => th[u].freeing # e
    PROVE  OpenInv' /\ FreeInv'
<1>1. ASSUME NEW u \in Callers, Opens(th'[u])
      PROVE  LET e == th'[u].todo[1]
             IN  e \notin lost' /\ fd'[e].ref = 1 /\ fd'[e].node = th'[u].node
  <2>1. CASE u = t
    BY <1>1, <2>1
  <2>2. CASE u # t
    <3> DEFINE e == th[u].todo[1]
    <3>1. th'[u] = th[u] /\ Opens(th[u]) /\ e # d
      BY <1>1, <2>2
    <3>2. e \in Fds /\ e \notin lost /\ fd[e].ref = 1 /\ fd[e].node = th[u].node
      BY <3>1, OpenerAlone
    <3> QED BY <3>1, <3>2
  <2> QED BY <2>1, <2>2
<1>2. ASSUME NEW u \in Callers, th'[u].freeing # None
      PROVE  LET e == th'[u].freeing IN e \notin lost' /\ fd'[e].alloc /\ fd'[e].ref = 0
  <2>1. CASE u = t
    BY <1>2, <2>1
  <2>2. CASE u # t
    <3> DEFINE e == th[u].freeing
    <3>1. th'[u] = th[u] /\ th[u].freeing # None /\ e # d
      BY <1>2, <2>2
    <3>2. e \in Fds /\ e \notin lost /\ fd[e].alloc /\ fd[e].ref = 0
      BY <3>1, FreedAlone
    <3> QED BY <3>1, <3>2
  <2> QED BY <2>1, <2>2
<1>3. ASSUME NEW u \in Callers, NEW w \in Callers, th'[u].freeing # None,
             th'[w].freeing = th'[u].freeing
      PROVE  u = w
  <2>1. CASE u = t \/ w = t
    BY <1>3, <2>1
  <2>2. CASE u # t /\ w # t
    <3>1. th'[u] = th[u] /\ th'[w] = th[w]
      BY <2>2
    <3> QED BY <1>3, <3>1, FreedAlone
  <2> QED BY <2>1, <2>2
<1>4. OpenInv'
  BY <1>1 DEF OpenInv, Opens
<1>5. FreeInv'
  BY <1>2, <1>3 DEF FreeInv
<1> QED BY <1>4, <1>5

(* The same for a call that neither opens nor frees one afterwards.        *)
LEMMA DescStepPlain ==
    ASSUME VfsInductive, NEW t \in Callers, NEW d,
           \A u \in Callers : u # t => th'[u] = th[u],
           \A e \in Fds : e # d => fd'[e] = fd[e] /\ (e \in lost' <=> e \in lost),
           \A u \in Callers : u # t /\ Opens(th[u]) => th[u].todo[1] # d,
           \A u \in Callers : u # t /\ th[u].freeing # None => th[u].freeing # d,
           ~Opens(th'[t]), th'[t].freeing = None
    PROVE  OpenInv' /\ FreeInv'
<1>1. ASSUME NEW u \in Callers, Opens(th'[u])
      PROVE  LET e == th'[u].todo[1]
             IN  e \notin lost' /\ fd'[e].ref = 1 /\ fd'[e].node = th'[u].node
  <2> DEFINE e == th[u].todo[1]
  <2>1. u # t /\ th'[u] = th[u] /\ Opens(th[u]) /\ e # d
    BY <1>1
  <2>2. e \in Fds /\ e \notin lost /\ fd[e].ref = 1 /\ fd[e].node = th[u].node
    BY <2>1, OpenerAlone
  <2> QED BY <2>1, <2>2
<1>2. ASSUME NEW u \in Callers, th'[u].freeing # None
      PROVE  /\ LET e == th'[u].freeing IN e \notin lost' /\ fd'[e].alloc /\ fd'[e].ref = 0
             /\ \A w \in Callers : th'[w].freeing = th'[u].freeing => u = w
  <2> DEFINE e == th[u].freeing
  <2>1. u # t /\ th'[u] = th[u] /\ th[u].freeing # None /\ e # d
    BY <1>2
  <2>2. /\ e \in Fds /\ e \notin lost /\ fd[e].alloc /\ fd[e].ref = 0
        /\ \A w \in Callers : th[w].freeing = e => w = u
    BY <2>1, FreedAlone
  <2>3. \A w \in Callers : th'[w].freeing = th'[u].freeing => u = w
    BY <2>1, <2>2
  <2> QED BY <2>1, <2>2, <2>3
<1>4. OpenInv'
  BY <1>1 DEF OpenInv, Opens
<1>5. FreeInv'
  BY <1>2 DEF FreeInv
<1> QED BY <1>4, <1>5

(* The vnodes stay: a descriptor and a call exchange a reference, or       *)
(* neither of them has one.                                                *)
LEMMA NodesSwap ==
    ASSUME VfsInductive, NEW t \in Callers, NEW d, UNCHANGED <<vnode, table, linked, cwd>>,
           ThreadsInv', \A u \in Callers : u # t => th'[u] = th[u],
           th'[t].pc \notin BusyPcs \cup {"got", "found"},
           \A e \in Fds : e # d => fd'[e].alloc = fd[e].alloc /\ fd'[e].node = fd[e].node
                                   /\ (e \in lost' <=> e \in lost),
           \A w \in Nodes : Bit(WalksOn(t, w)') + Bit(Describes(d, w)')
                               = Bit(WalksOn(t, w)) + Bit(Describes(d, w))
    PROVE  NodesInv'
<1>1. TableInv' /\ DelInv' /\ BusyInv'
  <2>1. \A u \in Callers : th'[u].pc \in BusyPcs => th'[u].node \in Nodes
    BY DEF ThreadsInv, VShape, BusyPcs, NodePcs
  <2>2. \A f \in Files : table[f] # None => table[f] \in Nodes
    BY DEF VfsInductive, StateInv
  <2>3. TableInv /\ DelInv /\ BusyInv
    BY DEF VfsInductive, NodesInv
  <2>4. \A w \in Nodes : vnode'[w].alloc /\ vnode'[w].del =>
                            vnode[w].del \/ vnode[w].file \notin linked'
    OBVIOUS
  <2> QED BY <2>1, <2>2, <2>3, <2>4, VnodesKeep
<1>2. RefInv'
  <2>0. RefInv
    BY DEF VfsInductive, NodesInv
  <2>1. ASSUME NEW w \in Nodes
        PROVE  (Holders(w) = Counted(w))'
    <3>1. \A u \in Callers : u # t => (WalksOn(u, w)' <=> WalksOn(u, w))
      BY DEF WalksOn
    <3>2. \A e \in Fds : e # d => (Describes(e, w)' <=> Describes(e, w))
      BY DEF Describes
    <3>3. \A b \in Contexts : b # 0 => (WorksIn(b, w)' <=> WorksIn(b, w))
      BY DEF WorksIn
    <3>4. Bit(WorksIn(0, w)') = Bit(WorksIn(0, w))
      BY DEF WorksIn
    <3>5. /\ Bit(WalksOn(t, w)) \in Int /\ Bit(WalksOn(t, w)') \in Int
          /\ Bit(Describes(d, w)) \in Int /\ Bit(Describes(d, w)') \in Int
          /\ Bit(WorksIn(0, w)) \in Int
      BY DEF Bit
    <3>6. Counted(w)' = Counted(w) /\ Counted(w) \in Int
      BY HeldIs DEF Counted
    <3>7. Bit(WalksOn(t, w)') + Bit(Describes(d, w)') = Bit(WalksOn(t, w)) + Bit(Describes(d, w))
      OBVIOUS
    <3>8. Counted(w)' = Counted(w) - Bit(WalksOn(t, w)) + Bit(WalksOn(t, w)')
                          - Bit(Describes(d, w)) + Bit(Describes(d, w)')
                          - Bit(WorksIn(0, w)) + Bit(WorksIn(0, w)')
      <4> DEFINE a == Bit(WalksOn(t, w))
                 b == Bit(WalksOn(t, w)')
                 p == Bit(Describes(d, w))
                 q == Bit(Describes(d, w)')
                 z == Bit(WorksIn(0, w))
                 k == Counted(w)
      <4>1. a \in Int /\ b \in Int /\ p \in Int /\ q \in Int /\ z \in Int /\ k \in Int
        BY <3>5, <3>6
      <4>3. b + q = a + p
        BY <3>7
      <4> HIDE DEF a, b, p, q, z, k
      <4>4. k = k - a + b - p + q - z + z
        BY <4>1, <4>3
      <4>2. Counted(w) = Counted(w) - Bit(WalksOn(t, w)) + Bit(WalksOn(t, w)')
                          - Bit(Describes(d, w)) + Bit(Describes(d, w)')
                          - Bit(WorksIn(0, w)) + Bit(WorksIn(0, w))
        BY <4>4 DEF a, b, p, q, z, k
      <4> QED BY <3>4, <3>6, <4>2
    <3> QED BY <2>0, <3>1, <3>2, <3>3, <3>8, RefStep
  <2> QED BY <2>1 DEF RefInv
<1> QED BY <1>1, <1>2 DEF NodesInv

(* How the references of a descriptor change.                              *)
LEMMA CountStep ==
    ASSUME VfsInductive, NEW t \in Callers, NEW s, NEW d \in Fds, ThreadsInv',
           \A u \in Callers : u # t => th'[u] = th[u],
           \A r \in FdSlots : r # s => fds'[1][r] = fds[1][r],
           \A r \in FdSlots : fds'[2][r] = fds[2][r]
    PROVE  /\ IsFiniteSet(Puts(d)') /\ Refs(d) \in Nat
           /\ Refs(d)' = Refs(d) - Bit(InSlot(s, d)) + Bit(InSlot(s, d)')
                                 - Cardinality(Places(th[t].todo, d))
                                 + Cardinality(Places(th'[t].todo, d))
<1>1. IsFiniteSet(Puts(d)) /\ th[t].todo \in Seq(Fds)
  BY DescIs, ThreadIs
<1>2. th'[t].todo \in Seq(Fds)
  BY DEF ThreadsInv, VThread
<1> QED BY <1>1, <1>2, RefsStep

(* The same when no slot changes.                                          *)
LEMMA CountTodo ==
    ASSUME VfsInductive, NEW t \in Callers, NEW d \in Fds, ThreadsInv', fds' = fds,
           \A u \in Callers : u # t => th'[u] = th[u]
    PROVE  /\ IsFiniteSet(Puts(d)') /\ Refs(d) \in Nat
           /\ Refs(d)' = Refs(d) - Cardinality(Places(th[t].todo, d))
                                 + Cardinality(Places(th'[t].todo, d))
<1>1. /\ IsFiniteSet(Puts(d)') /\ Refs(d) \in Nat
      /\ Refs(d)' = Refs(d) - Bit(InSlot(0, d)) + Bit(InSlot(0, d)')
                            - Cardinality(Places(th[t].todo, d))
                            + Cardinality(Places(th'[t].todo, d))
  BY CountStep
<1>2. Bit(InSlot(0, d)) = 0 /\ Bit(InSlot(0, d)') = 0
  <2>1. 0 \notin FdSlots
    BY VfsAssumption DEF FdSlots
  <2> QED BY <2>1 DEF InSlot, Bit
<1>3. /\ Cardinality(Places(th[t].todo, d)) \in Nat
      /\ Cardinality(Places(th'[t].todo, d)) \in Nat
  <2>1. th[t].todo \in Seq(Fds) /\ th'[t].todo \in Seq(Fds)
    BY ThreadIs DEF ThreadsInv, VThread
  <2> QED BY <2>1, PlacesFinite
<1> QED BY <1>1, <1>2, <1>3

(* A list with one descriptor.                                             *)
LEMMA ListOfOne ==
    ASSUME NEW s \in Seq(Fds), Len(s) = 1
    PROVE  s = <<s[1]>> /\ s[1] \in Fds /\ 1 \in DOMAIN s /\ s # <<>>
OBVIOUS

(* vfs_open has a descriptor.                                              *)
LEMMA OpenFileKeeps ==
    ASSUME VfsInductive, NEW t \in Callers, OpenFile(t)
    PROVE  VfsInductive'
<1> DEFINE v == th[t].node
<1>0. /\ th[t].pc = "have" /\ th[t].op = "open"
      /\ UNCHANGED <<vfsVars, fsVars, fds, cwd, child, iolock, leaked, lost>>
  BY DEF OpenFile, At
<1>1. PICK d \in Fds : /\ ~fd[d].alloc
                       /\ fd' = [fd EXCEPT ![d] = [alloc |-> TRUE, ref |-> 1, node |-> v]]
                       /\ th' = [th EXCEPT ![t].pc = "newfd", ![t].todo = <<d>>]
  BY DEF OpenFile
<1>2. /\ th[t] \in VThread /\ VShape(th[t]) /\ v \in Nodes /\ th[t].todo = <<>>
      /\ th[t].freeing = None
  BY <1>0, ThreadIs DEF VShape, NodePcs, FreePcs
<1> DEFINE r == [th[t] EXCEPT !.pc = "newfd", !.todo = <<d>>]
<1>3. th' = [th EXCEPT ![t] = r]
  BY <1>1, ThreadIs
<1>4. /\ r \in VThread /\ r.pc = "newfd" /\ r.todo = <<d>> /\ r.freeing = None
      /\ r.node = v /\ r.op = "open"
  <2> DEFINE l == <<d>>
  <2>1. l \in Seq(Fds)
    OBVIOUS
  <2> HIDE DEF l
  <2>2. [th[t] EXCEPT !.pc = "newfd", !.todo = l] \in VThread
    BY <1>2, <2>1 DEF VThread, VfsPcs
  <2> QED BY <1>0, <1>2, <2>2 DEF VThread, l
<1> HIDE DEF r
<1>5. VShape(r)
  BY <1>2, <1>4 DEF VShape, WalkPcs, NodePcs, FreePcs
<1>6. ThreadsInv' /\ th'[t] = r /\ \A u \in Callers : u # t => th'[u] = th[u]
  BY <1>3, <1>4, <1>5, ThreadsStep DEF VfsInductive
<1>7. /\ d \notin lost /\ fd[d].ref = 0 /\ Refs(d) = 0 /\ leaked[d] = 0 /\ leaked[d] \in Nat
      /\ fd \in [Fds -> VFd] /\ Refs(d) \in Nat
  BY <1>1, DescIs
<1>8. /\ fd' \in [Fds -> VFd] /\ fd'[d].alloc /\ fd'[d].ref = 1 /\ fd'[d].node = v
      /\ \A e \in Fds : e # d => fd'[e] = fd[e]
  BY <1>1, <1>2, <1>7 DEF VFd
<1>9. StateInv'
  BY <1>0, <1>8 DEF VfsInductive, StateInv, VFd, vfsVars, fsVars
<1>10. NodesInv'
  <2>1. ASSUME NEW w \in Nodes
        PROVE  Bit(WalksOn(t, w)') + Bit(Describes(d, w)')
                  = Bit(WalksOn(t, w)) + Bit(Describes(d, w))
    <3>1. ~WalksOn(t, w)' /\ (Describes(d, w)' <=> w = v)
      BY <1>0, <1>4, <1>6, <1>7, <1>8 DEF WalksOn, Describes
    <3>2. ~Describes(d, w) /\ (WalksOn(t, w) <=> w = v)
      BY <1>0, <1>1 DEF WalksOn, Describes
    <3> QED BY <3>1, <3>2 DEF Bit
  <2>2. /\ UNCHANGED <<vnode, table, linked, cwd>> /\ lost' = lost
        /\ th'[t].pc \notin BusyPcs \cup {"got", "found"}
    BY <1>0, <1>4, <1>6 DEF vfsVars, fsVars, BusyPcs
  <2> QED BY <1>6, <1>8, <2>1, <2>2, NodesSwap
<1>11. CountInv'
  <2>1. ASSUME NEW e \in Fds
        PROVE  CountOf(e)'
    <3>1. /\ IsFiniteSet(Puts(e)') /\ Refs(e) \in Nat
          /\ Refs(e)' = Refs(e) - Cardinality(Places(<<>>, e)) + Cardinality(Places(<<d>>, e))
      BY <1>0, <1>2, <1>4, <1>6, CountTodo
    <3>2. Refs(e)' = Refs(e) + Bit(d = e)
      BY <3>1, PlacesShort DEF Bit
    <3>3. CASE e = d
      <4>1. Refs(d)' = 1
        BY <1>7, <3>2, <3>3 DEF Bit
      <4> QED BY <1>0, <1>2, <1>7, <1>8, <3>1, <3>3, <4>1 DEF CountOf
    <3>4. CASE e # d
      <4>1. Refs(e)' = Refs(e)
        BY <3>1, <3>2, <3>4 DEF Bit
      <4> QED BY <1>0, <1>8, <3>1, <3>4, <4>1, DescIs DEF CountOf
    <3> QED BY <3>3, <3>4
  <2> QED BY <2>1 DEF CountInv
<1>12. OpenInv' /\ FreeInv'
  <2>1. \A u \in Callers : u # t /\ Opens(th[u]) => th[u].todo[1] # d
    BY <1>7, OpenerAlone
  <2>2. \A u \in Callers : u # t /\ th[u].freeing # None => th[u].freeing # d
    BY <1>1, FreedAlone
  <2>3. th'[t].todo[1] = d /\ th'[t].freeing = None /\ th'[t].node = v
    BY <1>4, <1>6
  <2> QED BY <1>0, <1>6, <1>7, <1>8, <2>1, <2>2, <2>3, DescStep
<1>13. ChildInv'
  BY <1>0 DEF VfsInductive, DescInv, ChildInv
<1> QED BY <1>6, <1>9, <1>10, <1>11, <1>12, <1>13 DEF VfsInductive, DescInv

(* A descriptor and a call that have nothing to do with vnodes.            *)
LEMMA NodesQuiet ==
    ASSUME VfsInductive, NEW t \in Callers, UNCHANGED <<vnode, table, linked, cwd>>,
           ThreadsInv', \A u \in Callers : u # t => th'[u] = th[u],
           th[t].pc \notin {"got", "found", "have", "dec"},
           th'[t].pc \notin BusyPcs \cup {"got", "found", "have", "dec"},
           \A e \in Fds : \/ fd'[e].alloc = fd[e].alloc /\ fd'[e].node = fd[e].node
                          \/ fd[e].node = None /\ fd'[e].node = None,
           \A e \in Fds : e \in lost' <=> e \in lost
    PROVE  NodesInv'
<1>1. TableInv' /\ DelInv' /\ BusyInv'
  <2>1. \A u \in Callers : th'[u].pc \in BusyPcs => th'[u].node \in Nodes
    BY DEF ThreadsInv, VShape, BusyPcs, NodePcs
  <2>2. \A f \in Files : table[f] # None => table[f] \in Nodes
    BY DEF VfsInductive, StateInv
  <2>3. TableInv /\ DelInv /\ BusyInv
    BY DEF VfsInductive, NodesInv
  <2>4. \A w \in Nodes : vnode'[w].alloc /\ vnode'[w].del =>
                            vnode[w].del \/ vnode[w].file \notin linked'
    OBVIOUS
  <2> QED BY <2>1, <2>2, <2>3, <2>4, VnodesKeep
<1>2. RefInv'
  <2>1. ASSUME NEW w \in Nodes
        PROVE  Holders(w)' = Holders(w) /\ Counted(w)' = Counted(w)
    <3>1. \A u \in Callers : WalksOn(u, w)' <=> WalksOn(u, w)
      BY DEF WalksOn
    <3>2. Walkers(w)' = Walkers(w)
      <4>1. Walkers(w) = {u \in Callers : WalksOn(u, w)}
            /\ Walkers(w)' = {u \in Callers : WalksOn(u, w)'}
        BY DEF Walkers, WalksOn
      <4> QED BY <3>1, <4>1
    <3>3. OpenOn(w)' = OpenOn(w)
      BY VfsAssumption DEF OpenOn
    <3>4. CwdIn(w)' = CwdIn(w)
      BY DEF CwdIn
    <3> QED BY <3>2, <3>3, <3>4 DEF Holders, Counted
  <2> QED BY <2>1 DEF VfsInductive, NodesInv, RefInv
<1> QED BY <1>1, <1>2 DEF NodesInv

(* new_fd puts the descriptor of a call into a slot.                       *)
LEMMA NewFdKeeps ==
    ASSUME VfsInductive, NEW t \in Callers, NewFd(t)
    PROVE  VfsInductive'
<1>a. PICK d : d = th[t].todo[1]
  OBVIOUS
<1>b. PICK s : s = FirstFree
  OBVIOUS
<1>0. /\ th[t].pc = "newfd" /\ FreeSlots # {} /\ fds' = [fds EXCEPT ![1][s] = d]
      /\ th' = [th EXCEPT ![t] = Idle]
      /\ UNCHANGED <<vfsVars, fsVars, fd, cwd, child, iolock, leaked, lost>>
  BY <1>a, <1>b DEF NewFd, At
<1>1. /\ th[t].todo = <<d>> /\ d \in Fds /\ 1 \in DOMAIN th[t].todo
  <2>1. th[t].todo \in Seq(Fds) /\ Len(th[t].todo) = 1
    BY <1>0, ThreadIs DEF VShape
  <2> QED BY <1>a, <2>1, ListOfOne
<1>2. s \in FdSlots /\ fds[1][s] = None
  <2>1. FreeSlots \in SUBSET Nat
    BY VfsAssumption DEF FreeSlots, FdSlots
  <2>2. \E k \in FreeSlots : \A r \in FreeSlots : k <= r
    BY <1>0, <2>1, MinNat
  <2>3. s \in FreeSlots
    BY <1>b, <2>2 DEF FirstFree
  <2> QED BY <2>3 DEF FreeSlots
<1>3. fds \in [Contexts -> [FdSlots -> Fds \cup {None}]] /\ 1 \in Contexts /\ 2 \in Contexts
  BY DEF VfsInductive, StateInv, Contexts
<1>4. /\ fds' \in [Contexts -> [FdSlots -> Fds \cup {None}]] /\ fds'[1][s] = d
      /\ fds'[2] = fds[2] /\ \A r \in FdSlots : r # s => fds'[1][r] = fds[1][r]
  BY <1>0, <1>1, <1>2, <1>3
<1>5. ThreadsInv' /\ th'[t] = Idle /\ \A u \in Callers : u # t => th'[u] = th[u]
  BY <1>0, VfsRecords, ThreadsStep DEF VfsInductive
<1>6. StateInv'
  BY <1>0, <1>4 DEF VfsInductive, StateInv, vfsVars, fsVars
<1>7. NodesInv'
  <2>1. /\ UNCHANGED <<vnode, table, linked, cwd, fd, lost>>
        /\ th'[t].pc \notin BusyPcs \cup {"got", "found", "have", "dec"}
    BY <1>0, <1>5, VfsRecords DEF vfsVars, fsVars, BusyPcs
  <2> QED BY <1>0, <1>5, <2>1, NodesQuiet
<1>8. CountInv'
  <2>1. ASSUME NEW e \in Fds
        PROVE  CountOf(e)'
    <3>1. /\ IsFiniteSet(Puts(e)') /\ Refs(e) \in Nat
          /\ Refs(e)' = Refs(e) - Bit(InSlot(s, e)) + Bit(InSlot(s, e)')
                          - Cardinality(Places(<<d>>, e)) + Cardinality(Places(<<>>, e))
      <4>1. /\ IsFiniteSet(Puts(e)') /\ Refs(e) \in Nat
            /\ Refs(e)' = Refs(e) - Bit(InSlot(s, e)) + Bit(InSlot(s, e)')
                            - Cardinality(Places(th[t].todo, e))
                            + Cardinality(Places(th'[t].todo, e))
        BY <1>4, <1>5, CountStep
      <4>2. th'[t].todo = <<>>
        BY <1>5, VfsRecords
      <4> QED BY <1>1, <4>1, <4>2
    <3>2. Bit(InSlot(s, e)) = 0 /\ Bit(InSlot(s, e)') = Bit(d = e)
      <4>1. ~InSlot(s, e) /\ (InSlot(s, e)' <=> d = e)
        BY <1>2, <1>4, VfsAssumption DEF InSlot
      <4> QED BY <4>1 DEF Bit
    <3>3. Refs(e)' = Refs(e)
      BY <3>1, <3>2, PlacesShort DEF Bit
    <3> QED BY <1>0, <3>1, <3>3, DescIs DEF CountOf
  <2> QED BY <2>1 DEF CountInv
<1>9. OpenInv' /\ FreeInv'
  <2>1. \A u \in Callers : u # t /\ Opens(th[u]) => th[u].todo[1] # None
    BY OpenerAlone, VfsAssumption
  <2>2. ~Opens(th'[t]) /\ th'[t].freeing = None
    BY <1>5, VfsRecords DEF Opens
  <2>3. \A e \in Fds : e # None => fd'[e] = fd[e] /\ (e \in lost' <=> e \in lost)
    BY <1>0
  <2> QED BY <1>5, <2>1, <2>2, <2>3, DescStepPlain
<1>10. ChildInv'
  BY <1>0, <1>4 DEF VfsInductive, DescInv, ChildInv
<1> QED BY <1>5, <1>6, <1>7, <1>8, <1>9, <1>10 DEF VfsInductive, DescInv

(* There is no slot.                                                       *)
LEMMA NewFdFullKeeps ==
    ASSUME VfsInductive, NEW t \in Callers, NewFdFull(t)
    PROVE  VfsInductive'
<1>a. PICK d : d = th[t].todo[1]
  OBVIOUS
<1>b. PICK v : v = th[t].node
  OBVIOUS
<1>0. /\ th[t].pc = "newfd"
      /\ UNCHANGED <<vfsVars, fsVars, fd, fds, cwd, child, iolock, leaked>>
      /\ \/ /\ th[t].op = "open" /\ th' = [th EXCEPT ![t] = Drop(v, <<>>)]
            /\ lost' = lost \cup {d}
         \/ th[t].op = "dup" /\ th' = [th EXCEPT ![t] = Rest(th[t].todo)] /\ UNCHANGED lost
  BY <1>a, <1>b, ThreadIs DEF NewFdFull, At
<1>1. /\ th[t].todo = <<d>> /\ d \in Fds /\ 1 \in DOMAIN th[t].todo /\ th[t].todo \in Seq(Fds)
      /\ th[t].freeing = None
  <2>1. th[t].todo \in Seq(Fds) /\ Len(th[t].todo) = 1 /\ th[t].freeing = None
    BY <1>0, ThreadIs DEF VShape, FreePcs
  <2> QED BY <1>a, <2>1, ListOfOne
<1>2. CASE th[t].op = "dup" /\ th' = [th EXCEPT ![t] = Rest(th[t].todo)] /\ UNCHANGED lost
  <2> DEFINE r == Rest(th[t].todo)
  <2>1. /\ r \in VThread /\ VShape(r) /\ r.pc \in {"run", "put"}
        /\ r.todo = th[t].todo /\ r.freeing = th[t].freeing
    BY <1>1, VfsRecords
  <2> HIDE DEF r
  <2>2. /\ exists' \subseteq Files /\ fslock' \in Callers \cup {None}
        /\ UNCHANGED <<vfsVars, linked, ioVars>>
    BY <1>0, <1>2 DEF VfsInductive, StateInv, fsVars, ioVars
  <2>3. \A w \in Nodes : WalksWith(r, w) <=> WalksOn(t, w)
    BY <1>0, <2>1 DEF WalksWith, WalksOn
  <2>4. th' = [th EXCEPT ![t] = r] /\ ~Opens(r) /\ r.pc \notin BusyPcs
    BY <1>2, <2>1 DEF Opens, BusyPcs, r
  <2> QED BY <2>1, <2>2, <2>3, <2>4, ThreadMoves
<1>3. CASE /\ th[t].op = "open" /\ th' = [th EXCEPT ![t] = Drop(v, <<>>)]
           /\ lost' = lost \cup {d}
  <2>1. Opens(th[t])
    BY <1>0, <1>3 DEF Opens
  <2>2. /\ d \notin lost /\ fd[d].ref = 1 /\ fd[d].node = v /\ Refs(d) = 1 /\ leaked[d] = 0
        /\ fd[d].alloc /\ v \in Nodes
        /\ \A w \in Callers : w # t => \A i \in DOMAIN th[w].todo : th[w].todo[i] # d
    <3>1. /\ d \notin lost /\ fd[d].ref = 1 /\ fd[d].node = v /\ Refs(d) = 1 /\ leaked[d] = 0
          /\ \A w \in Callers : w # t => \A i \in DOMAIN th[w].todo : th[w].todo[i] # d
      BY <1>a, <1>b, <2>1, OpenerAlone
    <3>2. fd[d].alloc /\ fd[d].node \in Nodes
      BY <1>1, <3>1, DescIs
    <3> QED BY <3>1, <3>2
  <2> DEFINE r == Drop(v, <<>>)
  <2>3. /\ r \in VThread /\ VShape(r) /\ r.pc = "dec" /\ r.node = v /\ r.todo = <<>>
        /\ r.freeing = None
    <3>1. <<>> \in Seq(Fds)
      OBVIOUS
    <3>2. v \in Nodes
      BY <2>2
    <3>3. /\ Drop(v, <<>>) \in VThread /\ VShape(Drop(v, <<>>))
          /\ Drop(v, <<>>).todo = <<>> /\ Drop(v, <<>>).freeing = None
          /\ Drop(v, <<>>).pc = "dec" /\ Drop(v, <<>>).node = v
      <4> HIDE DEF r
      <4> QED BY <3>2, DropsLast
    <3> QED BY <3>3
  <2> HIDE DEF r
  <2>4. ThreadsInv' /\ th'[t] = r /\ \A u \in Callers : u # t => th'[u] = th[u]
    BY <1>3, <2>3, ThreadsStep DEF VfsInductive, r
  <2>5. StateInv'
    BY <1>0, <1>1, <1>3 DEF VfsInductive, StateInv, vfsVars, fsVars
  <2>6. NodesInv'
    <3>1. ASSUME NEW w \in Nodes
          PROVE  Bit(WalksOn(t, w)') + Bit(Describes(d, w)')
                    = Bit(WalksOn(t, w)) + Bit(Describes(d, w))
      <4>1. ~Describes(d, w)' /\ (WalksOn(t, w)' <=> w = v)
        BY <1>0, <1>3, <2>3, <2>4 DEF WalksOn, Describes
      <4>2. ~WalksOn(t, w) /\ (Describes(d, w) <=> w = v)
        BY <1>0, <1>1, <2>2 DEF WalksOn, Describes
      <4> QED BY <4>1, <4>2 DEF Bit
    <3>2. /\ UNCHANGED <<vnode, table, linked, cwd>> /\ fd' = fd
          /\ th'[t].pc \notin BusyPcs \cup {"got", "found"}
      BY <1>0, <2>3, <2>4 DEF vfsVars, fsVars, BusyPcs
    <3>3. \A e \in Fds : e # d => (e \in lost' <=> e \in lost)
      BY <1>3
    <3> QED BY <2>4, <3>1, <3>2, <3>3, NodesSwap
  <2>7. CountInv'
    <3>1. ASSUME NEW e \in Fds
          PROVE  CountOf(e)'
      <4>1. /\ IsFiniteSet(Puts(e)') /\ Refs(e) \in Nat
            /\ Refs(e)' = Refs(e) - Cardinality(Places(<<d>>, e)) + Cardinality(Places(<<>>, e))
        BY <1>0, <1>1, <2>3, <2>4, CountTodo
      <4>2. Refs(e)' = Refs(e) - Bit(d = e)
        BY <4>1, PlacesShort DEF Bit
      <4>3. CASE e = d
        <5>1. Refs(d)' = 0
          BY <2>2, <4>2, <4>3 DEF Bit
        <5> QED BY <1>0, <1>3, <2>2, <4>1, <4>3, <5>1 DEF CountOf
      <4>4. CASE e # d
        <5>1. Refs(e)' = Refs(e)
          BY <4>1, <4>2, <4>4 DEF Bit
        <5> QED BY <1>0, <1>3, <4>1, <4>4, <5>1, DescIs DEF CountOf
      <4> QED BY <4>3, <4>4
    <3> QED BY <3>1 DEF CountInv
  <2>8. OpenInv' /\ FreeInv'
    <3>1. \A u \in Callers : u # t /\ Opens(th[u]) => th[u].todo[1] # d
      <4>1. ASSUME NEW u \in Callers, u # t, Opens(th[u])
            PROVE  th[u].todo[1] # d
        <5>1. th[u].todo \in Seq(Fds) /\ Len(th[u].todo) = 1
          BY <4>1, ThreadIs DEF VShape, Opens
        <5>2. 1 \in DOMAIN th[u].todo
          BY <5>1
        <5> QED BY <2>2, <4>1, <5>2
      <4> QED BY <4>1
    <3>2. \A u \in Callers : u # t /\ th[u].freeing # None => th[u].freeing # d
      BY <2>2, FreedAlone
    <3>3. ~Opens(th'[t]) /\ th'[t].freeing = None
      BY <2>3, <2>4 DEF Opens
    <3>4. \A e \in Fds : e # d => fd'[e] = fd[e] /\ (e \in lost' <=> e \in lost)
      BY <1>0, <1>3
    <3> QED BY <2>4, <3>1, <3>2, <3>3, <3>4, DescStepPlain
  <2>9. ChildInv'
    BY <1>0 DEF VfsInductive, DescInv, ChildInv
  <2> QED BY <2>4, <2>5, <2>6, <2>7, <2>8, <2>9 DEF VfsInductive, DescInv
<1> QED BY <1>0, <1>2, <1>3

(* A descriptor that is in a slot of the first io context is alive, and    *)
(* nobody else is about to open or free it.                                *)
LEMMA SlotIs ==
    ASSUME VfsInductive, NEW s \in FdSlots, NEW d, fds[1][s] = d, d # None
    PROVE  /\ d \in Fds /\ d \notin lost /\ fd[d].alloc /\ fd[d].ref > 0 /\ fd[d].node \in Nodes
           /\ Refs(d) > 0 /\ fd[d] \in VFd
           /\ \A u \in Callers : Opens(th[u]) => th[u].todo[1] # d
           /\ \A u \in Callers : th[u].freeing # None => th[u].freeing # d
<1>1. 1 \in Contexts /\ d \in Fds
  BY DEF VfsInductive, StateInv, Contexts
<1>2. Refs(d) > 0 /\ fd[d] \in VFd /\ fd[d].ref \in Nat /\ leaked[d] \in Nat /\ Refs(d) \in Nat
  BY <1>1, DescIs
<1>3. d \notin lost
  BY <1>1, <1>2, DescIs
<1>4. fd[d].ref > 0
  BY <1>1, <1>2, <1>3, DescIs
<1>5. fd[d].alloc /\ fd[d].node \in Nodes
  BY <1>1, <1>3, <1>4, DescIs
<1>6. \A u \in Callers : Opens(th[u]) => th[u].todo[1] # d
  BY <1>1, OpenerAlone
<1>7. \A u \in Callers : th[u].freeing # None => th[u].freeing # d
  BY <1>2, FreedAlone
<1> QED BY <1>1, <1>2, <1>3, <1>4, <1>5, <1>6, <1>7

(* One descriptor's count changes.                                         *)
LEMMA RefChanges ==
    ASSUME VfsInductive, NEW d \in Fds, NEW n \in Nat, fd' = [fd EXCEPT ![d].ref = n]
    PROVE  /\ fd' \in [Fds -> VFd] /\ fd'[d].ref = n
           /\ fd'[d].alloc = fd[d].alloc /\ fd'[d].node = fd[d].node
           /\ \A e \in Fds : e # d => fd'[e] = fd[e]
<1>1. fd \in [Fds -> VFd] /\ fd[d] \in VFd
  BY DescIs
<1> DEFINE x == [fd[d] EXCEPT !.ref = n]
<1>2. x \in VFd /\ x.ref = n /\ x.alloc = fd[d].alloc /\ x.node = fd[d].node
  BY <1>1 DEF VFd
<1>3. fd' = [fd EXCEPT ![d] = x]
  BY <1>1
<1> HIDE DEF x
<1> QED BY <1>1, <1>2, <1>3

(* get_fd gives a call a descriptor.                                       *)
LEMMA GetFdKeeps ==
    ASSUME VfsInductive, NEW t \in Callers, NEW op \in {"read", "ioctl", "close", "dup"},
           NEW s \in FdSlots, GetFd(t, op, s)
    PROVE  VfsInductive'
<1>a. PICK d : d = fds[1][s]
  OBVIOUS
<1> DEFINE l == <<d>>
           r == [Idle EXCEPT !.pc = IF op = "dup" THEN "newfd" ELSE "use",
                             !.op = op, !.todo = l, !.slot = IF op = "close" THEN s ELSE 0]
<1>0. /\ th[t].pc = "run" /\ d # None /\ fd' = [fd EXCEPT ![d].ref = @ + 1]
      /\ th' = [th EXCEPT ![t] = r]
      /\ UNCHANGED <<vfsVars, fsVars, fds, cwd, child, iolock, leaked, lost>>
  BY <1>a DEF GetFd, At
<1>1. /\ d \in Fds /\ d \notin lost /\ fd[d].alloc /\ fd[d].ref > 0 /\ fd[d].node \in Nodes
      /\ fd[d] \in VFd
      /\ \A u \in Callers : Opens(th[u]) => th[u].todo[1] # d
      /\ \A u \in Callers : th[u].freeing # None => th[u].freeing # d
  BY <1>0, <1>a, SlotIs
<1>2. /\ r \in VThread /\ r.pc = (IF op = "dup" THEN "newfd" ELSE "use") /\ r.op = op
      /\ r.todo = l /\ r.slot = (IF op = "close" THEN s ELSE 0) /\ r.freeing = None
  <2>1. l \in Seq(Fds)
    BY <1>1
  <2> HIDE DEF l
  <2>2. Idle \in VThread /\ Idle.freeing = None
    BY VfsRecords
  <2>3. (IF op = "close" THEN s ELSE 0) \in {0} \cup FdSlots
    OBVIOUS
  <2> DEFINE p == IF op = "dup" THEN "newfd" ELSE "use"
             n == IF op = "close" THEN s ELSE 0
  <2>4. p \in {"newfd", "use"} /\ n \in {0} \cup FdSlots
    BY <2>3
  <2>5. r = [Idle EXCEPT !.pc = p, !.op = op, !.todo = l, !.slot = n]
    OBVIOUS
  <2> HIDE DEF p, n, r
  <2>6. /\ r \in VThread /\ r.pc = p /\ r.op = op /\ r.todo = l /\ r.slot = n
        /\ r.freeing = None
    BY <2>1, <2>2, <2>4, <2>5 DEF VThread, VfsPcs
  <2> QED BY <2>6 DEF p, n
<1>3. l \in Seq(Fds) /\ Len(l) = 1 /\ l # <<>> /\ l = <<d>>
  BY <1>1
<1> HIDE DEF r, l
<1>4. VShape(r)
  BY <1>2, <1>3 DEF VShape, WalkPcs, NodePcs, FreePcs
<1>5. ThreadsInv' /\ th'[t] = r /\ \A u \in Callers : u # t => th'[u] = th[u]
  BY <1>0, <1>2, <1>4, ThreadsStep DEF VfsInductive
<1>6. /\ fd' \in [Fds -> VFd] /\ fd'[d].ref = fd[d].ref + 1
      /\ fd'[d].alloc = fd[d].alloc /\ fd'[d].node = fd[d].node
      /\ \A e \in Fds : e # d => fd'[e] = fd[e]
  <2>1. PICK n \in Nat : n = fd[d].ref + 1
    BY <1>1 DEF VFd
  <2>2. fd' = [fd EXCEPT ![d].ref = n]
    BY <1>0, <2>1
  <2> QED BY <1>1, <2>1, <2>2, RefChanges
<1>7. StateInv'
  BY <1>0, <1>6 DEF VfsInductive, StateInv, VFd, vfsVars, fsVars
<1>8. NodesInv'
  <2>1. /\ UNCHANGED <<vnode, table, linked, cwd, lost>>
        /\ th'[t].pc \notin BusyPcs \cup {"got", "found", "have", "dec"}
    BY <1>0, <1>2, <1>5 DEF vfsVars, fsVars, BusyPcs
  <2>2. \A e \in Fds : fd'[e].alloc = fd[e].alloc /\ fd'[e].node = fd[e].node
    BY <1>6
  <2> QED BY <1>0, <1>5, <2>1, <2>2, NodesQuiet
<1>9. CountInv'
  <2>1. ASSUME NEW e \in Fds
        PROVE  CountOf(e)'
    <3>1. /\ IsFiniteSet(Puts(e)') /\ Refs(e) \in Nat
          /\ Refs(e)' = Refs(e) - Cardinality(Places(<<>>, e)) + Cardinality(Places(<<d>>, e))
      <4>1. th[t].todo = <<>>
        BY <1>0, ThreadIs, VfsRecords DEF VShape
      <4>2. th'[t].todo = <<d>>
        BY <1>2, <1>3, <1>5
      <4> QED BY <1>0, <1>5, <4>1, <4>2, CountTodo
    <3>2. Refs(e)' = Refs(e) + Bit(d = e)
      BY <3>1, PlacesShort DEF Bit
    <3>3. CASE e = d
      <4>1. Refs(d)' = Refs(d) + 1
        BY <3>1, <3>2, <3>3 DEF Bit
      <4>2. fd[d].ref = Refs(d) + leaked[d] /\ leaked[d] \in Nat /\ Refs(d) \in Nat
        BY <1>1, DescIs
      <4>3. fd'[d].ref = Refs(d)' + leaked'[d] /\ fd'[d].ref > 0
        BY <1>0, <1>6, <4>1, <4>2
      <4> QED BY <1>0, <1>1, <1>6, <3>1, <3>3, <4>3 DEF CountOf
    <3>4. CASE e # d
      <4>1. Refs(e)' = Refs(e)
        BY <3>1, <3>2, <3>4 DEF Bit
      <4> QED BY <1>0, <1>6, <3>1, <3>4, <4>1, DescIs DEF CountOf
    <3> QED BY <3>3, <3>4
  <2> QED BY <2>1 DEF CountInv
<1>10. OpenInv' /\ FreeInv'
  <2>1. ~Opens(th'[t]) /\ th'[t].freeing = None
    BY <1>2, <1>5 DEF Opens
  <2>2. \A e \in Fds : e # d => fd'[e] = fd[e] /\ (e \in lost' <=> e \in lost)
    BY <1>0, <1>6
  <2>3. /\ \A u \in Callers : u # t /\ Opens(th[u]) => th[u].todo[1] # d
        /\ \A u \in Callers : u # t /\ th[u].freeing # None => th[u].freeing # d
    BY <1>1
  <2> QED BY <1>5, <2>1, <2>2, <2>3, DescStepPlain
<1>11. ChildInv'
  BY <1>0 DEF VfsInductive, DescInv, ChildInv
<1> QED BY <1>5, <1>7, <1>8, <1>9, <1>10, <1>11 DEF VfsInductive, DescInv

(* A descriptor in the list of a call is alive, and nobody else is about   *)
(* to open or free it.                                                     *)
LEMMA TodoIs ==
    ASSUME VfsInductive, NEW t \in Callers, NEW i \in DOMAIN th[t].todo,
           NEW d, th[t].todo[i] = d
    PROVE  /\ d \in Fds /\ d # None /\ d \notin lost /\ fd[d].alloc /\ fd[d].ref > 0
           /\ fd[d].node \in Nodes /\ fd[d] \in VFd /\ fd[d].ref = Refs(d) + leaked[d]
           /\ Refs(d) \in Nat /\ Refs(d) > 0 /\ leaked[d] \in Nat
           /\ \A u \in Callers : u # t /\ Opens(th[u]) => th[u].todo[1] # d
           /\ \A u \in Callers : u # t /\ th[u].freeing # None => th[u].freeing # d
<1>1. d \in Fds /\ d # None
  <2>1. th[t].todo \in Seq(Fds)
    BY ThreadIs
  <2> QED BY <2>1, VfsAssumption
<1>2. Refs(d) > 0 /\ fd[d] \in VFd /\ fd[d].ref \in Nat /\ leaked[d] \in Nat /\ Refs(d) \in Nat
  BY <1>1, DescIs
<1>3. d \notin lost
  BY <1>1, <1>2, DescIs
<1>4. fd[d].ref = Refs(d) + leaked[d] /\ fd[d].ref > 0
  BY <1>1, <1>2, <1>3, DescIs
<1>5. fd[d].alloc /\ fd[d].node \in Nodes
  BY <1>1, <1>3, <1>4, DescIs
<1>6. \A u \in Callers : u # t /\ Opens(th[u]) => th[u].todo[1] # d
  BY OpenerAlone
<1>7. \A u \in Callers : u # t /\ th[u].freeing # None => th[u].freeing # d
  BY <1>2, FreedAlone
<1> QED BY <1>1, <1>2, <1>3, <1>4, <1>5, <1>6, <1>7

(* user_ioctl forgets a descriptor.                                        *)
LEMMA IoctlKeeps ==
    ASSUME VfsInductive, NEW t \in Callers, Ioctl(t)
    PROVE  VfsInductive'
<1>a. PICK d : d = th[t].todo[1]
  OBVIOUS
<1>0. /\ th[t].pc = "use" /\ leaked' = [leaked EXCEPT ![d] = @ + 1]
      /\ th' = [th EXCEPT ![t] = Idle]
      /\ UNCHANGED <<vfsVars, fsVars, fd, fds, cwd, child, iolock, lost>>
  BY <1>a DEF Ioctl, At
<1>b. Opens(th[t]) = FALSE
  BY <1>0 DEF Opens
<1>1. /\ th[t].todo = <<d>> /\ d \in Fds /\ 1 \in DOMAIN th[t].todo
  <2>1. th[t].todo \in Seq(Fds) /\ Len(th[t].todo) = 1
    BY <1>0, ThreadIs DEF VShape
  <2> QED BY <1>a, <2>1, ListOfOne
<1>2. leaked \in [Fds -> Nat]
  BY DEF VfsInductive, StateInv
<1>3. /\ leaked' \in [Fds -> Nat] /\ leaked'[d] = leaked[d] + 1
      /\ \A e \in Fds : e # d => leaked'[e] = leaked[e]
  BY <1>0, <1>1, <1>2
<1>4. ThreadsInv' /\ th'[t] = Idle /\ \A u \in Callers : u # t => th'[u] = th[u]
  BY <1>0, VfsRecords, ThreadsStep DEF VfsInductive
<1>5. StateInv'
  BY <1>0, <1>3 DEF VfsInductive, StateInv, vfsVars, fsVars
<1>6. NodesInv'
  <2>1. /\ UNCHANGED <<vnode, table, linked, cwd, fd, lost>>
        /\ th'[t].pc \notin BusyPcs \cup {"got", "found", "have", "dec"}
    BY <1>0, <1>4, VfsRecords DEF vfsVars, fsVars, BusyPcs
  <2> QED BY <1>0, <1>4, <2>1, NodesQuiet
<1>7. CountInv'
  <2>1. ASSUME NEW e \in Fds
        PROVE  CountOf(e)'
    <3>1. /\ IsFiniteSet(Puts(e)') /\ Refs(e) \in Nat
          /\ Refs(e)' = Refs(e) - Cardinality(Places(<<d>>, e)) + Cardinality(Places(<<>>, e))
      BY <1>0, <1>1, <1>4, VfsRecords, CountTodo
    <3>2. Refs(e)' = Refs(e) - Bit(d = e)
      BY <3>1, PlacesShort DEF Bit
    <3>3. CASE e = d
      <4>1. Refs(d)' = Refs(d) - 1
        BY <3>1, <3>2, <3>3 DEF Bit
      <4>2. /\ d \notin lost /\ fd[d].alloc /\ fd[d].ref > 0 /\ fd[d].node \in Nodes
            /\ fd[d].ref = Refs(d) + leaked[d] /\ Refs(d) \in Nat /\ leaked[d] \in Nat
        BY <1>1, <1>a, TodoIs
      <4>3. fd'[d].ref = Refs(d)' + leaked'[d]
        BY <1>0, <1>3, <4>1, <4>2
      <4> QED BY <1>0, <3>1, <3>3, <4>2, <4>3 DEF CountOf
    <3>4. CASE e # d
      <4>1. Refs(e)' = Refs(e)
        BY <3>1, <3>2, <3>4 DEF Bit
      <4> QED BY <1>0, <1>3, <3>1, <3>4, <4>1, DescIs DEF CountOf
    <3> QED BY <3>3, <3>4
  <2> QED BY <2>1 DEF CountInv
<1>8. OpenInv' /\ FreeInv'
  <2>1. ~Opens(th'[t]) /\ th'[t].freeing = None
    BY <1>4, VfsRecords DEF Opens
  <2>2. /\ \A u \in Callers : u # t /\ Opens(th[u]) => th[u].todo[1] # d
        /\ \A u \in Callers : u # t /\ th[u].freeing # None => th[u].freeing # d
    BY <1>1, <1>a, TodoIs
  <2>3. \A e \in Fds : e # d => fd'[e] = fd[e] /\ (e \in lost' <=> e \in lost)
    BY <1>0
  <2> QED BY <1>4, <2>1, <2>2, <2>3, DescStepPlain
<1>9. ChildInv'
  BY <1>0 DEF VfsInductive, DescInv, ChildInv
<1> QED BY <1>4, <1>5, <1>6, <1>7, <1>8, <1>9 DEF VfsInductive, DescInv

(* What leaves a slot is put in the list of the call.                      *)
Balanced(t, r, o, n) ==
    \A e \in Fds : Cardinality(Places(r.todo, e)) + Bit(n = e)
                      = Cardinality(Places(th[t].todo, e)) + Bit(o = e)

(* A descriptor changes slots, or lists: a step that leaves them alone.    *)
LEMMA SlotMoves ==
    ASSUME VfsInductive, NEW t \in Callers, NEW s \in FdSlots, NEW o, NEW n, NEW r,
           fds[1][s] = o, fds' = [fds EXCEPT ![1][s] = n], n \in Fds \cup {None},
           th' = [th EXCEPT ![t] = r], r \in VThread, VShape(r), r.freeing = None,
           r.pc \in {"run", "put"}, th[t].pc \notin {"got", "found", "have", "dec"},
           UNCHANGED <<vfsVars, fsVars, fd, cwd, child, iolock, leaked, lost>>,
           Balanced(t, r, o, n)
    PROVE  VfsInductive'
<1>1. ThreadsInv' /\ th'[t] = r /\ \A u \in Callers : u # t => th'[u] = th[u]
  BY ThreadsStep DEF VfsInductive
<1>2. fds \in [Contexts -> [FdSlots -> Fds \cup {None}]] /\ 1 \in Contexts /\ 2 \in Contexts
  BY DEF VfsInductive, StateInv, Contexts
<1>3. /\ fds' \in [Contexts -> [FdSlots -> Fds \cup {None}]] /\ fds'[1][s] = n
      /\ fds'[2] = fds[2] /\ \A q \in FdSlots : q # s => fds'[1][q] = fds[1][q]
  BY <1>2
<1>4. StateInv'
  BY <1>3 DEF VfsInductive, StateInv, vfsVars, fsVars
<1>5. NodesInv'
  <2>1. /\ UNCHANGED <<vnode, table, linked, cwd, fd, lost>>
        /\ th'[t].pc \notin BusyPcs \cup {"got", "found", "have", "dec"}
    BY <1>1 DEF vfsVars, fsVars, BusyPcs
  <2> QED BY <1>1, <2>1, NodesQuiet
<1>6. CountInv'
  <2>1. ASSUME NEW e \in Fds
        PROVE  CountOf(e)'
    <3>1. /\ IsFiniteSet(Puts(e)') /\ Refs(e) \in Nat
          /\ Refs(e)' = Refs(e) - Bit(InSlot(s, e)) + Bit(InSlot(s, e)')
                          - Cardinality(Places(th[t].todo, e))
                          + Cardinality(Places(th'[t].todo, e))
      <4>1. /\ \A q \in FdSlots : q # s => fds'[1][q] = fds[1][q]
            /\ \A q \in FdSlots : fds'[2][q] = fds[2][q]
        BY <1>3
      <4>2. ThreadsInv' /\ \A u \in Callers : u # t => th'[u] = th[u]
        BY <1>1
      <4> QED BY <4>1, <4>2, CountStep
    <3>2. Bit(InSlot(s, e)) = Bit(o = e) /\ Bit(InSlot(s, e)') = Bit(n = e)
      BY <1>3 DEF InSlot
    <3>3. /\ Bit(o = e) \in Int /\ Bit(n = e) \in Int
          /\ Cardinality(Places(th[t].todo, e)) \in Int
          /\ Cardinality(Places(th'[t].todo, e)) \in Int
      <4>1. th[t].todo \in Seq(Fds) /\ th'[t].todo \in Seq(Fds)
        BY <1>1, ThreadIs DEF VThread
      <4> QED BY <4>1, PlacesFinite DEF Bit
    <3>4. Cardinality(Places(th'[t].todo, e)) + Bit(n = e)
             = Cardinality(Places(th[t].todo, e)) + Bit(o = e)
      BY <1>1 DEF Balanced
    <3>5. Refs(e)' = Refs(e)
      BY <3>1, <3>2, <3>3, <3>4
    <3> QED BY <3>1, <3>5, DescIs DEF CountOf
  <2> QED BY <2>1 DEF CountInv
<1>7. OpenInv' /\ FreeInv'
  <2>1. /\ \A u \in Callers : u # t /\ Opens(th[u]) => th[u].todo[1] # None
        /\ \A u \in Callers : u # t /\ th[u].freeing # None => th[u].freeing # None
    BY OpenerAlone, VfsAssumption
  <2>2. ~Opens(th'[t]) /\ th'[t].freeing = None
    BY <1>1 DEF Opens
  <2>3. \A e \in Fds : e # None => fd'[e] = fd[e] /\ (e \in lost' <=> e \in lost)
    OBVIOUS
  <2> QED BY <1>1, <2>1, <2>2, <2>3, DescStepPlain
<1>8. ChildInv'
  BY <1>3 DEF VfsInductive, DescInv, ChildInv
<1> QED BY <1>1, <1>4, <1>5, <1>6, <1>7, <1>8 DEF VfsInductive, DescInv

(* remove_fd takes the descriptor out of its slot.                         *)
LEMMA RemoveFdKeeps ==
    ASSUME VfsInductive, NEW t \in Callers, RemoveFd(t)
    PROVE  VfsInductive'
<1>a. PICK s : s = th[t].slot
  OBVIOUS
<1>b. PICK o : o = fds[1][s]
  OBVIOUS
<1> DEFINE l == IF o = None THEN th[t].todo ELSE <<o>> \o th[t].todo
           r == Rest(l)
<1>0. /\ th[t].pc = "use" /\ th[t].op = "close" /\ fds' = [fds EXCEPT ![1][s] = None]
      /\ th' = [th EXCEPT ![t] = r]
      /\ UNCHANGED <<vfsVars, fsVars, fd, cwd, child, iolock, leaked, lost>>
  BY <1>a, <1>b, ThreadIs DEF RemoveFd, At
<1>1. s \in FdSlots /\ th[t].todo \in Seq(Fds)
  BY <1>0, <1>a, ThreadIs DEF VShape
<1>2. o \in Fds \cup {None}
  BY <1>1, <1>b DEF VfsInductive, StateInv, Contexts
<1>3. /\ l \in Seq(Fds)
      /\ \A e \in Fds : Cardinality(Places(l, e)) = Cardinality(Places(th[t].todo, e)) + Bit(o = e)
  <2>0. \A e \in Fds : Cardinality(Places(th[t].todo, e)) \in Nat
    BY <1>1, PlacesFinite
  <2>1. CASE o = None
    <3>1. l = th[t].todo /\ \A e \in Fds : Bit(o = e) = 0
      BY <2>1, VfsAssumption DEF Bit
    <3> HIDE DEF l
    <3>2. ASSUME NEW e \in Fds
          PROVE  Cardinality(Places(l, e)) = Cardinality(Places(th[t].todo, e)) + Bit(o = e)
      <4>1. Cardinality(Places(l, e)) = Cardinality(Places(th[t].todo, e))
        BY <3>1
      <4>2. Bit(o = e) = 0 /\ Cardinality(Places(th[t].todo, e)) \in Nat
        BY <2>0, <3>1
      <4> QED BY <4>1, <4>2
    <3> QED BY <1>1, <3>1, <3>2
  <2>2. CASE o # None
    <3>1. l = <<o>> \o th[t].todo /\ o \in Fds
      BY <1>2, <2>2
    <3>2. /\ <<o>> \o th[t].todo \in Seq(Fds)
          /\ \A e \in Fds : Cardinality(Places(<<o>> \o th[t].todo, e))
                               = Bit(o = e) + Cardinality(Places(th[t].todo, e))
      BY <1>1, <3>1, PlacesCons
    <3>3. \A e \in Fds : Bit(o = e) \in Nat
      BY DEF Bit
    <3> HIDE DEF l
    <3> QED BY <2>0, <3>1, <3>2, <3>3
  <2> QED BY <2>1, <2>2
<1> HIDE DEF l
<1>4. /\ r \in VThread /\ VShape(r) /\ r.freeing = None /\ r.pc \in {"run", "put"} /\ r.todo = l
  BY <1>3, VfsRecords
<1> HIDE DEF r
<1>5. ASSUME NEW e \in Fds
      PROVE  Cardinality(Places(r.todo, e)) + Bit(None = e)
                = Cardinality(Places(th[t].todo, e)) + Bit(o = e)
  <2>1. Bit(None = e) = 0 /\ Bit(o = e) \in Nat
    BY VfsAssumption DEF Bit
  <2>2. Cardinality(Places(th[t].todo, e)) \in Nat
    BY <1>1, PlacesFinite
  <2> QED BY <1>3, <1>4, <2>1, <2>2
<1>6. Balanced(t, r, o, None)
  BY <1>5 DEF Balanced
<1>7. th[t].pc \notin {"got", "found", "have", "dec"} /\ None \in Fds \cup {None}
  BY <1>0
<1>8. fds[1][s] = o
  BY <1>b
<1> QED BY <1>0, <1>1, <1>4, <1>6, <1>7, <1>8, SlotMoves

(* The last put of a descriptor is done.                                   *)
LEMMA FreeFdKeeps ==
    ASSUME VfsInductive, NEW t \in Callers, FreeFd(t)
    PROVE  VfsInductive'
<1>a. PICK d : d = th[t].freeing
  OBVIOUS
<1> DEFINE r == Rest(th[t].todo)
<1>0. /\ th[t].pc = "kfree" /\ fd' = [fd EXCEPT ![d] = NoFd] /\ th' = [th EXCEPT ![t] = r]
      /\ UNCHANGED <<vfsVars, fsVars, fds, cwd, child, iolock, leaked, lost>>
  BY <1>a DEF FreeFd, At
<1>1. th[t].todo \in Seq(Fds) /\ th[t].freeing # None
  BY <1>0, ThreadIs DEF VShape
<1>2. /\ d \in Fds /\ d \notin lost /\ fd[d].alloc /\ fd[d].ref = 0
      /\ Refs(d) = 0 /\ leaked[d] = 0 /\ fd[d].node = None
      /\ \A w \in Callers : th[w].freeing = d => w = t
  BY <1>1, <1>a, FreedAlone
<1>3. r \in VThread /\ VShape(r) /\ r.todo = th[t].todo /\ r.freeing = None
      /\ r.pc \in {"run", "put"}
  BY <1>1, VfsRecords
<1> HIDE DEF r
<1>4. ThreadsInv' /\ th'[t] = r /\ \A u \in Callers : u # t => th'[u] = th[u]
  BY <1>0, <1>3, ThreadsStep DEF VfsInductive
<1>5. /\ NoFd \in VFd /\ ~NoFd.alloc /\ NoFd.ref = 0 /\ NoFd.node = None
  BY DEF NoFd, VFd
<1>6. /\ fd' \in [Fds -> VFd] /\ fd'[d] = NoFd /\ \A e \in Fds : e # d => fd'[e] = fd[e]
  <2>1. fd \in [Fds -> VFd]
    BY <1>2, DescIs
  <2> QED BY <1>0, <1>2, <1>5, <2>1
<1>7. StateInv'
  BY <1>0, <1>6 DEF VfsInductive, StateInv, VFd, vfsVars, fsVars
<1>8. NodesInv'
  <2>1. /\ UNCHANGED <<vnode, table, linked, cwd, lost>>
        /\ th'[t].pc \notin BusyPcs \cup {"got", "found", "have", "dec"}
    BY <1>0, <1>3, <1>4 DEF vfsVars, fsVars, BusyPcs
  <2>2. \A e \in Fds : \/ fd'[e].alloc = fd[e].alloc /\ fd'[e].node = fd[e].node
                       \/ fd[e].node = None /\ fd'[e].node = None
    BY <1>2, <1>5, <1>6
  <2> QED BY <1>0, <1>4, <2>1, <2>2, NodesQuiet
<1>9. CountInv'
  <2>1. ASSUME NEW e \in Fds
        PROVE  CountOf(e)'
    <3>1. IsFiniteSet(Puts(e)') /\ Refs(e)' = Refs(e) /\ Refs(e) \in Nat
      <4>1. /\ IsFiniteSet(Puts(e)') /\ Refs(e) \in Nat
            /\ Refs(e)' = Refs(e) - Cardinality(Places(th[t].todo, e))
                                  + Cardinality(Places(th'[t].todo, e))
        BY <1>0, <1>4, CountTodo
      <4>2. th'[t].todo = th[t].todo /\ Cardinality(Places(th[t].todo, e)) \in Nat
        BY <1>1, <1>3, <1>4, PlacesFinite
      <4> QED BY <4>1, <4>2
    <3>2. CASE e = d
      BY <1>0, <1>2, <1>5, <1>6, <3>1, <3>2 DEF CountOf
    <3>3. CASE e # d
      BY <1>0, <1>6, <3>1, <3>3, DescIs DEF CountOf
    <3> QED BY <3>2, <3>3
  <2> QED BY <2>1 DEF CountInv
<1>10. OpenInv' /\ FreeInv'
  <2>1. ~Opens(th'[t]) /\ th'[t].freeing = None
    BY <1>3, <1>4 DEF Opens
  <2>2. /\ \A u \in Callers : u # t /\ Opens(th[u]) => th[u].todo[1] # d
        /\ \A u \in Callers : u # t /\ th[u].freeing # None => th[u].freeing # d
    BY <1>2, OpenerAlone
  <2>3. \A e \in Fds : e # d => fd'[e] = fd[e] /\ (e \in lost' <=> e \in lost)
    BY <1>0, <1>6
  <2> QED BY <1>4, <2>1, <2>2, <2>3, DescStepPlain
<1>11. ChildInv'
  BY <1>0 DEF VfsInductive, DescInv, ChildInv
<1> QED BY <1>4, <1>7, <1>8, <1>9, <1>10, <1>11 DEF VfsInductive, DescInv

(* put_fd takes the first descriptor of the list; the last reference takes *)
(* its vnode over to the thread.                                           *)
LEMMA PutFdKeeps ==
    ASSUME VfsInductive, NEW t \in Callers, PutFd(t)
    PROVE  VfsInductive'
<1>a. PICK d : d = Head(th[t].todo)
  OBVIOUS
<1>b. PICK l : l = Tail(th[t].todo)
  OBVIOUS
<1>c. PICK v : v = fd[d].node
  OBVIOUS
<1>d. PICK last \in BOOLEAN : last <=> fd[d].ref = 1
  <2>1. (fd[d].ref = 1) \in BOOLEAN
    OBVIOUS
  <2> QED BY <2>1
<1>0. /\ th[t].pc = "put"
      /\ fd' = [fd EXCEPT ![d].ref = @ - 1, ![d].node = IF last THEN None ELSE @]
      /\ th' = [th EXCEPT ![t] = IF last THEN [Drop(v, l) EXCEPT !.freeing = d] ELSE Rest(l)]
      /\ UNCHANGED <<vfsVars, fsVars, fds, cwd, child, iolock, leaked, lost>>
  BY <1>a, <1>b, <1>c, <1>d DEF PutFd, At
<1>1. /\ th[t].todo \in Seq(Fds) /\ th[t].todo # <<>> /\ th[t].freeing = None
  BY <1>0, ThreadIs DEF VShape, FreePcs
<1>2. /\ l \in Seq(Fds) /\ 1 \in DOMAIN th[t].todo /\ th[t].todo[1] = d
      /\ \A e \in Fds : Cardinality(Places(th[t].todo, e))
                           = Bit(d = e) + Cardinality(Places(l, e))
  <2> DEFINE q == th[t].todo
  <2>1. q \in Seq(Fds) /\ q # <<>>
    BY <1>1
  <2> HIDE DEF q
  <2>2. Tail(q) \in Seq(Fds) /\ Len(q) \in Nat /\ Len(q) > 0 /\ Head(q) = q[1]
    BY <2>1, EmptySeq, LenProperties, HeadTailProperties
  <2>3. \A e \in Fds : Cardinality(Places(q, e)) = Bit(Head(q) = e) + Cardinality(Places(Tail(q), e))
    BY <2>1, PlacesHead
  <2>4. Head(q) = d /\ Tail(q) = l
    BY <1>a, <1>b DEF q
  <2>5. 1 \in DOMAIN q
    BY <2>1, <2>2
  <2>6. \A e \in Fds : Cardinality(Places(q, e)) = Bit(d = e) + Cardinality(Places(l, e))
    BY <2>3, <2>4
  <2> QED BY <2>2, <2>4, <2>5, <2>6 DEF q
<1>3. /\ d \in Fds /\ d # None /\ d \notin lost /\ fd[d].alloc /\ fd[d].ref > 0
      /\ v \in Nodes /\ fd[d] \in VFd /\ fd[d].ref = Refs(d) + leaked[d]
      /\ Refs(d) \in Nat /\ Refs(d) > 0 /\ leaked[d] \in Nat
      /\ \A u \in Callers : u # t /\ Opens(th[u]) => th[u].todo[1] # d
      /\ \A u \in Callers : u # t /\ th[u].freeing # None => th[u].freeing # d
  BY <1>2, <1>c, TodoIs
<1> DEFINE x == [fd[d] EXCEPT !.ref = @ - 1, !.node = IF last THEN None ELSE @]
           r == IF last THEN [Drop(v, l) EXCEPT !.freeing = d] ELSE Rest(l)
<1>4. /\ x \in VFd /\ x.ref = fd[d].ref - 1 /\ x.alloc
      /\ x.node = (IF last THEN None ELSE v)
  <2>1. PICK n \in Nat : n = fd[d].ref - 1
    BY <1>3 DEF VFd
  <2>2. PICK z \in Nodes \cup {None} : z = IF last THEN None ELSE v
    BY <1>3
  <2>3. x = [fd[d] EXCEPT !.ref = n, !.node = z]
    BY <2>1, <2>2, <1>c
  <2> HIDE DEF x
  <2>4. x \in VFd /\ x.ref = n /\ x.alloc = fd[d].alloc /\ x.node = z
    BY <1>3, <2>3 DEF VFd
  <2> QED BY <1>3, <2>1, <2>2, <2>4
<1>5. /\ fd' \in [Fds -> VFd] /\ fd'[d] = x /\ \A e \in Fds : e # d => fd'[e] = fd[e]
  <2>1. fd \in [Fds -> VFd]
    BY <1>3, DescIs
  <2>2. fd' = [fd EXCEPT ![d] = x]
    BY <1>0, <2>1
  <2> HIDE DEF x
  <2> QED BY <1>3, <1>4, <2>1, <2>2
<1> HIDE DEF x
<1>6. /\ r \in VThread /\ VShape(r) /\ r.todo = l
      /\ last => r.freeing = d /\ r.pc = "dec" /\ r.node = v
      /\ ~last => r.freeing = None /\ r.pc \in {"run", "put"}
  <2>1. CASE last
    <3> DEFINE p == Drop(v, l)
    <3>1. p \in VThread /\ p.todo = l /\ p.pc = "dec" /\ p.node = v
      BY <1>2, <1>3, VfsRecords
    <3>2. r = [p EXCEPT !.freeing = d]
      BY <2>1
    <3> HIDE DEF p, r
    <3>3. r \in VThread /\ r.todo = l /\ r.pc = "dec" /\ r.node = v /\ r.freeing = d
      BY <1>3, <3>1, <3>2 DEF VThread
    <3>4. VShape(r)
      BY <1>3, <3>3 DEF VShape, WalkPcs, NodePcs, FreePcs
    <3> QED BY <2>1, <3>3, <3>4
  <2>2. CASE ~last
    <3>1. r = Rest(l)
      BY <2>2
    <3> HIDE DEF r
    <3> QED BY <1>2, <2>2, <3>1, VfsRecords
  <2> QED BY <2>1, <2>2
<1>7. th' = [th EXCEPT ![t] = r]
  BY <1>0
<1> HIDE DEF r
<1>8. ThreadsInv' /\ th'[t] = r /\ \A u \in Callers : u # t => th'[u] = th[u]
  BY <1>6, <1>7, ThreadsStep DEF VfsInductive
<1>9. StateInv'
  BY <1>0, <1>5 DEF VfsInductive, StateInv, VFd, vfsVars, fsVars
<1>10. NodesInv'
  <2>1. UNCHANGED <<vnode, table, linked, cwd, lost>>
    BY <1>0 DEF vfsVars, fsVars
  <2>2. CASE last
    <3>1. \A e \in Fds : e # d => fd'[e].alloc = fd[e].alloc /\ fd'[e].node = fd[e].node
                                   /\ (e \in lost' <=> e \in lost)
      BY <1>5, <2>1
    <3>2. ASSUME NEW w \in Nodes
          PROVE  Bit(WalksOn(t, w)') + Bit(Describes(d, w)')
                    = Bit(WalksOn(t, w)) + Bit(Describes(d, w))
      <4>1. WalksOn(t, w)' <=> v = w
        BY <1>6, <1>8, <2>2 DEF WalksOn
      <4>2. ~WalksOn(t, w)
        BY <1>0 DEF WalksOn
      <4>3. Describes(d, w) <=> v = w
        BY <1>3, <1>c DEF Describes
      <4>4. ~Describes(d, w)'
        BY <1>4, <1>5, <2>2, VfsAssumption DEF Describes
      <4> QED BY <4>1, <4>2, <4>3, <4>4 DEF Bit
    <3>3. th'[t].pc \notin BusyPcs \cup {"got", "found"}
      BY <1>6, <1>8, <2>2 DEF BusyPcs
    <3> QED BY <1>8, <2>1, <3>1, <3>2, <3>3, NodesSwap
  <2>3. CASE ~last
    <3>1. \A e \in Fds : fd'[e].alloc = fd[e].alloc /\ fd'[e].node = fd[e].node
      <4>1. fd'[d].alloc = fd[d].alloc /\ fd'[d].node = fd[d].node
        <5>1. fd'[d].alloc /\ fd'[d].node = v
          BY <1>4, <1>5, <2>3
        <5>2. fd'[d].alloc \in BOOLEAN /\ fd[d].alloc \in BOOLEAN /\ fd[d].alloc /\ fd[d].node = v
          BY <1>3, <1>5, <1>c DEF VFd
        <5> QED BY <5>1, <5>2
      <4> QED BY <1>5, <4>1
    <3>2. th'[t].pc \notin BusyPcs \cup {"got", "found", "have", "dec"}
      BY <1>6, <1>8, <2>3 DEF BusyPcs
    <3> QED BY <1>0, <1>8, <2>1, <3>1, <3>2, NodesQuiet
  <2> QED BY <2>2, <2>3
<1>11. CountInv'
  <2>1. ASSUME NEW e \in Fds
        PROVE  CountOf(e)'
    <3>1. /\ IsFiniteSet(Puts(e)') /\ Refs(e) \in Nat
          /\ Refs(e)' = Refs(e) - Cardinality(Places(th[t].todo, e)) + Cardinality(Places(l, e))
      <4>1. th'[t].todo = l
        BY <1>6, <1>8
      <4> QED BY <1>0, <1>8, <4>1, CountTodo
    <3>2. Refs(e)' = Refs(e) - Bit(d = e)
      <4>1. /\ Cardinality(Places(th[t].todo, e)) \in Nat /\ Cardinality(Places(l, e)) \in Nat
            /\ Bit(d = e) \in Nat
        BY <1>1, <1>2, PlacesFinite DEF Bit
      <4> QED BY <1>2, <3>1, <4>1
    <3>3. CASE e = d
      <4>1. Refs(d)' = Refs(d) - 1
        BY <3>1, <3>2, <3>3 DEF Bit
      <4>2. fd'[d].ref = Refs(d)' + leaked'[d] /\ d \notin lost'
        BY <1>0, <1>3, <1>4, <1>5, <4>1
      <4>3. fd'[d].alloc /\ fd'[d].ref = fd[d].ref - 1
            /\ fd'[d].node = (IF last THEN None ELSE v)
        BY <1>4, <1>5
      <4>4. fd'[d].ref > 0 => fd'[d].alloc /\ fd'[d].node \in Nodes
        BY <1>3, <1>d, <4>3
      <4>5. fd'[d].ref = 0 => fd'[d].node = None
        BY <1>3, <1>d, <4>3
      <4> QED BY <3>1, <3>3, <4>2, <4>4, <4>5 DEF CountOf
    <3>4. CASE e # d
      <4>1. Refs(e)' = Refs(e)
        BY <3>1, <3>2, <3>4 DEF Bit
      <4> QED BY <1>0, <1>5, <3>1, <3>4, <4>1, DescIs DEF CountOf
    <3> QED BY <3>3, <3>4
  <2> QED BY <2>1 DEF CountInv
<1>12. OpenInv' /\ FreeInv'
  <2>1. ~Opens(th'[t])
    BY <1>6, <1>8 DEF Opens
  <2>2. \A e \in Fds : e # d => fd'[e] = fd[e] /\ (e \in lost' <=> e \in lost)
    BY <1>0, <1>5
  <2>3. /\ \A u \in Callers : u # t /\ Opens(th[u]) => th[u].todo[1] # d
        /\ \A u \in Callers : u # t /\ th[u].freeing # None => th[u].freeing # d
    BY <1>3
  <2>4. CASE last
    <3>1. th'[t].freeing = d /\ d \notin lost' /\ fd'[d].alloc /\ fd'[d].ref = 0
      BY <1>0, <1>3, <1>4, <1>5, <1>6, <1>8, <1>d, <2>4
    <3>2. \A u \in Callers : u # t => th[u].freeing # d
      BY <1>3
    <3> QED BY <1>8, <2>1, <2>2, <2>3, <3>1, <3>2, DescStep
  <2>5. CASE ~last
    <3>1. th'[t].freeing = None
      BY <1>6, <1>8, <2>5
    <3> QED BY <1>8, <2>1, <2>2, <2>3, <3>1, DescStepPlain
  <2> QED BY <2>4, <2>5
<1>13. ChildInv'
  BY <1>0 DEF VfsInductive, DescInv, ChildInv
<1> QED BY <1>8, <1>9, <1>10, <1>11, <1>12, <1>13 DEF VfsInductive, DescInv

(* A step that changes nothing but the io_mutex.                           *)
LEMMA IolockMoves ==
    ASSUME VfsInductive, iolock' = TRUE,
           UNCHANGED <<vfsVars, fsVars, fd, fds, cwd, child, leaked, lost, th>>
    PROVE  VfsInductive'
<1>1. StateInv'
  BY DEF VfsInductive, StateInv, vfsVars, fsVars
<1>2. ThreadsInv'
  BY DEF VfsInductive, ThreadsInv
<1>3. NodesInv'
  <2>1. UNCHANGED <<vnode, table, linked, th, cwd, fd, lost>>
    BY DEF vfsVars, fsVars
  <2>2. TableInv' /\ DelInv' /\ BusyInv'
    BY <2>1 DEF VfsInductive, NodesInv, TableInv, DelInv, BusyInv
  <2>3. \A v \in Nodes : Holders(v)' = Holders(v) /\ Counted(v)' = Counted(v)
    BY <2>1 DEF Holders, Walkers, OpenOn, CwdIn, Counted
  <2>4. RefInv'
    BY <2>3 DEF VfsInductive, NodesInv, RefInv
  <2> QED BY <2>2, <2>4 DEF NodesInv
<1>4. DescInv'
  <2>1. \A d \in Fds : CountOf(d)' <=> CountOf(d)
    BY DEF CountOf, Refs, SlotsWith, Puts
  <2>2. CountInv' /\ OpenInv' /\ FreeInv' /\ ChildInv'
    BY <2>1 DEF VfsInductive, DescInv, CountInv, OpenInv, FreeInv, ChildInv
  <2> QED BY <2>2 DEF DescInv
<1> QED BY <1>1, <1>2, <1>3, <1>4 DEF VfsInductive

(* vfs_dup2 puts a descriptor in another slot and what was there in the    *)
(* list of the call.                                                       *)
LEMMA Dup2Keeps ==
    ASSUME VfsInductive, NEW t \in Callers, NEW ofd \in FdSlots, NEW nfd \in FdSlots,
           vfs_dup2(t, ofd, nfd)
    PROVE  VfsInductive'
<1>a. PICK d : d = fds[1][ofd]
  OBVIOUS
<1>b. PICK o : o = fds[1][nfd]
  OBVIOUS
<1> DEFINE l == IF o = None THEN <<>> ELSE <<o>>
           r == Rest(l)
<1>0. /\ th[t].pc = "run" /\ d # None
      /\ UNCHANGED <<vfsVars, fsVars, cwd, child, leaked, lost>>
      /\ \/ iolock' = TRUE /\ UNCHANGED <<fd, fds, th>>
         \/ /\ fds' = [fds EXCEPT ![1][nfd] = d] /\ fd' = [fd EXCEPT ![d].ref = @ + 1]
            /\ th' = [th EXCEPT ![t] = r] /\ UNCHANGED iolock
  BY <1>a, <1>b DEF vfs_dup2, At
<1>1. CASE iolock' = TRUE /\ UNCHANGED <<fd, fds, th>>
  BY <1>0, <1>1, IolockMoves
<1>2. CASE /\ fds' = [fds EXCEPT ![1][nfd] = d] /\ fd' = [fd EXCEPT ![d].ref = @ + 1]
           /\ th' = [th EXCEPT ![t] = r] /\ UNCHANGED iolock
  <2>1. /\ d \in Fds /\ d \notin lost /\ fd[d].alloc /\ fd[d].ref > 0 /\ fd[d].node \in Nodes
        /\ fd[d] \in VFd
        /\ \A u \in Callers : Opens(th[u]) => th[u].todo[1] # d
        /\ \A u \in Callers : th[u].freeing # None => th[u].freeing # d
    BY <1>0, <1>a, SlotIs
  <2>2. /\ fds \in [Contexts -> [FdSlots -> Fds \cup {None}]] /\ 1 \in Contexts /\ 2 \in Contexts
        /\ o \in Fds \cup {None}
    BY <1>b DEF VfsInductive, StateInv, Contexts
  <2>3. /\ l \in Seq(Fds)
        /\ \A e \in Fds : Cardinality(Places(l, e)) = Bit(o = e)
    <3>1. CASE o = None
      <4>1. l = <<>> /\ \A e \in Fds : Bit(o = e) = 0
        BY <3>1, VfsAssumption DEF Bit
      <4> HIDE DEF l
      <4> QED BY <4>1, PlacesShort
    <3>2. CASE o # None
      <4>1. l = <<o>> /\ o \in Fds
        BY <2>2, <3>2
      <4>2. l \in Seq(Fds)
        BY <4>1
      <4> HIDE DEF l
      <4> QED BY <4>1, <4>2, PlacesShort
    <3> QED BY <3>1, <3>2
  <2> HIDE DEF l
  <2>4. /\ r \in VThread /\ VShape(r) /\ r.todo = l /\ r.freeing = None
        /\ r.pc \in {"run", "put"}
    BY <2>3, VfsRecords
  <2> HIDE DEF r
  <2>5. ThreadsInv' /\ th'[t] = r /\ \A u \in Callers : u # t => th'[u] = th[u]
    BY <1>2, <2>4, ThreadsStep DEF VfsInductive
  <2>6. /\ fd' \in [Fds -> VFd] /\ fd'[d].ref = fd[d].ref + 1
        /\ fd'[d].alloc = fd[d].alloc /\ fd'[d].node = fd[d].node
        /\ \A e \in Fds : e # d => fd'[e] = fd[e]
    <3>1. PICK n \in Nat : n = fd[d].ref + 1
      BY <2>1 DEF VFd
    <3>2. fd' = [fd EXCEPT ![d].ref = n]
      BY <1>2, <3>1
    <3> QED BY <2>1, <3>1, <3>2, RefChanges
  <2>7. /\ fds' \in [Contexts -> [FdSlots -> Fds \cup {None}]] /\ fds'[1][nfd] = d
        /\ fds'[2] = fds[2] /\ \A q \in FdSlots : q # nfd => fds'[1][q] = fds[1][q]
    BY <1>2, <2>1, <2>2
  <2>8. StateInv'
    BY <1>0, <1>2, <2>6, <2>7 DEF VfsInductive, StateInv, VFd, vfsVars, fsVars
  <2>9. NodesInv'
    <3>1. /\ UNCHANGED <<vnode, table, linked, cwd, lost>>
          /\ th'[t].pc \notin BusyPcs \cup {"got", "found", "have", "dec"}
      BY <1>0, <2>4, <2>5 DEF vfsVars, fsVars, BusyPcs
    <3>2. \A e \in Fds : fd'[e].alloc = fd[e].alloc /\ fd'[e].node = fd[e].node
      BY <2>6
    <3>3. /\ th[t].pc \notin {"got", "found", "have", "dec"}
          /\ \A e \in Fds : e \in lost' <=> e \in lost
      BY <1>0
    <3> QED BY <2>5, <3>1, <3>2, <3>3, NodesQuiet
  <2>10. CountInv'
    <3>1. ASSUME NEW e \in Fds
          PROVE  CountOf(e)'
      <4>1. /\ IsFiniteSet(Puts(e)') /\ Refs(e) \in Nat
            /\ Refs(e)' = Refs(e) - Bit(InSlot(nfd, e)) + Bit(InSlot(nfd, e)')
                            - Cardinality(Places(th[t].todo, e))
                            + Cardinality(Places(th'[t].todo, e))
        <5>1. /\ \A q \in FdSlots : q # nfd => fds'[1][q] = fds[1][q]
              /\ \A q \in FdSlots : fds'[2][q] = fds[2][q]
          BY <2>7
        <5> QED BY <2>5, <5>1, CountStep
      <4>2. Bit(InSlot(nfd, e)) = Bit(o = e) /\ Bit(InSlot(nfd, e)') = Bit(d = e)
        BY <1>b, <2>7 DEF InSlot
      <4>3. Cardinality(Places(th[t].todo, e)) = 0
        <5>1. th[t].todo = <<>>
          BY <1>0, ThreadIs, VfsRecords DEF VShape
        <5> QED BY <5>1, PlacesShort
      <4>4. Cardinality(Places(th'[t].todo, e)) = Bit(o = e)
        BY <2>3, <2>4, <2>5
      <4>5. Bit(o = e) \in Int /\ Bit(d = e) \in Int
        BY DEF Bit
      <4>6. Refs(e)' = Refs(e) + Bit(d = e)
        BY <4>1, <4>2, <4>3, <4>4, <4>5
      <4>7. CASE e = d
        <5>1. Refs(d)' = Refs(d) + 1
          BY <4>1, <4>6, <4>7 DEF Bit
        <5>2. fd[d].ref = Refs(d) + leaked[d] /\ leaked[d] \in Nat /\ Refs(d) \in Nat
          BY <2>1, DescIs
        <5>3. fd'[d].ref = Refs(d)' + leaked'[d] /\ fd'[d].ref > 0
          BY <1>0, <2>6, <5>1, <5>2
        <5>4. d \notin lost' /\ fd'[d].alloc /\ fd'[d].node \in Nodes /\ IsFiniteSet(Puts(d)')
          BY <1>0, <2>1, <2>6, <4>1, <4>7
        <5>5. CountOf(d)'
          BY <5>3, <5>4 DEF CountOf
        <5> QED BY <4>7, <5>5
      <4>8. CASE e # d
        <5>1. Refs(e)' = Refs(e)
          BY <4>1, <4>6, <4>8 DEF Bit
        <5> QED BY <1>0, <2>6, <4>1, <4>8, <5>1, DescIs DEF CountOf
      <4> QED BY <4>7, <4>8
    <3> QED BY <3>1 DEF CountInv
  <2>11. OpenInv' /\ FreeInv'
    <3>1. ~Opens(th'[t]) /\ th'[t].freeing = None
      BY <2>4, <2>5 DEF Opens
    <3>2. \A e \in Fds : e # d => fd'[e] = fd[e] /\ (e \in lost' <=> e \in lost)
      BY <1>0, <2>6
    <3>3. /\ \A u \in Callers : u # t /\ Opens(th[u]) => th[u].todo[1] # d
          /\ \A u \in Callers : u # t /\ th[u].freeing # None => th[u].freeing # d
      BY <2>1
    <3> QED BY <2>5, <3>1, <3>2, <3>3, DescStepPlain
  <2>12. ChildInv'
    BY <1>0, <2>7 DEF VfsInductive, DescInv, ChildInv
  <2> QED BY <2>5, <2>8, <2>9, <2>10, <2>11, <2>12 DEF VfsInductive, DescInv
<1> QED BY <1>0, <1>1, <1>2

(* What is known of a working directory.                                   *)
LEMMA CwdIs ==
    ASSUME VfsInductive, NEW c \in Contexts, NEW v, cwd[c] = v, v # None
    PROVE  /\ v \in Nodes /\ vnode[v].alloc /\ ~vnode[v].busy /\ Holders(v) > 0
           /\ vnode[v].file \in Files /\ table[vnode[v].file] = v
           /\ vnode[v].ref = Holders(v) /\ vnode[v] \in VVnode
<1>1. v \in Nodes
  BY DEF VfsInductive, StateInv
<1>2. Holders(v) \in Nat /\ Holders(v) # 0
  BY HoldersAre DEF WorksIn
<1>3. Holders(v) = Counted(v)
  BY <1>1 DEF VfsInductive, NodesInv, RefInv
<1>4. vnode[v].alloc /\ ~vnode[v].busy /\ vnode[v].ref = Holders(v)
  BY <1>2, <1>3 DEF Counted
<1>5. vnode[v].file \in Files /\ table[vnode[v].file] = v
  BY <1>1, <1>4 DEF VfsInductive, NodesInv, TableInv
<1>6. vnode[v] \in VVnode
  BY <1>1 DEF VfsInductive, StateInv, VVnode
<1> QED BY <1>1, <1>2, <1>4, <1>5, <1>6

(* The child that vfs_new_io_context makes refers to what its parent does. *)
LEMMA NewContextKeeps ==
    ASSUME VfsInductive, NEW t \in Callers, vfs_new_io_context(t)
    PROVE  VfsInductive'
<1>a. PICK v : v = cwd[1]
  OBVIOUS
<1>0. /\ ~child /\ child' = TRUE /\ fds' = [fds EXCEPT ![2] = fds[1]]
      /\ fd' = [d \in Fds |-> [fd[d] EXCEPT !.ref = Inherited(d)]]
      /\ cwd' = [cwd EXCEPT ![2] = v]
      /\ vnode' = (IF v = None THEN vnode ELSE Referenced(v))
      /\ UNCHANGED <<table, linked, exists, fslock, iolock, leaked, lost, th>>
  BY <1>a DEF vfs_new_io_context, fsVars
<1>1. 1 \in Contexts /\ 2 \in Contexts /\ \A c \in Contexts : c # 2 => c = 1
  BY DEF Contexts
<1>2. /\ fds \in [Contexts -> [FdSlots -> Fds \cup {None}]]
      /\ cwd \in [Contexts -> Nodes \cup {None}]
      /\ v \in Nodes \cup {None}
  BY <1>a, <1>1 DEF VfsInductive, StateInv
<1>3. /\ fds' \in [Contexts -> [FdSlots -> Fds \cup {None}]]
      /\ fds'[1] = fds[1] /\ fds'[2] = fds[1]
      /\ cwd' \in [Contexts -> Nodes \cup {None}] /\ cwd'[1] = cwd[1] /\ cwd'[2] = v
  BY <1>0, <1>1, <1>2
<1>4. cwd[2] = None /\ \A s \in FdSlots : fds[2][s] = None
  BY <1>0 DEF VfsInductive, DescInv, ChildInv
<1>5. ASSUME NEW d \in Fds
      PROVE  /\ IsFiniteSet(Puts(d)) /\ Cardinality(SlotsWith(1, d)) \in Nat
             /\ Refs(d) = Cardinality(SlotsWith(1, d)) + Cardinality(Puts(d))
             /\ Refs(d)' = Refs(d) + Cardinality(SlotsWith(1, d))
             /\ IsFiniteSet(Puts(d)') /\ Cardinality(Puts(d)) \in Nat
  <2>1. /\ SlotsWith(1, d)' = SlotsWith(1, d) /\ SlotsWith(2, d)' = SlotsWith(1, d)
        /\ Puts(d)' = Puts(d)
    BY <1>0, <1>3 DEF SlotsWith, Puts
  <2>2. /\ IsFiniteSet(Puts(d)) /\ Cardinality(SlotsWith(1, d)) \in Nat
        /\ Cardinality(SlotsWith(2, d)) = 0 /\ Cardinality(Puts(d)) \in Nat
    <3>1. IsFiniteSet(Puts(d))
      BY DescIs
    <3>2. \A s \in FdSlots : fds[2][s] # d
      BY <1>4, VfsAssumption
    <3> QED BY <1>1, <3>1, <3>2, RefsAre
  <2>3. Refs(d)' = Cardinality(SlotsWith(1, d)) + Cardinality(SlotsWith(1, d))
                     + Cardinality(Puts(d))
    BY <2>1 DEF Refs
  <2> QED BY <2>1, <2>2, <2>3 DEF Refs
<1>6. ASSUME NEW d \in Fds
      PROVE  /\ fd'[d] \in VFd /\ fd'[d].ref = fd[d].ref + Cardinality(SlotsWith(1, d))
             /\ fd'[d].alloc = fd[d].alloc /\ fd'[d].node = fd[d].node
  <2>1. PICK n \in Nat : n = Inherited(d) /\ n = fd[d].ref + Cardinality(SlotsWith(1, d))
    <3>1. fd[d].ref \in Nat /\ Cardinality(SlotsWith(1, d)) \in Nat
      BY <1>5, DescIs
    <3>2. Inherited(d) = fd[d].ref + Cardinality(SlotsWith(1, d))
      BY DEF Inherited
    <3>3. fd[d].ref + Cardinality(SlotsWith(1, d)) \in Nat
      BY <3>1
    <3> QED BY <3>2, <3>3
  <2>2. fd'[d] = [fd[d] EXCEPT !.ref = n]
    BY <1>0, <2>1
  <2>3. fd[d] \in VFd
    BY DescIs
  <2> QED BY <2>1, <2>2, <2>3 DEF VFd
<1>7. fd' \in [Fds -> VFd]
  <2>1. DOMAIN fd' = Fds /\ fd' = [d \in Fds |-> fd'[d]]
    BY <1>0
  <2> QED BY <1>6, <2>1
<1>8. /\ vnode' \in [Nodes -> VVnode]
      /\ \A w \in Nodes : /\ vnode'[w].alloc = vnode[w].alloc /\ vnode'[w].busy = vnode[w].busy
                          /\ vnode'[w].del = vnode[w].del /\ vnode'[w].file = vnode[w].file
                          /\ ~vnode[w].alloc => vnode'[w] = vnode[w]
      /\ \A w \in Nodes : vnode'[w].ref = vnode[w].ref + Bit(w = v)
  <2>0. vnode \in [Nodes -> VVnode]
    BY DEF VfsInductive, StateInv, VVnode
  <2>1. CASE v = None
    <3>1. vnode' = vnode
      BY <1>0, <2>1
    <3>2. ASSUME NEW w \in Nodes
          PROVE  vnode'[w].ref = vnode[w].ref + Bit(w = v)
      <4>1. Bit(w = v) = 0 /\ vnode[w].ref \in Nat
        BY <2>0, <2>1, VfsAssumption DEF Bit, VVnode
      <4> QED BY <3>1, <4>1
    <3> QED BY <2>0, <3>1, <3>2
  <2>2. CASE v # None
    <3>1. v \in Nodes /\ vnode[v].alloc /\ vnode[v] \in VVnode
      BY <1>1, <1>a, <2>2, CwdIs
    <3>2. PICK n \in Nat : n = vnode[v].ref + 1
      BY <3>1 DEF VVnode
    <3> DEFINE x == [vnode[v] EXCEPT !.ref = n]
    <3>3. /\ x \in VVnode /\ x.ref = n /\ x.alloc = vnode[v].alloc /\ x.busy = vnode[v].busy
          /\ x.del = vnode[v].del /\ x.file = vnode[v].file
      BY <3>1 DEF VVnode
    <3>4. vnode' = [vnode EXCEPT ![v] = x]
      BY <1>0, <2>0, <2>2, <3>1, <3>2 DEF Referenced
    <3> HIDE DEF x
    <3>5. vnode' \in [Nodes -> VVnode] /\ vnode'[v] = x /\ \A w \in Nodes : w # v => vnode'[w] = vnode[w]
      BY <2>0, <3>1, <3>3, <3>4, VnodeStep
    <3>6. ASSUME NEW w \in Nodes
          PROVE  vnode'[w].ref = vnode[w].ref + Bit(w = v)
      <4>1. vnode[w].ref \in Nat
        BY <2>0 DEF VVnode
      <4>2. CASE w = v
        <5>1. Bit(w = v) = 1
          BY <4>2 DEF Bit
        <5> QED BY <3>2, <3>3, <3>5, <4>2, <5>1
      <4>3. CASE w # v
        <5>1. Bit(w = v) = 0
          BY <4>3 DEF Bit
        <5> QED BY <3>5, <4>1, <4>3, <5>1
      <4> QED BY <4>2, <4>3
    <3> QED BY <3>1, <3>3, <3>5, <3>6
  <2> QED BY <2>1, <2>2
<1>9. StateInv'
  BY <1>0, <1>3, <1>7, <1>8 DEF VfsInductive, StateInv, VFd, VVnode
<1>10. ThreadsInv'
  BY <1>0 DEF VfsInductive, ThreadsInv
<1>11. TableInv' /\ DelInv' /\ BusyInv'
  <2>1. TableInv'
    <3>1. ASSUME NEW f \in Files, table'[f] # None
          PROVE  vnode'[table'[f]].alloc /\ vnode'[table'[f]].file = f
      <4>1. table[f] \in Nodes /\ vnode[table[f]].alloc /\ vnode[table[f]].file = f
            /\ table'[f] = table[f]
        BY <1>0, <3>1 DEF VfsInductive, StateInv, NodesInv, TableInv
      <4> QED BY <1>8, <4>1
    <3>2. ASSUME NEW w \in Nodes
          PROVE  IF vnode'[w].alloc THEN vnode'[w].file \in Files /\ table'[vnode'[w].file] = w
                 ELSE vnode'[w] = NoNode
      <4>1. IF vnode[w].alloc THEN vnode[w].file \in Files /\ table[vnode[w].file] = w
            ELSE vnode[w] = NoNode
        BY DEF VfsInductive, NodesInv, TableInv
      <4> QED BY <1>0, <1>8, <4>1
    <3> QED BY <3>1, <3>2 DEF TableInv
  <2>2. DelInv'
    BY <1>0, <1>8 DEF VfsInductive, NodesInv, DelInv
  <2>3. BusyInv'
    <3>1. \A u \in Callers : th[u].pc \in BusyPcs => th[u].node \in Nodes
      BY ThreadIs DEF BusyPcs, VShape, NodePcs
    <3>2. BusyInv
      BY DEF VfsInductive, NodesInv
    <3>3. \A u \in Callers : th'[u].pc \in BusyPcs =>
            /\ vnode'[th'[u].node].alloc /\ vnode'[th'[u].node].busy
            /\ th'[u].pc = "read" => vnode'[th'[u].node].file = th'[u].file
      BY <1>0, <1>8, <3>1, <3>2 DEF BusyInv
    <3>4. /\ \A u, w \in Callers : th'[u].pc \in BusyPcs /\ th'[w].pc \in BusyPcs
                                     /\ th'[u].node = th'[w].node => u = w
          /\ \A u \in Callers : th'[u].pc \in {"got", "found"} => table'[th'[u].file] # None
      BY <1>0, <3>2 DEF BusyInv
    <3> QED BY <3>3, <3>4 DEF BusyInv
  <2> QED BY <2>1, <2>2, <2>3
<1>12. RefInv'
  <2>1. ASSUME NEW w \in Nodes
        PROVE  (Holders(w) = Counted(w))'
    <3>1. /\ \A u \in Callers : WalksOn(u, w)' <=> WalksOn(u, w)
          /\ \A e \in Fds : Describes(e, w)' <=> Describes(e, w)
          /\ \A b \in Contexts : b # 2 => (WorksIn(b, w)' <=> WorksIn(b, w))
      <4>1. \A u \in Callers : WalksOn(u, w)' <=> WalksOn(u, w)
        BY <1>0 DEF WalksOn
      <4>2. \A e \in Fds : Describes(e, w)' <=> Describes(e, w)
        BY <1>0, <1>6 DEF Describes
      <4>3. \A b \in Contexts : b # 2 => (WorksIn(b, w)' <=> WorksIn(b, w))
        BY <1>1, <1>3 DEF WorksIn
      <4> QED BY <4>1, <4>2, <4>3
    <3>2. ~WorksIn(2, w) /\ (WorksIn(2, w)' <=> w = v)
      BY <1>1, <1>3, <1>4, VfsAssumption DEF WorksIn
    <3>3. ~Describes(None, w) /\ ~Describes(None, w)'
      BY VfsAssumption DEF Describes
    <3>4. Counted(w)' = Counted(w) + Bit(w = v) /\ Counted(w) \in Nat
      <4>1. vnode[w] \in VVnode /\ vnode[w].ref \in Nat
        BY DEF VfsInductive, StateInv, VVnode
      <4>2. CASE vnode[w].alloc /\ ~vnode[w].busy
        BY <1>8, <4>1, <4>2 DEF Counted
      <4>3. CASE ~(vnode[w].alloc /\ ~vnode[w].busy)
        <5>1. w # v
          BY <1>1, <1>a, <4>3, CwdIs, VfsAssumption
        <5> QED BY <1>8, <4>3, <5>1 DEF Counted, Bit
      <4> QED BY <4>2, <4>3
    <3>5. Bit(WalksOn(t, w)') = Bit(WalksOn(t, w)) /\ Bit(WalksOn(t, w)) \in Int
      BY <3>1 DEF Bit
    <3>6. Bit(Describes(None, w)) = 0 /\ Bit(Describes(None, w)') = 0
      BY <3>3 DEF Bit
    <3>7. Bit(WorksIn(2, w)) = 0 /\ Bit(WorksIn(2, w)') = Bit(w = v) /\ Bit(w = v) \in Int
      BY <3>2 DEF Bit
    <3>8. Counted(w)' = Counted(w) - Bit(WalksOn(t, w)) + Bit(WalksOn(t, w)')
                                   - Bit(Describes(None, w)) + Bit(Describes(None, w)')
                                   - Bit(WorksIn(2, w)) + Bit(WorksIn(2, w)')
      BY <3>4, <3>5, <3>6, <3>7
    <3>9. RefInv /\ \A u \in Callers : u # t => (WalksOn(u, w)' <=> WalksOn(u, w))
      BY <3>1 DEF VfsInductive, NodesInv
    <3>10. \A e \in Fds : e # None => (Describes(e, w)' <=> Describes(e, w))
      BY <3>1
    <3> QED BY <3>1, <3>8, <3>9, <3>10, RefStep
  <2> QED BY <2>1 DEF RefInv
<1>13. CountInv'
  <2>1. ASSUME NEW d \in Fds
        PROVE  CountOf(d)'
    <3>0. /\ leaked[d] \in Nat /\ Refs(d) \in Nat /\ fd[d].ref \in Nat
          /\ leaked'[d] = leaked[d] /\ (d \in lost' <=> d \in lost)
      BY <1>0, DescIs
    <3>1. CASE d \in lost
      <4>1. Refs(d)' = 0
        BY <1>5, <3>1, DescIs
      <4>2. fd'[d].alloc
        BY <1>6, <3>1, DescIs
      <4> QED BY <1>5, <3>0, <3>1, <4>1, <4>2 DEF CountOf
    <3>2. CASE d \notin lost
      <4>1. fd[d].ref = Refs(d) + leaked[d]
        BY <3>2, DescIs
      <4>2. fd'[d].ref = Refs(d)' + leaked'[d]
        BY <1>5, <1>6, <3>0, <4>1
      <4>3. PICK n \in Nat : n = Cardinality(SlotsWith(1, d))
        BY <1>5
      <4>4. fd[d].ref >= n /\ fd'[d].ref = fd[d].ref + n
        <5>1. Refs(d) = n + Cardinality(Puts(d)) /\ Cardinality(Puts(d)) \in Nat
          BY <1>5, <4>3
        <5>2. fd[d].ref = n + Cardinality(Puts(d)) + leaked[d]
          BY <4>1, <5>1
        <5>3. fd'[d].ref = fd[d].ref + n
          BY <1>6, <4>3
        <5>4. fd[d].ref >= n
          BY <3>0, <5>1, <5>2
        <5> QED BY <5>3, <5>4
      <4>6. /\ fd'[d].ref > 0 <=> fd[d].ref > 0
            /\ fd'[d].ref = 0 <=> fd[d].ref = 0
        BY <3>0, <4>4
      <4>5. /\ fd'[d].ref > 0 => fd'[d].alloc /\ fd'[d].node \in Nodes
            /\ fd'[d].ref = 0 => fd'[d].node = None
        BY <1>6, <3>2, <4>6, DescIs
      <4> QED BY <1>5, <3>0, <3>2, <4>2, <4>5 DEF CountOf
    <3> QED BY <3>1, <3>2
  <2> QED BY <2>1 DEF CountInv
<1>14. ASSUME NEW d \in Fds, \A s \in FdSlots : fds[1][s] # d
       PROVE  fd'[d].ref = fd[d].ref
  <2>1. Cardinality(SlotsWith(1, d)) = 0
    BY <1>1, <1>5, <1>14, RefsAre
  <2> QED BY <1>6, <2>1, DescIs
<1>15. OpenInv'
  <2>1. ASSUME NEW u \in Callers, Opens(th[u])
        PROVE  LET d == th[u].todo[1]
               IN  d \notin lost' /\ fd'[d].ref = 1 /\ fd'[d].node = th[u].node
    <3>1. PICK d : d = th[u].todo[1]
      OBVIOUS
    <3>2. /\ d \in Fds /\ d \notin lost /\ fd[d].ref = 1 /\ fd[d].node = th[u].node
          /\ \A s \in FdSlots : fds[1][s] # d
      BY <1>1, <2>1, <3>1, OpenerAlone
    <3> QED BY <1>0, <1>6, <1>14, <3>1, <3>2
  <2> QED BY <1>0, <2>1 DEF OpenInv
<1>16. FreeInv'
  <2>1. ASSUME NEW u \in Callers, th[u].freeing # None
        PROVE  LET d == th[u].freeing IN d \notin lost' /\ fd'[d].alloc /\ fd'[d].ref = 0
    <3>1. PICK d : d = th[u].freeing
      OBVIOUS
    <3>2. d \in Fds /\ d \notin lost /\ fd[d].alloc /\ fd[d].ref = 0 /\ Refs(d) = 0
      BY <2>1, <3>1, FreedAlone
    <3>3. \A s \in FdSlots : fds[1][s] # d
      BY <1>1, <3>2, DescIs
    <3> QED BY <1>0, <1>6, <1>14, <3>1, <3>2, <3>3
  <2>2. FreeInv
    BY DEF VfsInductive, DescInv
  <2> QED BY <1>0, <2>1, <2>2 DEF FreeInv
<1>17. ChildInv'
  BY <1>0 DEF ChildInv
<1> QED BY <1>9, <1>10, <1>11, <1>12, <1>13, <1>15, <1>16, <1>17
        DEF VfsInductive, NodesInv, DescInv

(* vfs_free_io_context hands what the child refers to over to the call.    *)
LEMMA FreeContextKeeps ==
    ASSUME VfsInductive, NEW t \in Callers, vfs_free_io_context(t)
    PROVE  VfsInductive'
<1>a. PICK v : v = cwd[2]
  OBVIOUS
<1>b. PICK l : l = Descriptors(fds[2])
  OBVIOUS
<1> DEFINE none == [s \in FdSlots |-> None]
           r == IF v = None THEN Rest(l) ELSE Drop(v, l)
<1>0. /\ th[t].pc = "run" /\ child' = FALSE /\ fds' = [fds EXCEPT ![2] = none]
      /\ cwd' = [cwd EXCEPT ![2] = None] /\ th' = [th EXCEPT ![t] = r]
      /\ UNCHANGED <<vnode, table, linked, exists, fslock, fd, iolock, leaked, lost>>
  BY <1>a, <1>b DEF vfs_free_io_context, At, vfsVars, fsVars
<1>1. 1 \in Contexts /\ 2 \in Contexts /\ \A c \in Contexts : c # 2 => c = 1
  BY DEF Contexts
<1>2. /\ fds \in [Contexts -> [FdSlots -> Fds \cup {None}]]
      /\ cwd \in [Contexts -> Nodes \cup {None}]
      /\ v \in Nodes \cup {None}
  BY <1>a, <1>1 DEF VfsInductive, StateInv
<1>3. none \in [FdSlots -> Fds \cup {None}] /\ \A s \in FdSlots : none[s] = None
  OBVIOUS
<1> HIDE DEF none
<1>4. /\ fds' \in [Contexts -> [FdSlots -> Fds \cup {None}]]
      /\ fds'[1] = fds[1] /\ fds'[2] = none
      /\ cwd' \in [Contexts -> Nodes \cup {None}] /\ cwd'[1] = cwd[1] /\ cwd'[2] = None
  BY <1>0, <1>1, <1>2, <1>3
<1>5. /\ l \in Seq(Fds)
      /\ \A d \in Fds : Cardinality(Places(l, d)) = Cardinality(SlotsWith(2, d))
  <2>1. fds[2] \in [FdSlots -> Fds \cup {None}]
    BY <1>1, <1>2
  <2>2. \A d \in Fds : SlotsWith(2, d) = {s \in FdSlots : fds[2][s] = d}
    BY DEF SlotsWith
  <2>3. /\ Descriptors(fds[2]) \in Seq(Fds)
        /\ \A d \in Fds : Cardinality(Places(Descriptors(fds[2]), d))
                             = Cardinality({s \in FdSlots : fds[2][s] = d})
    BY <2>1, PlacesDescriptors
  <2> QED BY <1>b, <2>2, <2>3
<1>6. /\ r \in VThread /\ VShape(r) /\ r.todo = l /\ r.freeing = None
      /\ IF v = None THEN r.pc \in {"run", "put"} ELSE r.pc = "dec" /\ r.node = v
  <2>1. CASE v = None
    <3>1. r = Rest(l)
      BY <2>1
    <3> HIDE DEF r
    <3> QED BY <1>5, <2>1, <3>1, VfsRecords
  <2>2. CASE v # None
    <3>1. r = Drop(v, l) /\ v \in Nodes
      BY <1>2, <2>2
    <3> HIDE DEF r
    <3> QED BY <1>5, <2>2, <3>1, VfsRecords
  <2> QED BY <2>1, <2>2
<1> HIDE DEF r
<1>7. ThreadsInv' /\ th'[t] = r /\ \A u \in Callers : u # t => th'[u] = th[u]
  BY <1>0, <1>6, ThreadsStep DEF VfsInductive
<1>8. StateInv'
  BY <1>0, <1>4 DEF VfsInductive, StateInv
<1>9. TableInv' /\ DelInv' /\ BusyInv'
  <2>1. /\ UNCHANGED <<vnode, table, linked>>
        /\ th'[t].pc \notin BusyPcs \cup {"got", "found"}
    BY <1>0, <1>6, <1>7 DEF BusyPcs
  <2>2. \A u \in Callers : th'[u].pc \in BusyPcs => th'[u].node \in Nodes
    BY <1>7 DEF ThreadsInv, VShape, BusyPcs, NodePcs
  <2>3. \A f \in Files : table[f] # None => table[f] \in Nodes
    BY DEF VfsInductive, StateInv
  <2>4. TableInv /\ DelInv /\ BusyInv
    BY DEF VfsInductive, NodesInv
  <2>5. \A w \in Nodes : vnode'[w].alloc /\ vnode'[w].del =>
                            vnode[w].del \/ vnode[w].file \notin linked'
    BY <2>1, <2>4 DEF DelInv
  <2> QED BY <1>7, <2>1, <2>2, <2>3, <2>4, <2>5, VnodesKeep
<1>10. RefInv'
  <2>1. ASSUME NEW w \in Nodes
        PROVE  (Holders(w) = Counted(w))'
    <3>1. \A u \in Callers : u # t => (WalksOn(u, w)' <=> WalksOn(u, w))
      BY <1>0, <1>7 DEF WalksOn
    <3>2. \A e \in Fds : e # None => (Describes(e, w)' <=> Describes(e, w))
      BY <1>0 DEF Describes
    <3>3. \A b \in Contexts : b # 2 => (WorksIn(b, w)' <=> WorksIn(b, w))
      BY <1>1, <1>4 DEF WorksIn
    <3>4. ~WalksOn(t, w) /\ (WalksOn(t, w)' <=> v = w)
      <4>1. ~WalksOn(t, w)
        BY <1>0 DEF WalksOn
      <4>2. WalksOn(t, w)' <=> v = w
        BY <1>6, <1>7, VfsAssumption DEF WalksOn
      <4> QED BY <4>1, <4>2
    <3>5. (WorksIn(2, w) <=> v = w) /\ ~WorksIn(2, w)'
      BY <1>1, <1>4, <1>a, VfsAssumption DEF WorksIn
    <3>6. ~Describes(None, w) /\ ~Describes(None, w)'
      BY VfsAssumption DEF Describes
    <3>7. Counted(w)' = Counted(w) /\ Counted(w) \in Nat
      <4>1. vnode[w].ref \in Nat
        BY DEF VfsInductive, StateInv
      <4> QED BY <1>0, <4>1 DEF Counted
    <3>8. /\ Bit(WalksOn(t, w)) = 0 /\ Bit(WalksOn(t, w)') = Bit(v = w)
          /\ Bit(WorksIn(2, w)) = Bit(v = w) /\ Bit(WorksIn(2, w)') = 0
          /\ Bit(Describes(None, w)) = 0 /\ Bit(Describes(None, w)') = 0
          /\ Bit(v = w) \in Int
      BY <3>4, <3>5, <3>6 DEF Bit
    <3>9. Counted(w)' = Counted(w) - Bit(WalksOn(t, w)) + Bit(WalksOn(t, w)')
                                   - Bit(Describes(None, w)) + Bit(Describes(None, w)')
                                   - Bit(WorksIn(2, w)) + Bit(WorksIn(2, w)')
      BY <3>7, <3>8
    <3>10. RefInv
      BY DEF VfsInductive, NodesInv
    <3> QED BY <3>1, <3>2, <3>3, <3>9, <3>10, RefStep
  <2> QED BY <2>1 DEF RefInv
<1>11. CountInv'
  <2>1. ASSUME NEW d \in Fds
        PROVE  CountOf(d)'
    <3>1. /\ IsFiniteSet(Puts(d)) /\ Cardinality(Puts(d)) \in Nat
          /\ Cardinality(SlotsWith(1, d)) \in Nat /\ Cardinality(SlotsWith(2, d)) \in Nat
      BY <1>1, DescIs, RefsAre
    <3>2. /\ SlotsWith(1, d)' = SlotsWith(1, d) /\ SlotsWith(2, d)' = {}
      <4>1. SlotsWith(1, d)' = SlotsWith(1, d)
        BY <1>4 DEF SlotsWith
      <4>2. SlotsWith(2, d)' = {}
        BY <1>3, <1>4, VfsAssumption DEF SlotsWith
      <4> QED BY <4>1, <4>2
    <3>3. /\ IsFiniteSet(Puts(d)')
          /\ Cardinality(Puts(d)') = Cardinality(Puts(d)) + Cardinality(SlotsWith(2, d))
      <4>1. th[t].todo = <<>> /\ th[t].todo \in Seq(Fds) /\ th'[t].todo \in Seq(Fds) /\ th'[t].todo = l
        BY <1>0, <1>5, <1>6, <1>7, ThreadIs, VfsRecords DEF VShape
      <4>2. Cardinality(Places(th[t].todo, d)) = 0
        BY <4>1, PlacesShort
      <4>3. Cardinality(Places(th'[t].todo, d)) = Cardinality(SlotsWith(2, d))
        BY <1>5, <4>1
      <4>4. \A u \in Callers : u # t => th'[u].todo = th[u].todo
        BY <1>7
      <4>5. /\ IsFiniteSet(Puts(d)')
            /\ Cardinality(Puts(d)') = Cardinality(Puts(d)) - Cardinality(Places(th[t].todo, d))
                                          + Cardinality(Places(th'[t].todo, d))
        BY <3>1, <4>1, <4>4, PutsStep
      <4> QED BY <3>1, <4>2, <4>3, <4>5
    <3>4. Refs(d)' = Refs(d)
      <4>1. Refs(d)' = Cardinality(SlotsWith(1, d)) + 0 + Cardinality(Puts(d)')
        BY <3>2, FS_EmptySet DEF Refs
      <4> QED BY <3>1, <3>3, <4>1 DEF Refs
    <3> QED BY <1>0, <3>3, <3>4, DescIs DEF CountOf
  <2> QED BY <2>1 DEF CountInv
<1>12. OpenInv' /\ FreeInv'
  <2>1. ~Opens(th'[t]) /\ th'[t].freeing = None
    BY <1>6, <1>7 DEF Opens
  <2>2. \A e \in Fds : e # None => fd'[e] = fd[e] /\ (e \in lost' <=> e \in lost)
    BY <1>0
  <2>3. /\ \A u \in Callers : u # t /\ Opens(th[u]) => th[u].todo[1] # None
        /\ \A u \in Callers : u # t /\ th[u].freeing # None => th[u].freeing # None
    BY OpenerAlone, VfsAssumption
  <2> QED BY <1>7, <2>1, <2>2, <2>3, DescStepPlain
<1>13. ChildInv'
  BY <1>3, <1>4 DEF ChildInv
<1> QED BY <1>7, <1>8, <1>9, <1>10, <1>11, <1>12, <1>13 DEF VfsInductive, NodesInv, DescInv

-----------------------------------------------------------------------------
(* The theorems.                                                           *)

(* At the start nothing is in memory.                                      *)
LEMMA VfsInitially ==
    ASSUME VfsInit
    PROVE  VfsInductive
<1>1. ThreadsInv
  <2>1. th = [t \in Callers |-> Idle]
    BY DEF VfsInit
  <2> QED BY <2>1, VfsRecords DEF ThreadsInv
<1>2. StateInv
  <2>1. /\ NoNode \in [alloc : BOOLEAN, file : Files \cup {None}, ref : Nat,
                       busy : BOOLEAN, del : BOOLEAN]
        /\ NoFd \in [alloc : BOOLEAN, ref : Nat, node : Nodes \cup {None}]
    BY DEF NoNode, NoFd
  <2> QED BY <2>1 DEF VfsInit, StateInv
<1>3. /\ \A t \in Callers : th[t] = Idle
      /\ \A v \in Nodes : vnode[v] = NoNode
      /\ \A f \in Files : table[f] = None
      /\ \A d \in Fds : fd[d] = NoFd /\ leaked[d] = 0 /\ d \notin lost
      /\ \A c \in Contexts : cwd[c] = None /\ \A s \in FdSlots : fds[c][s] = None
  BY DEF VfsInit
<1>4. TableInv /\ DelInv /\ BusyInv
  <2>1. NoNode.alloc = FALSE
    BY DEF NoNode
  <2>2. TableInv
    BY <1>3, <2>1 DEF TableInv
  <2>3. DelInv
    BY <1>3, <2>1 DEF DelInv
  <2>4. \A t \in Callers : th[t].pc = "run"
    BY <1>3, VfsRecords
  <2>5. BusyInv
    BY <2>4 DEF BusyInv, BusyPcs
  <2> QED BY <2>2, <2>3, <2>5
<1>5. RefInv
  <2>1. ASSUME NEW v \in Nodes
        PROVE  Holders(v) = Counted(v)
    <3>1. /\ \A t \in Callers : ~WalksOn(t, v)
          /\ \A d \in Fds : ~Describes(d, v)
          /\ \A c \in Contexts : ~WorksIn(c, v)
      BY <1>3, VfsRecords, VfsAssumption DEF WalksOn, Describes, WorksIn, NoFd
    <3>2. Counted(v) = 0
      BY <1>3 DEF Counted, NoNode
    <3> QED BY <3>1, <3>2, HoldersAre
  <2> QED BY <2>1 DEF RefInv
<1>6. CountInv
  <2>1. ASSUME NEW d \in Fds
        PROVE  CountOf(d)
    <3>1. Puts(d) = {}
      BY <1>3, VfsRecords DEF Puts, Places
    <3>2. SlotsWith(1, d) = {} /\ SlotsWith(2, d) = {}
      BY <1>3, VfsAssumption DEF SlotsWith, Contexts
    <3>3. IsFiniteSet(Puts(d)) /\ Refs(d) = 0
      BY <3>1, <3>2, FS_EmptySet DEF Refs
    <3> QED BY <1>3, <3>3 DEF CountOf, NoFd
  <2> QED BY <2>1 DEF CountInv
<1>7. OpenInv /\ FreeInv
  BY <1>3, VfsRecords DEF OpenInv, FreeInv, Opens
<1>8. ChildInv
  <2>1. 2 \in Contexts
    BY DEF Contexts
  <2> QED BY <1>3, <2>1 DEF ChildInv
<1> QED BY <1>1, <1>2, <1>4, <1>5, <1>6, <1>7, <1>8 DEF VfsInductive, NodesInv, DescInv

(* Nothing happens.                                                        *)
LEMMA VfsStutters ==
    ASSUME VfsInductive, UNCHANGED vnodeVars
    PROVE  VfsInductive'
<1>1. /\ UNCHANGED <<vnode, table, linked, exists, fslock, th>>
      /\ UNCHANGED <<fd, fds, cwd, child, iolock, leaked, lost>>
  BY DEF vnodeVars, vfsVars, fsVars, ioVars
<1>2. StateInv'
  BY <1>1 DEF VfsInductive, StateInv
<1>3. ThreadsInv'
  BY <1>1 DEF VfsInductive, ThreadsInv
<1>4. NodesInv'
  <2>1. TableInv' /\ DelInv' /\ BusyInv'
    BY <1>1 DEF VfsInductive, NodesInv, TableInv, DelInv, BusyInv
  <2>2. \A v \in Nodes : Holders(v)' = Holders(v) /\ Counted(v)' = Counted(v)
    BY <1>1 DEF Holders, Walkers, OpenOn, CwdIn, Counted
  <2>3. RefInv'
    BY <2>2 DEF VfsInductive, NodesInv, RefInv
  <2> QED BY <2>1, <2>3 DEF NodesInv
<1>5. DescInv'
  <2>1. \A d \in Fds : CountOf(d)' <=> CountOf(d)
    BY <1>1 DEF CountOf, Refs, SlotsWith, Puts
  <2>2. CountInv' /\ OpenInv' /\ FreeInv' /\ ChildInv'
    BY <1>1, <2>1 DEF VfsInductive, DescInv, CountInv, OpenInv, FreeInv, ChildInv
  <2> QED BY <2>2 DEF DescInv
<1> QED BY <1>2, <1>3, <1>4, <1>5 DEF VfsInductive

(* Every step keeps the invariant.                                         *)
LEMMA VfsNextKeeps ==
    ASSUME VfsInductive, NextPatient
    PROVE  VfsInductive'
<1> PICK t \in Callers : VfsCall(t) \/ Step(t)
  BY DEF NextPatient
<1>1. CASE \E op \in {"open", "cwd"}, f \in Files : Walk(t, op, f)
  BY <1>1, WalkMoves
<1>2. CASE \E op \in {"read", "ioctl", "close", "dup"}, s \in FdSlots : GetFd(t, op, s)
  BY <1>2, GetFdKeeps
<1>3. CASE \E ofd, nfd \in FdSlots : vfs_dup2(t, ofd, nfd)
  BY <1>3, Dup2Keeps
<1>4. CASE \E f \in Files : vfs_unlink(t, f)
  BY <1>4, UnlinkKeeps
<1>5. CASE vfs_new_io_context(t)
  BY <1>5, NewContextKeeps
<1>6. CASE vfs_free_io_context(t)
  BY <1>6, FreeContextKeeps
<1>7. CASE RootfsLookup(t)
  BY <1>7, LookupMoves
<1>8. CASE GetFound(t)
  BY <1>8, GetFoundKeeps
<1>9. CASE GetCreate(t)
  BY <1>9, GetCreateKeeps
<1>10. CASE GetRead(t)
  BY <1>10, GetReadKeeps
<1>11. CASE GetFails(t)
  BY <1>11, GetFailsKeeps
<1>12. CASE LookupDone(t)
  BY <1>12, LookupDoneMoves
<1>13. CASE PathFound(t)
  BY <1>13, PathFoundMoves
<1>14. CASE UseFails(t)
  BY <1>14, UseFailsMoves
<1>15. CASE OpenFile(t)
  BY <1>15, OpenFileKeeps
<1>16. CASE NewFd(t)
  BY <1>16, NewFdKeeps
<1>17. CASE NewFdFull(t)
  BY <1>17, NewFdFullKeeps
<1>18. CASE SetCwd(t)
  BY <1>18, SetCwdKeeps
<1>19. CASE DecRef(t)
  BY <1>19, DecRefKeeps
<1>20. CASE FsPut(t)
  BY <1>20, FsPutMoves
<1>21. CASE Unhash(t)
  BY <1>21, UnhashKeeps
<1>22. CASE Used(t)
  BY <1>22, UsedMoves
<1>23. CASE Ioctl(t)
  BY <1>23, IoctlKeeps
<1>24. CASE RemoveFd(t)
  BY <1>24, RemoveFdKeeps
<1>25. CASE PutFd(t)
  BY <1>25, PutFdKeeps
<1>26. CASE FreeFd(t)
  BY <1>26, FreeFdKeeps
<1> QED BY <1>1, <1>2, <1>3, <1>4, <1>5, <1>6, <1>7, <1>8, <1>9, <1>10, <1>11, <1>12, <1>13,
           <1>14, <1>15, <1>16, <1>17, <1>18, <1>19, <1>20, <1>21, <1>22, <1>23, <1>24, <1>25,
           <1>26 DEF VfsCall, Step, WalkStep

(* get_vnode, put_vnode, get_fd, put_fd and their callers keep the counts, *)
(* the table and the local variables of the calls as they should be.       *)
THEOREM VfsInvariant == SpecPatient => []VfsInductive
<1>1. VfsInit => VfsInductive
  BY VfsInitially
<1>2. VfsInductive /\ [NextPatient]_vnodeVars => VfsInductive'
  BY VfsNextKeeps, VfsStutters
<1> QED BY <1>1, <1>2, PTL DEF SpecPatient

(* The invariant has the counts in it.                                     *)
LEMMA VfsCounts ==
    ASSUME VfsInductive
    PROVE  ReferencesCounted
<1>1. VfsTypeOK
  <2>1. ASSUME NEW t \in Callers
        PROVE  /\ th[t].pc \in {"run", "lookup", "get", "snooze", "read", "got", "found",
                                "have", "newfd", "use", "dec", "fsput", "unhash", "put", "kfree"}
               /\ th[t].op \in {"none", "open", "cwd", "read", "ioctl", "close", "dup"}
               /\ th[t].file \in Files \cup {None} /\ th[t].node \in Nodes \cup {None}
               /\ th[t].todo \in Seq(Fds) /\ th[t].freeing \in Fds \cup {None}
    <3>1. th[t] \in VThread
      BY ThreadIs
    <3> QED BY <3>1 DEF VThread, VfsPcs
  <2> QED BY <2>1 DEF VfsInductive, StateInv, VfsTypeOK
<1>2. \A v \in Nodes : Holders(v) = Counted(v)
  BY DEF VfsInductive, NodesInv, RefInv
<1>3. VnodeRefsCounted
  BY <1>2 DEF VnodeRefsCounted, Counted
<1>4. HeldVnodeAlive
  <2>1. ASSUME NEW v \in Nodes, Holders(v) > 0
        PROVE  vnode[v].alloc /\ ~vnode[v].busy /\ table[vnode[v].file] = v
    <3>1. Counted(v) # 0
      BY <1>2, <2>1
    <3>2. vnode[v].alloc /\ ~vnode[v].busy
      BY <3>1 DEF Counted
    <3> QED BY <3>2 DEF VfsInductive, NodesInv, TableInv
  <2> QED BY <2>1 DEF VfsInductive, NodesInv, BusyInv, HeldVnodeAlive
<1>5. DescriptorRefsCounted
  BY DescIs DEF DescriptorRefsCounted, Refs
<1> QED BY <1>1, <1>3, <1>4, <1>5 DEF ReferencesCounted

(* Every vnode's and every descriptor's ref_count is the number of those   *)
(* who refer to it, and what is referred to is in memory: get_vnode,       *)
(* put_vnode, get_fd, put_fd, new_fd and the io contexts count right.      *)
THEOREM ReferencesCountedAlways == SpecPatient => []ReferencesCounted
<1>1. VfsInductive => ReferencesCounted
  BY VfsCounts
<1> QED BY <1>1, VfsInvariant, PTL

(* Only fs_removevnode takes a file from the file system, and then nobody  *)
(* refers to it.                                                           *)
LEMMA RemovalIsLast ==
    ASSUME VfsInductive, NEW t \in Callers, FsPut(t), NEW f \in exists \ exists'
    PROVE  f \notin linked /\ \A v \in Nodes : vnode[v].file = f => Holders(v) = 0
<1>a. PICK b : b = th[t].node
  OBVIOUS
<1>1. /\ th[t].pc = "fsput" /\ vnode[b].del /\ f = vnode[b].file
  BY <1>a DEF FsPut, At
<1>2. b \in Nodes /\ vnode[b].alloc /\ vnode[b].busy
  <2>1. b \in Nodes
    BY <1>1, <1>a, ThreadIs DEF VShape, NodePcs
  <2>2. vnode[b].alloc /\ vnode[b].busy
    BY <1>1, <1>a DEF VfsInductive, NodesInv, BusyInv, BusyPcs
  <2> QED BY <2>1, <2>2
<1>3. f \notin linked
  BY <1>1, <1>2 DEF VfsInductive, NodesInv, DelInv
<1>4. f \in Files /\ table[f] = b
  BY <1>1, <1>2 DEF VfsInductive, NodesInv, TableInv
<1>5. ASSUME NEW v \in Nodes, vnode[v].file = f
      PROVE  Holders(v) = 0
  <2>1. CASE vnode[v].alloc
    <3>1. v = b
      BY <1>4, <1>5, <2>1 DEF VfsInductive, NodesInv, TableInv
    <3>2. Counted(v) = 0
      BY <1>2, <3>1 DEF Counted
    <3> QED BY <3>2 DEF VfsInductive, NodesInv, RefInv
  <2>2. CASE ~vnode[v].alloc
    <3>1. Counted(v) = 0
      BY <2>2 DEF Counted
    <3> QED BY <3>1 DEF VfsInductive, NodesInv, RefInv
  <2> QED BY <2>1, <2>2
<1> QED BY <1>3, <1>5

(* Nothing else takes files away.                                          *)
LEMMA OthersRemoveNothing ==
    ASSUME NEW t \in Callers, VfsCall(t) \/ Step(t), ~FsPut(t)
    PROVE  exists' = exists
<1>1. CASE VfsCall(t)
  BY <1>1 DEF VfsCall, Walk, GetFd, vfs_dup2, vfs_unlink, vfs_new_io_context,
              vfs_free_io_context, fsVars
<1>2. CASE WalkStep(t)
  BY <1>2 DEF WalkStep, RootfsLookup, GetFound, GetCreate, GetRead, GetFails, LookupDone,
              PathFound, fsVars
<1>3. CASE Step(t) /\ ~WalkStep(t)
  BY <1>3 DEF Step, UseFails, OpenFile, NewFd, NewFdFull, SetCwd, DecRef, Unhash, Used,
              Ioctl, RemoveFd, PutFd, FreeFd, fsVars
<1> QED BY <1>1, <1>2, <1>3

(* rootfs_removevnode is called for a file that is in no directory and     *)
(* that nobody has open, walks to or works in: vfs_remove_vnode leaves the *)
(* file to dec_vnode_ref_count, and that to the last reference.            *)
THEOREM RemovedLastAlways == SpecPatient => RemovedLast
<1>1. VfsInductive /\ [NextPatient]_vnodeVars =>
        [\A f \in exists \ exists' :
            f \notin linked /\ \A v \in Nodes : vnode[v].file = f => Holders(v) = 0]_vnodeVars
  <2> SUFFICES ASSUME VfsInductive, NextPatient, NEW f \in exists \ exists'
               PROVE  f \notin linked /\ \A v \in Nodes : vnode[v].file = f => Holders(v) = 0
    OBVIOUS
  <2>1. PICK t \in Callers : VfsCall(t) \/ Step(t)
    BY DEF NextPatient
  <2>2. FsPut(t)
    BY <2>1, OthersRemoveNothing
  <2> QED BY <2>2, RemovalIsLast
<1> QED BY <1>1, VfsInvariant, PTL DEF SpecPatient, RemovedLast

-----------------------------------------------------------------------------
(* Induction, for a set of natural numbers.                                *)
LEMMA NatInSet ==
    ASSUME NEW S, 0 \in S, \A n \in Nat : n \in S => n + 1 \in S
    PROVE  \A n \in Nat : n \in S
<1> DEFINE T == Nat \ S
<1>1. SUFFICES ASSUME T # {} PROVE FALSE
  OBVIOUS
<1>2. Min(T) \in T /\ \A k \in T : Min(T) <= k
  BY <1>1, MinNat
<1> DEFINE m == Min(T)
<1>3. m \in T /\ \A k \in T : m <= k
  BY <1>2
<1> HIDE DEF m
<1>4. m \in Nat /\ m # 0 /\ m - 1 \in Nat
  BY <1>3
<1>5. m - 1 \notin T
  BY <1>3, <1>4
<1> QED BY <1>3, <1>4, <1>5

(* A function can be defined by recursion over the natural numbers: by its *)
(* value at 0 and by a step.                                               *)
Unrolls(h, A, a, F) ==
    h \in [Nat -> A] /\ h[0] = a /\ \A n \in Nat : h[n + 1] = F[<<h[n], n>>]

(* Such a function exists.                                                *)
LEMMA Recursion ==
    ASSUME NEW A, NEW a \in A, NEW F \in [A \X Nat -> A]
    PROVE  \E h : Unrolls(h, A, a, F)
<1> DEFINE Ap(n) == {g \in [0 .. n -> A] :
                        g[0] = a /\ \A i \in 0 .. n : i # n => g[i + 1] = F[<<g[i], i>>]}
           S == {n \in Nat : Ap(n) # {}}
           G(n) == CHOOSE g : g \in Ap(n)
           h == [n \in Nat |-> G(n)[n]]
<1>1. \A n \in Nat : n \in S
  <2>1. [i \in 0 .. 0 |-> a] \in Ap(0)
    OBVIOUS
  <2>2. 0 \in S
    BY <2>1
  <2>3. ASSUME NEW n \in Nat, n \in S PROVE n + 1 \in S
    <3>1. PICK g : g \in Ap(n)
      BY <2>3
    <3> DEFINE k == [i \in 0 .. n + 1 |-> IF i = n + 1 THEN F[<<g[n], n>>] ELSE g[i]]
    <3>2. g \in [0 .. n -> A] /\ g[0] = a
          /\ \A i \in 0 .. n : i # n => g[i + 1] = F[<<g[i], i>>]
      BY <3>1
    <3>3. k \in [0 .. n + 1 -> A]
      <4>1. \A i \in 0 .. n + 1 : i # n + 1 => i \in 0 .. n
        OBVIOUS
      <4>2. <<g[n], n>> \in A \X Nat
        BY <3>2
      <4> QED BY <4>1, <4>2, <3>2
    <3>4. k[0] = a
      BY <3>2
    <3>5. ASSUME NEW i \in 0 .. n + 1, i # n + 1 PROVE k[i + 1] = F[<<k[i], i>>]
      <4>1. i \in 0 .. n /\ i + 1 \in 0 .. n + 1 /\ k[i] = g[i]
        BY <3>5
      <4>2. CASE i = n
        BY <4>1, <4>2
      <4>3. CASE i # n
        BY <4>1, <4>3, <3>2
      <4> QED BY <4>2, <4>3
    <3>6. k \in Ap(n + 1)
      BY <3>3, <3>4, <3>5
    <3> HIDE DEF Ap, k
    <3>7. Ap(n + 1) # {} /\ n + 1 \in Nat
      BY <3>6
    <3> QED BY <3>7
  <2> QED BY <2>2, <2>3, NatInSet
<1>2. \A n \in Nat : /\ G(n) \in [0 .. n -> A] /\ G(n)[0] = a
                     /\ \A i \in 0 .. n : i # n => G(n)[i + 1] = F[<<G(n)[i], i>>]
  <2> TAKE n \in Nat
  <2>1. G(n) \in Ap(n)
    BY <1>1
  <2> QED BY <2>1
<1> HIDE DEF G
<1>3. ASSUME NEW n \in Nat PROVE G(n + 1)[n] = G(n)[n]
  <2> DEFINE U == {i \in Nat : i <= n => G(n + 1)[i] = G(n)[i]}
  <2>1. 0 \in U
    BY <1>2
  <2>2. ASSUME NEW i \in Nat, i \in U PROVE i + 1 \in U
    <3>1. SUFFICES ASSUME i + 1 <= n PROVE G(n + 1)[i + 1] = G(n)[i + 1]
      OBVIOUS
    <3>2. i \in 0 .. n /\ i # n /\ i \in 0 .. n + 1 /\ i # n + 1 /\ G(n + 1)[i] = G(n)[i]
      BY <3>1, <2>2
    <3>3. G(n)[i + 1] = F[<<G(n)[i], i>>]
      BY <3>2, <1>2
    <3>4. G(n + 1)[i + 1] = F[<<G(n + 1)[i], i>>]
      BY <3>2, <1>2
    <3> QED BY <3>2, <3>3, <3>4
  <2>3. n \in U
    BY <2>1, <2>2, NatInSet
  <2> QED BY <2>3
<1>4. h \in [Nat -> A] /\ h[0] = a
  BY <1>2
<1>5. ASSUME NEW n \in Nat PROVE h[n + 1] = F[<<h[n], n>>]
  <2>1. n \in 0 .. n + 1 /\ n # n + 1 /\ n + 1 \in Nat
    OBVIOUS
  <2>2. G(n + 1)[n + 1] = F[<<G(n + 1)[n], n>>]
    BY <1>2, <2>1
  <2>3. h[n] = G(n)[n] /\ h[n + 1] = G(n + 1)[n + 1]
    OBVIOUS
  <2> HIDE DEF h
  <2> QED BY <1>3, <2>2, <2>3
<1> HIDE DEF h
<1> QED BY <1>4, <1>5 DEF Unrolls

-----------------------------------------------------------------------------
(* The code is right about groups of one bitmap block only.                *)
OneBlock == BlocksPerGroup = 1

(* Remainders and quotients of what is below a number, or up to two of it  *)
(* above.                                                                  *)
LEMMA ModFacts ==
    ASSUME NEW n \in Nat \ {0}
    PROVE  /\ \A a \in 0 .. n - 1 : a % n = a /\ a \div n = 0 /\ (a + n) % n = a
                                    /\ (a + n + n) % n = a
           /\ n % n = 0 /\ n \div n = 1
           /\ \A a \in Nat : a % n \in 0 .. n - 1
  OBVIOUS

(* A group is one bitmap block, of which the volume has all or a part.     *)
LEMMA GroupFacts ==
    ASSUME OneBlock
    PROVE  /\ GroupBits = BlockBits /\ BlockBits \in Nat \ {0} /\ BlocksPerGroup = 1
           /\ NumGroups \in Nat \ {0} /\ NumBlocks \in Nat /\ Reserved \in Nat
           /\ 0 \in Groups /\ Reserved <= fNumBits(0)
           /\ \A g \in Groups : fNumBits(g) \in 1 .. BlockBits /\ NumBlockBits(g) = fNumBits(g)
           /\ \A g \in Groups : g # NumGroups - 1 => fNumBits(g) = BlockBits
           /\ fNumBits(NumGroups - 1) = NumBlocks - (NumGroups - 1) * BlockBits
           /\ NumGroups - 1 \in Groups
<1>1. /\ GroupBits = BlockBits /\ BlockBits \in Nat \ {0} /\ NumGroups \in Nat \ {0}
      /\ NumBlocks \in (NumGroups - 1) * BlockBits + 1 .. NumGroups * BlockBits
      /\ Reserved \in 0 .. BlockBits /\ Reserved <= NumBlocks
  BY AllocatorAssumption DEF OneBlock, GroupBits
<1> DEFINE p == (NumGroups - 1) * BlockBits
<1>2. p \in Nat /\ NumGroups * BlockBits = p + BlockBits
  BY <1>1
<1>3. /\ NumBlocks \in Nat /\ NumBlocks - p \in 1 .. BlockBits
      /\ NumGroups = 1 => p = 0
  BY <1>1, <1>2
<1>4. \A g \in Groups : fNumBits(g) \in 1 .. BlockBits /\ (g # NumGroups - 1 => fNumBits(g) = BlockBits)
  BY <1>1, <1>3 DEF fNumBits
<1>5. ASSUME NEW g \in Groups PROVE NumBlockBits(g) = fNumBits(g)
  <2>1. fNumBits(g) = BlockBits \/ fNumBits(g) \in 0 .. BlockBits - 1
    BY <1>4, <1>1
  <2>2. fNumBits(g) % BlockBits = IF fNumBits(g) = BlockBits THEN 0 ELSE fNumBits(g)
    BY <2>1, <1>1, ModFacts
  <2> QED BY <2>2, <1>4, <1>1 DEF NumBlockBits
<1>6. 0 \in Groups /\ Reserved <= fNumBits(0)
  BY <1>1, <1>3 DEF fNumBits, Groups
<1> QED BY <1>1, <1>3, <1>4, <1>5, <1>6 DEF OneBlock, fNumBits, Groups

-----------------------------------------------------------------------------
(* The scan of a bitmap block.                                             *)
Scans == [range : Nat, start : Int, first : Int, block : Int, stop : BOOLEAN]

(* What ScanBit makes of a scan.                                           *)
Longer(x, bit, maximum) ==
    [range |-> x.range + 1, start |-> IF x.range = 0 THEN bit ELSE x.start,
     first |-> IF x.range = 0 THEN 0 ELSE x.first, block |-> x.block,
     stop |-> x.range + 1 >= maximum]
Stopped(x) == [x EXCEPT !.stop = TRUE]
Restarted(x) == [x EXCEPT !.range = 0]

(* One bit: the scan has stopped, gets longer, stops, or starts over.      *)
LEMMA ScanBitValue ==
    ASSUME OneBlock, NEW g \in Groups, NEW second, NEW maximum \in Nat, NEW minimum \in Nat,
           NEW x \in Scans, NEW bit \in Int
    PROVE  ScanBit(g, 0, second, maximum, minimum, x, bit) =
              IF x.stop THEN x
              ELSE IF ~IsUsed(g, 0, bit) THEN Longer(x, bit, maximum)
              ELSE IF second /\ x.range >= minimum THEN Stopped(x) ELSE Restarted(x)
<1>1. 0 * NumBlockBits(g) + bit = bit
  BY GroupFacts
<1> QED BY <1>1 DEF ScanBit, Longer, Stopped, Restarted

(* The scan of a bit is a scan.                                            *)
LEMMA ScanBitType ==
    ASSUME OneBlock, NEW g \in Groups, NEW second, NEW maximum \in Nat, NEW minimum \in Nat,
           NEW x \in Scans, NEW bit \in Int
    PROVE  ScanBit(g, 0, second, maximum, minimum, x, bit) \in Scans
<1>1. /\ x.range \in Nat /\ x.range + 1 \in Nat /\ x.start \in Int /\ x.first \in Int
      /\ x.block \in Int /\ x.stop \in BOOLEAN /\ (x.range + 1 >= maximum) \in BOOLEAN
  BY DEF Scans
<1>2. Longer(x, bit, maximum) \in Scans
  BY <1>1 DEF Longer, Scans
<1>3. Stopped(x) \in Scans /\ Restarted(x) \in Scans
  BY <1>1 DEF Stopped, Restarted, Scans
<1> QED BY <1>2, <1>3, ScanBitValue

(* The recursion over the bits has a value: one scan after each bit.       *)
LEMMA ScanBitsFunction ==
    ASSUME OneBlock, NEW g \in Groups, NEW from \in 0 .. fNumBits(g), NEW second,
           NEW maximum \in Nat, NEW minimum \in Nat
    PROVE  \E h \in [Nat -> Scans] :
              /\ h[0] = NoRange
              /\ \A n \in 0 .. BlockBits : n # 0 =>
                    h[n] = ScanBit(g, 0, second, maximum, minimum, h[n - 1], from + n - 1)
              /\ ScanBits(g, 0, from, second, maximum, minimum, NoRange)
                    = h[fNumBits(g) - from]
<1> DEFINE ScanOne(x, n) == ScanBit(g, 0, second, maximum, minimum, x, from + n)
           F == [p \in Scans \X Nat |-> ScanOne(p[1], p[2])]
           Def(b) == b = [n \in 0 .. BlockBits |->
                            IF n = 0 THEN NoRange
                            ELSE ScanBit(g, 0, second, maximum, minimum, b[n - 1], from + n - 1)]
           bits == CHOOSE b : Def(b)
<1>0. BlockBits \in Nat /\ fNumBits(g) \in 1 .. BlockBits /\ NumBlockBits(g) = fNumBits(g)
  BY GroupFacts
<1>1. NoRange \in Scans
  BY DEF NoRange, Scans
<1>2. \A x \in Scans, n \in Nat : ScanOne(x, n) \in Scans
  BY ScanBitType
<1> HIDE DEF ScanOne
<1>3. F \in [Scans \X Nat -> Scans] /\ \A x \in Scans, n \in Nat : F[<<x, n>>] = ScanOne(x, n)
  BY <1>2
<1>4. PICK h \in [Nat -> Scans] : h[0] = NoRange /\ \A n \in Nat : h[n + 1] = F[<<h[n], n>>]
  <2> HIDE DEF F
  <2>1. F \in [Scans \X Nat -> Scans]
    BY <1>3
  <2>2. \E h : Unrolls(h, Scans, NoRange, F)
    BY <1>1, <2>1, Recursion
  <2> QED BY <2>2 DEF Unrolls
<1>5. \A n \in Nat : h[n + 1] = ScanOne(h[n], n)
  BY <1>3, <1>4
<1>6. \A n \in 0 .. BlockBits : n # 0 =>
         h[n] = ScanBit(g, 0, second, maximum, minimum, h[n - 1], from + n - 1)
  <2> TAKE n \in 0 .. BlockBits
  <2>1. n # 0 => n - 1 \in Nat /\ (n - 1) + 1 = n /\ from + (n - 1) = from + n - 1
    BY <1>0
  <2> QED BY <2>1, <1>5 DEF ScanOne
<1> DEFINE k == [n \in 0 .. BlockBits |-> h[n]]
<1>7. Def(k)
  <2>1. ASSUME NEW n \in 0 .. BlockBits
        PROVE  h[n] = IF n = 0 THEN NoRange
                      ELSE ScanBit(g, 0, second, maximum, minimum, k[n - 1], from + n - 1)
    <3>1. n # 0 => n - 1 \in 0 .. BlockBits /\ k[n - 1] = h[n - 1]
      BY <1>0
    <3> QED BY <3>1, <1>4, <1>6
  <2> QED BY <2>1
<1>8. Def(bits)
  <2> HIDE DEF Def, k
  <2> QED BY <1>7
<1>9. \A n \in 0 .. BlockBits : bits[n] = h[n]
  <2> HIDE DEF bits
  <2>0. bits = [n \in 0 .. BlockBits |->
                            IF n = 0 THEN NoRange
                            ELSE ScanBit(g, 0, second, maximum, minimum, bits[n - 1], from + n - 1)]
    BY <1>8
  <2> DEFINE U == {n \in Nat : n <= BlockBits => bits[n] = h[n]}
  <2>1. 0 \in U
    BY <1>0, <2>0, <1>4
  <2>2. ASSUME NEW n \in Nat, n \in U PROVE n + 1 \in U
    <3>1. SUFFICES ASSUME n + 1 <= BlockBits PROVE bits[n + 1] = h[n + 1]
      OBVIOUS
    <3>2. /\ n + 1 \in 0 .. BlockBits /\ n + 1 # 0 /\ (n + 1) - 1 = n /\ bits[n] = h[n]
      BY <3>1, <2>2, <1>0
    <3>3. bits[n + 1] = ScanBit(g, 0, second, maximum, minimum, bits[(n + 1) - 1], from + (n + 1) - 1)
      BY <2>0, <3>2
    <3>4. h[n + 1] = ScanBit(g, 0, second, maximum, minimum, h[(n + 1) - 1], from + (n + 1) - 1)
      BY <1>6, <3>2
    <3> QED BY <3>2, <3>3, <3>4
  <2>3. \A n \in Nat : n \in U
    BY <2>1, <2>2, NatInSet
  <2> QED BY <2>3
<1>10. ScanBits(g, 0, from, second, maximum, minimum, NoRange) = bits[fNumBits(g) - from]
  BY <1>0 DEF ScanBits
<1>11. fNumBits(g) - from \in 0 .. BlockBits
  BY <1>0
<1> HIDE DEF bits
<1>12. ScanBits(g, 0, from, second, maximum, minimum, NoRange) = h[fNumBits(g) - from]
  BY <1>9, <1>10, <1>11
<1> QED BY <1>4, <1>6, <1>12

(* The bits from b up to e, e itself excluded, are free.                   *)
FreeFrom(g, b, e) == \A i \in b .. e - 1 : i \in Free(g)

(* The range that completes a scan has to have at least so many blocks.    *)
Wanted(second, maximum, minimum) == IF second THEN minimum ELSE maximum

(* After the bits from `from' up to `to': the range is free, and, until    *)
(* the scan stops, it ends here; no longer one ends here, and none that is *)
(* long enough has been passed.                                            *)
RangeFree(g, from, to, maximum, x) ==
    /\ x \in Scans /\ x.block = -1 /\ x.range <= maximum
    /\ x.range > 0 => /\ x.first = 0 /\ from <= x.start /\ x.start + x.range <= to
                      /\ FreeFrom(g, x.start, x.start + x.range)
NoneMissed(g, from, to, q, x) ==
    /\ \A b \in from .. to : FreeFrom(g, b, to) => x.range >= to - b
    /\ \A b \in from .. to - q : FreeFrom(g, b, b + q) => x.range >= q
GoesOn(to, maximum, x) == x.range < maximum /\ (x.range > 0 => x.start + x.range = to)
StopsFor(second, maximum, minimum, x) == x.range = maximum \/ (second /\ x.range >= minimum)
ScanInv(g, from, to, second, maximum, minimum, x) ==
    /\ RangeFree(g, from, to, maximum, x)
    /\ ~x.stop => /\ GoesOn(to, maximum, x)
                  /\ NoneMissed(g, from, to, Wanted(second, maximum, minimum), x)
    /\ x.stop => StopsFor(second, maximum, minimum, x)

(* ScanBit of a free bit, and of a used one.                               *)
LEMMA ScanFreeBit ==
    ASSUME OneBlock, NEW g \in Groups, NEW from \in Nat, NEW to \in Nat, to < fNumBits(g),
           from <= to, to \in Free(g), NEW second \in BOOLEAN,
           NEW maximum \in Nat \ {0}, NEW minimum \in Nat \ {0}, NEW x,
           ScanInv(g, from, to, second, maximum, minimum, x), ~x.stop
    PROVE  ScanInv(g, from, to + 1, second, maximum, minimum,
                   ScanBit(g, 0, second, maximum, minimum, x, to))
<1> DEFINE y == ScanBit(g, 0, second, maximum, minimum, x, to)
           q == Wanted(second, maximum, minimum)
<1>0. q \in Nat \ {0} /\ 0 * BlockBits + to = to
  BY GroupFacts DEF Wanted
<1>1. ~IsUsed(g, 0, to)
  BY <1>0 DEF IsUsed, Free
<1>2. x \in Scans /\ x.block = -1 /\ x.range \in Nat /\ x.range < maximum /\ x.start \in Int
  BY DEF ScanInv, RangeFree, GoesOn, Scans
<1>3. y \in Scans
  BY ScanBitType, <1>2
<1>4. y = Longer(x, to, maximum)
  BY <1>1, <1>2, ScanBitValue
<1>5. /\ x.range > 0 => x.first = 0 /\ from <= x.start /\ x.start + x.range = to
                        /\ FreeFrom(g, x.start, x.start + x.range)
      /\ \A b \in from .. to : FreeFrom(g, b, to) => x.range >= to - b
      /\ \A b \in from .. to - q : FreeFrom(g, b, b + q) => x.range >= q
  BY DEF ScanInv, RangeFree, NoneMissed, GoesOn
<1> HIDE DEF y, q
<1>6. /\ y.range = x.range + 1 /\ y.block = -1 /\ (y.stop <=> y.range >= maximum)
      /\ x.range = 0 => y.start = to /\ y.first = 0
      /\ x.range > 0 => y.start = x.start /\ y.first = x.first
  <2>1. /\ y.range = x.range + 1 /\ y.block = x.block
        /\ y.start = IF x.range = 0 THEN to ELSE x.start
        /\ y.first = IF x.range = 0 THEN 0 ELSE x.first
    BY <1>4 DEF Longer
  <2>2. y.stop <=> x.range + 1 >= maximum
    BY <1>4 DEF Longer
  <2> QED BY <2>1, <2>2, <1>2
<1>7. /\ y.first = 0 /\ from <= y.start /\ y.start + y.range = to + 1 /\ y.start \in Int
      /\ y.range \in Nat /\ y.range > 0 /\ y.range <= maximum
  BY <1>2, <1>6, <1>5
<1>8. FreeFrom(g, y.start, y.start + y.range)
  <2>1. ASSUME NEW i \in y.start .. y.start + y.range - 1 PROVE i \in Free(g)
    <3>1. i = to \/ (x.range > 0 /\ i \in x.start .. x.start + x.range - 1)
      BY <1>2, <1>6, <1>5, <1>7
    <3> QED BY <3>1, <1>2, <1>5 DEF FreeFrom
  <2> QED BY <2>1, <1>7 DEF FreeFrom
<1>9. \A b \in from .. to + 1 : FreeFrom(g, b, to + 1) => y.range >= to + 1 - b
  <2> SUFFICES ASSUME NEW b \in from .. to + 1, FreeFrom(g, b, to + 1)
               PROVE  y.range >= to + 1 - b
    OBVIOUS
  <2>1. CASE b = to + 1
    BY <2>1, <1>7
  <2>2. CASE b # to + 1
    <3>1. b \in from .. to /\ FreeFrom(g, b, to)
      BY <2>2 DEF FreeFrom
    <3> QED BY <3>1, <1>2, <1>6, <1>5
  <2> QED BY <2>1, <2>2
<1>10. \A b \in from .. to + 1 - q : FreeFrom(g, b, b + q) => y.range >= q
  <2> SUFFICES ASSUME NEW b \in from .. to + 1 - q, FreeFrom(g, b, b + q)
               PROVE  y.range >= q
    OBVIOUS
  <2>1. CASE b + q = to + 1
    <3>1. b \in from .. to + 1 /\ to + 1 - b = q
      BY <2>1, <1>0
    <3> QED BY <3>1, <2>1, <1>9
  <2>2. CASE b + q # to + 1
    <3>1. b \in from .. to - q
      BY <2>2, <1>0
    <3> QED BY <3>1, <1>2, <1>6, <1>5, <1>0
  <2> QED BY <2>1, <2>2
<1>11. NoneMissed(g, from, to + 1, q, y)
  BY <1>0, <1>7, <1>9, <1>10 DEF NoneMissed
<1>12. RangeFree(g, from, to + 1, maximum, y)
  BY <1>3, <1>6, <1>7, <1>8 DEF RangeFree
<1>13. /\ ~y.stop => GoesOn(to + 1, maximum, y)
       /\ y.stop => StopsFor(second, maximum, minimum, y)
  <2>1. CASE y.stop
    <3>1. y.range >= maximum
      BY <2>1, <1>6
    <3>2. y.range = maximum
      BY <3>1, <1>7
    <3>3. StopsFor(second, maximum, minimum, y)
      BY <3>2 DEF StopsFor
    <3> QED BY <2>1, <3>3
  <2>2. CASE ~y.stop
    <3>1. y.range < maximum /\ (y.range > 0 => y.start + y.range = to + 1)
      BY <2>2, <1>6, <1>7
    <3> QED BY <2>2, <3>1 DEF GoesOn
  <2> QED BY <2>1, <2>2
<1>14. ScanInv(g, from, to + 1, second, maximum, minimum, y)
  BY <1>11, <1>12, <1>13 DEF ScanInv, q
<1> QED BY <1>14 DEF y

(* A used bit ends the range: what was found so far is kept, or there was  *)
(* nothing long enough.                                                    *)
LEMMA ScanUsedBit ==
    ASSUME OneBlock, NEW g \in Groups, NEW from \in Nat, NEW to \in Nat, to < fNumBits(g),
           from <= to, to \notin Free(g), NEW second \in BOOLEAN,
           NEW maximum \in Nat \ {0}, NEW minimum \in Nat \ {0}, NEW x,
           ScanInv(g, from, to, second, maximum, minimum, x), ~x.stop
    PROVE  ScanInv(g, from, to + 1, second, maximum, minimum,
                   ScanBit(g, 0, second, maximum, minimum, x, to))
<1> DEFINE y == ScanBit(g, 0, second, maximum, minimum, x, to)
           q == Wanted(second, maximum, minimum)
<1>0. q \in Nat \ {0} /\ 0 * BlockBits + to = to /\ fNumBits(g) \in Nat
  BY GroupFacts DEF Wanted
<1>1. IsUsed(g, 0, to)
  BY <1>0 DEF IsUsed, Free
<1>2. x \in Scans /\ x.block = -1 /\ x.range \in Nat /\ x.range < maximum /\ x.start \in Int
  BY DEF ScanInv, RangeFree, GoesOn, Scans
<1>3. y \in Scans
  BY ScanBitType, <1>2
<1>4. y = IF second /\ x.range >= minimum THEN Stopped(x) ELSE Restarted(x)
  BY <1>1, <1>2, ScanBitValue
<1>5. /\ x.range > 0 => x.first = 0 /\ from <= x.start /\ x.start + x.range = to
                        /\ FreeFrom(g, x.start, x.start + x.range)
      /\ \A b \in from .. to - q : FreeFrom(g, b, b + q) => x.range >= q
  BY DEF ScanInv, RangeFree, NoneMissed, GoesOn
<1> HIDE DEF y, q
<1>6. CASE second /\ x.range >= minimum
  <2>1. /\ y.range = x.range /\ y.start = x.start /\ y.first = x.first /\ y.block = -1 /\ y.stop
    BY <1>2, <1>4, <1>6 DEF Stopped, Scans
  <2>2. x.range > 0 => x.start + x.range <= to + 1
    BY <1>5, <1>2
  <2>3. RangeFree(g, from, to + 1, maximum, y) /\ StopsFor(second, maximum, minimum, y)
    BY <2>1, <2>2, <1>2, <1>3, <1>5, <1>6 DEF RangeFree, StopsFor
  <2>4. ScanInv(g, from, to + 1, second, maximum, minimum, y)
    BY <2>1, <2>3 DEF ScanInv
  <2> QED BY <2>4 DEF y
<1>7. CASE ~(second /\ x.range >= minimum)
  <2>1. y.range = 0 /\ y.block = -1 /\ ~y.stop
    BY <1>2, <1>4, <1>7 DEF Restarted, Scans
  <2>2. \A b \in from .. to + 1 : FreeFrom(g, b, to + 1) => y.range >= to + 1 - b
    <3> SUFFICES ASSUME NEW b \in from .. to + 1, FreeFrom(g, b, to + 1), b # to + 1
                 PROVE  FALSE
      BY <2>1
    <3>1. to \in b .. to + 1 - 1
      OBVIOUS
    <3> QED BY <3>1 DEF FreeFrom
  <2>3. \A b \in from .. to + 1 - q : FreeFrom(g, b, b + q) => y.range >= q
    <3> SUFFICES ASSUME NEW b \in from .. to + 1 - q, FreeFrom(g, b, b + q)
                 PROVE  FALSE
      OBVIOUS
    <3>1. CASE b + q = to + 1
      <4>1. to \in b .. b + q - 1 /\ b \in Int
        BY <3>1, <1>0
      <4> QED BY <4>1, <1>0 DEF FreeFrom
    <3>2. CASE b + q # to + 1
      <4>1. b \in from .. to - q
        BY <3>2, <1>0
      <4>2. x.range >= q
        BY <4>1, <1>5
      <4> QED BY <4>2, <1>2, <1>7 DEF Wanted, q
    <3> QED BY <3>1, <3>2
  <2>4. GoesOn(to + 1, maximum, y) /\ RangeFree(g, from, to + 1, maximum, y)
    BY <2>1, <1>3 DEF GoesOn, RangeFree
  <2>6. NoneMissed(g, from, to + 1, q, y)
    BY <1>0, <2>1, <2>2, <2>3 DEF NoneMissed
  <2>5. ScanInv(g, from, to + 1, second, maximum, minimum, y)
    BY <2>1, <2>4, <2>6 DEF ScanInv, q
  <2> QED BY <2>5 DEF y
<1> QED BY <1>6, <1>7

(* The scan of a bitmap block, when all its bits have been looked at.      *)
LEMMA ScanBitsEnd ==
    ASSUME OneBlock, NEW g \in Groups, NEW from \in Nat, from <= fNumBits(g),
           NEW second \in BOOLEAN, NEW maximum \in Nat \ {0}, NEW minimum \in Nat \ {0}
    PROVE  LET x == ScanBits(g, 0, from, second, maximum, minimum, NoRange)
           IN  /\ RangeFree(g, from, fNumBits(g), maximum, x)
               /\ ~x.stop => /\ GoesOn(fNumBits(g), maximum, x)
                             /\ NoneMissed(g, from, fNumBits(g),
                                           Wanted(second, maximum, minimum), x)
               /\ x.stop => StopsFor(second, maximum, minimum, x)
<1> DEFINE N == fNumBits(g)
           Inv(to, x) == ScanInv(g, from, to, second, maximum, minimum, x)
           EndInv(to, x) == /\ RangeFree(g, from, to, maximum, x)
                            /\ x.stop => StopsFor(second, maximum, minimum, x)
                            /\ ~x.stop => Inv(to, x)
<1>0. N \in Nat /\ N <= BlockBits /\ BlockBits \in Nat
  BY GroupFacts
<1>1. PICK h \in [Nat -> Scans] :
              /\ h[0] = NoRange
              /\ \A n \in 0 .. BlockBits : n # 0 =>
                    h[n] = ScanBit(g, 0, second, maximum, minimum, h[n - 1], from + n - 1)
              /\ ScanBits(g, 0, from, second, maximum, minimum, NoRange) = h[N - from]
  <2>1. from \in 0 .. fNumBits(g)
    BY <1>0
  <2> QED BY <2>1, ScanBitsFunction
<1>2. Inv(from, NoRange)
  <2>1. RangeFree(g, from, from, maximum, NoRange)
    BY DEF RangeFree, NoRange, Scans
  <2>2. GoesOn(from, maximum, NoRange)
    BY DEF GoesOn, NoRange
  <2>3. NoneMissed(g, from, from, Wanted(second, maximum, minimum), NoRange)
    <3>1. Wanted(second, maximum, minimum) \in Nat \ {0}
      BY DEF Wanted
    <3>2. NoRange.range = 0
      BY DEF NoRange
    <3> QED BY <3>1, <3>2 DEF NoneMissed
  <2>4. ~NoRange.stop
    BY DEF NoRange
  <2> QED BY <2>1, <2>2, <2>3, <2>4 DEF ScanInv
<1>3. ASSUME NEW to \in Nat, from <= to, to < N, NEW x \in Scans, EndInv(to, x)
      PROVE  EndInv(to + 1, ScanBit(g, 0, second, maximum, minimum, x, to))
  <2> DEFINE y == ScanBit(g, 0, second, maximum, minimum, x, to)
  <2>1. CASE x.stop
    <3>1. y = x
      BY <2>1 DEF ScanBit
    <3>2. RangeFree(g, from, to + 1, maximum, x)
      <4>1. RangeFree(g, from, to, maximum, x)
        BY <1>3
      <4>2. x.range \in Nat /\ x.start \in Int
        BY DEF Scans
      <4> QED BY <4>1, <4>2 DEF RangeFree
    <3> HIDE DEF y, Inv
    <3>3. EndInv(to + 1, y)
      BY <3>1, <3>2, <2>1, <1>3
    <3> QED BY <3>3 DEF y
  <2>2. CASE ~x.stop
    <3>1. Inv(to, x)
      BY <2>2, <1>3
    <3>2. Inv(to + 1, y)
      BY <3>1, <2>2, <1>3, ScanFreeBit, ScanUsedBit
    <3> HIDE DEF y
    <3>3. EndInv(to + 1, y)
      BY <3>2 DEF ScanInv
    <3> QED BY <3>3 DEF y
  <2> QED BY <2>1, <2>2
<1>4. EndInv(from, NoRange)
  <2>1. ~NoRange.stop
    BY DEF NoRange
  <2> QED BY <1>2, <2>1 DEF ScanInv
<1> HIDE DEF EndInv, N
<1> DEFINE U == {n \in Nat : from + n <= N => EndInv(from + n, h[n])}
<1>5. 0 \in U
  BY <1>1, <1>4
<1>6. ASSUME NEW n \in Nat, n \in U PROVE n + 1 \in U
  <2>1. SUFFICES ASSUME from + (n + 1) <= N PROVE EndInv(from + (n + 1), h[n + 1])
    OBVIOUS
  <2>2. /\ from + n \in Nat /\ from <= from + n /\ from + n < N /\ n + 1 \in 0 .. BlockBits
        /\ n + 1 # 0 /\ (n + 1) - 1 = n /\ from + (n + 1) - 1 = from + n
        /\ from + (n + 1) = (from + n) + 1
    BY <2>1, <1>0
  <2>3. EndInv(from + n, h[n]) /\ h[n] \in Scans
    BY <2>2, <1>6, <1>0
  <2>4. h[n + 1] = ScanBit(g, 0, second, maximum, minimum, h[n], from + n)
    <3>1. h[n + 1] = ScanBit(g, 0, second, maximum, minimum, h[(n + 1) - 1], from + (n + 1) - 1)
      BY <1>1, <2>2
    <3> QED BY <3>1, <2>2
  <2>5. EndInv((from + n) + 1, ScanBit(g, 0, second, maximum, minimum, h[n], from + n))
    BY <1>3, <2>2, <2>3
  <2> QED BY <2>2, <2>4, <2>5
<1>7. \A n \in Nat : n \in U
  <2> HIDE DEF U
  <2> QED BY <1>5, <1>6, NatInSet
<1>8. N - from \in Nat /\ from + (N - from) = N
  BY <1>0 DEF N
<1>9. EndInv(N, h[N - from])
  BY <1>7, <1>8
<1> QED BY <1>1, <1>9 DEF EndInv, ScanInv, N

(* What a scan of a group returns: a range of free bits that is long       *)
(* enough, if there is one behind its start.                               *)
LEMMA ScanResult ==
    ASSUME OneBlock, NEW g \in Groups, NEW start \in Nat, start <= fNumBits(g),
           NEW second \in BOOLEAN, NEW maximum \in Nat \ {0}, NEW minimum \in Nat \ {0}
    PROVE  LET x == Scan(g, start, second, maximum, minimum)
               q == Wanted(second, maximum, minimum)
           IN  /\ x.block # -1 =>
                     /\ x.first = 0 /\ x.block = 0
                     /\ x.range \in Nat \ {0} /\ q <= x.range /\ x.range <= maximum
                     /\ x.start \in Nat /\ x.start + x.range <= fNumBits(g)
                     /\ FreeFrom(g, x.start, x.start + x.range)
               /\ start < fNumBits(g) /\ minimum <= maximum =>
                     \A b \in start .. fNumBits(g) - q : FreeFrom(g, b, b + q) => x.block = 0
<1> DEFINE N == fNumBits(g)
           q == Wanted(second, maximum, minimum)
           first == start \div BlockBits
           Value(n, b) ==
              IF n = 0 THEN NoRange
              ELSE ScanBlock(g, first + n - 1, IF n = 1 THEN start % NumBlockBits(g) ELSE 0,
                             second, maximum, minimum, b[n - 1])
           Def(b) == b = [n \in 0 .. BlocksPerGroup |-> Value(n, b)]
           blocks == CHOOSE b : Def(b)
           x == Scan(g, start, second, maximum, minimum)
<1>0. /\ N \in 1 .. BlockBits /\ BlockBits \in Nat \ {0} /\ NumBlockBits(g) = N
      /\ BlocksPerGroup = 1 /\ q \in Nat \ {0}
  BY GroupFacts DEF Wanted
<1>1. x = blocks[BlocksPerGroup - first]
  BY DEF Scan
<1>2. blocks[0] = NoRange
      /\ blocks[1] = ScanBlock(g, first + 1 - 1, start % NumBlockBits(g),
                               second, maximum, minimum, NoRange)
  <2> DEFINE k == [n \in 0 .. 1 |->
                      IF n = 0 THEN NoRange
                      ELSE ScanBlock(g, first + 1 - 1, start % NumBlockBits(g),
                                     second, maximum, minimum, NoRange)]
  <2>1. Def(k)
    <3>1. \A n \in 0 .. 1 : k[n] = Value(n, k)
      <4>1. k[0] = NoRange
        OBVIOUS
      <4>2. k[1] = ScanBlock(g, first + 1 - 1, start % NumBlockBits(g),
                             second, maximum, minimum, k[0])
        OBVIOUS
      <4> QED BY <4>1, <4>2
    <3>2. k = [n \in 0 .. 1 |-> k[n]]
      OBVIOUS
    <3> HIDE DEF k, Value
    <3> QED BY <3>1, <3>2, <1>0
  <2>2. Def(blocks)
    <3> HIDE DEF Def
    <3> QED BY <2>1
  <2>3. blocks = [n \in 0 .. 1 |-> Value(n, blocks)]
    BY <2>2, <1>0
  <2> HIDE DEF blocks, Value
  <2>4. blocks[0] = Value(0, blocks) /\ blocks[1] = Value(1, blocks)
    BY <2>3
  <2>5. blocks[0] = NoRange
    BY <2>4 DEF Value
  <2> QED BY <2>4, <2>5 DEF Value
<1> HIDE DEF blocks, N, q
<1>3. CASE start = BlockBits
  <2>1. first = 1
    BY <1>3, <1>0, ModFacts
  <2>2. x = NoRange
    BY <2>1, <1>0, <1>1, <1>2
  <2>3. x.block = -1 /\ ~(start < N /\ minimum <= maximum)
    BY <2>2, <1>3, <1>0 DEF NoRange
  <2> HIDE DEF x
  <2>4. start < N /\ minimum <= maximum => \A b \in start .. N - q : FreeFrom(g, b, b + q) => x.block = 0
    BY <2>3
  <2> QED BY <2>3, <2>4 DEF x, N, q
<1>4. CASE start # BlockBits
  <2> DEFINE from == start % NumBlockBits(g)
             s == ScanBits(g, 0, from, second, maximum, minimum, NoRange)
  <2>1. first = 0 /\ start < BlockBits
    <3>1. start \in 0 .. BlockBits - 1
      BY <1>4, <1>0 DEF N
    <3>2. \A a \in 0 .. BlockBits - 1 : a \div BlockBits = 0
      BY <1>0, ModFacts
    <3> QED BY <3>1, <3>2, <1>0
  <2>2. from \in Nat /\ from <= N /\ (start < N => from = start)
    <3>1. start < N => start \in 0 .. N - 1
      BY <1>0
    <3>2. N \in Nat \ {0}
      BY <1>0
    <3>3. (\A a \in 0 .. N - 1 : a % N = a) /\ N % N = 0
      BY <3>2, ModFacts
    <3>4. start <= N
      BY DEF N
    <3> QED BY <1>0, <3>1, <3>2, <3>3, <3>4
  <2>3. x = ScanBlock(g, 0, from, second, maximum, minimum, NoRange)
    BY <2>1, <1>0, <1>1, <1>2
  <2>4. x = IF s.range >= q THEN [s EXCEPT !.block = 0] ELSE s
    BY <2>3 DEF ScanBlock, NoRange, q, Wanted
  <2>5. /\ RangeFree(g, from, N, maximum, s)
        /\ ~s.stop => GoesOn(N, maximum, s) /\ NoneMissed(g, from, N, q, s)
        /\ s.stop => StopsFor(second, maximum, minimum, s)
    BY <2>2, ScanBitsEnd DEF N, q
  <2> HIDE DEF x, s, from
  <2>6. s \in Scans /\ s.block = -1 /\ s.range \in Nat /\ s.range <= maximum
    BY <2>5 DEF RangeFree, Scans
  <2>7. /\ x.range = s.range /\ x.start = s.start /\ x.first = s.first /\ x.start \in Int
        /\ x.block = IF s.range >= q THEN 0 ELSE -1
    BY <2>4, <2>6 DEF Scans
  <2>8. x.block # -1 =>
                     /\ x.first = 0 /\ x.block = 0
                     /\ x.range \in Nat \ {0} /\ q <= x.range /\ x.range <= maximum
                     /\ x.start \in Nat /\ x.start + x.range <= N
                     /\ FreeFrom(g, x.start, x.start + x.range)
    BY <2>2, <2>5, <2>6, <2>7, <1>0 DEF RangeFree
  <2>9. ASSUME start < N, minimum <= maximum, NEW b \in start .. N - q, FreeFrom(g, b, b + q) PROVE x.block = 0
    <3>1. CASE s.stop
      <4>1. s.range = maximum \/ (second /\ s.range >= minimum)
        BY <3>1, <2>5 DEF StopsFor
      <4>2. s.range >= q
        BY <4>1, <2>6, <2>9 DEF q, Wanted
      <4> QED BY <4>2, <2>7
    <3>2. CASE ~s.stop
      <4>1. NoneMissed(g, from, N, q, s)
        BY <3>2, <2>5
      <4>2. b \in from .. N - q
        BY <2>2, <2>9
      <4> QED BY <4>1, <4>2, <2>7, <2>9 DEF NoneMissed
    <3> QED BY <3>1, <3>2
  <2>10. start < N /\ minimum <= maximum => \A b \in start .. N - q : FreeFrom(g, b, b + q) => x.block = 0
    BY <2>9
  <2> QED BY <2>8, <2>10 DEF x, N, q
<1> QED BY <1>3, <1>4

-----------------------------------------------------------------------------
(* The search through the groups.                                          *)

(* The first free block of a group that is cached is one of its places,    *)
(* the one behind its last block, or unknown.                              *)
FirstFreeInGroup == \A g \in Groups : fFirstFree[g] \in Int /\ fFirstFree[g] <= fNumBits(g)

(* x is a range of free blocks of g that is long enough.                   *)
RangeFound(g, q, maximum, x) ==
    /\ x.first = 0 /\ x.block = 0
    /\ x.range \in Nat \ {0} /\ q <= x.range /\ x.range <= maximum
    /\ x.start \in Nat /\ x.start + x.range <= fNumBits(g)
    /\ FreeFrom(g, x.start, x.start + x.range)

(* x has been found if there is such a range in g.                         *)
FoundIfThere(g, q, x) ==
    \A b \in 0 .. fNumBits(g) - q : FreeFrom(g, b, b + q) => x.block = 0
FirstFreeLow(g) == \A b \in Free(g) : fFirstFree[g] <= b

(* A step of the search finds a range if the group has one, and what it    *)
(* finds is one.                                                           *)
LEMMA FoundResult ==
    ASSUME OneBlock, FirstFreeInGroup, NEW i \in Nat, NEW group \in Nat, NEW start \in Nat,
           NEW maximum \in Nat \ {0}, NEW minimum \in Nat \ {0}
    PROVE  LET g == (group + i) % NumGroups
               x == Found(i, group, start, maximum, minimum)
               q == Wanted(i >= NumGroups, maximum, minimum)
           IN  /\ g \in Groups
               /\ x.block # -1 => RangeFound(g, q, maximum, x)
               /\ (start = 0 \/ i # 0) /\ fFreeBits[g] # 0 /\ minimum <= maximum
                  /\ FirstFreeLow(g) => FoundIfThere(g, q, x)
<1> DEFINE g == (group + i) % NumGroups
           x == Found(i, group, start, maximum, minimum)
           second == i >= NumGroups
           q == Wanted(second, maximum, minimum)
           s == IF i = 0 THEN start ELSE 0
           f == fFirstFree[g]
           h == Hint(g, s)
           N == fNumBits(g)
           y == Scan(g, h, second, maximum, minimum)
<1>1. g \in Groups
  <2>1. NumGroups \in Nat \ {0} /\ group + i \in Nat
    BY GroupFacts
  <2>2. g \in 0 .. NumGroups - 1
    BY <2>1, ModFacts
  <2> QED BY <2>2 DEF Groups
<1>2. /\ N \in Nat \ {0} /\ f \in Int /\ f <= N /\ s \in Nat /\ q \in Nat \ {0}
      /\ NumGroups \in Nat /\ second \in BOOLEAN
  <2> HIDE DEF g
  <2> QED BY <1>1, GroupFacts DEF FirstFreeInGroup, Wanted
<1>3. x = IF s >= N \/ fFreeBits[g] = 0 THEN NoRange ELSE y
  BY DEF Found
<1>4. h = IF s < f THEN f ELSE s
  BY DEF Hint
<1> HIDE DEF g, x, second, q, s, f, h, N, y
<1>5. CASE s >= N \/ fFreeBits[g] = 0
  <2>1. x.block = -1
    BY <1>3, <1>5 DEF NoRange
  <2>2. (start = 0 \/ i # 0) /\ fFreeBits[g] # 0 => FALSE
    <3>1. start = 0 \/ i # 0 => s = 0
      BY DEF s
    <3> QED BY <3>1, <1>2, <1>5
  <2> QED BY <1>1, <2>1, <2>2 DEF g, x, q, second
<1>6. CASE ~(s >= N \/ fFreeBits[g] = 0)
  <2>1. h \in Nat /\ h <= N
    BY <1>2, <1>4, <1>6
  <2>2. /\ y.block # -1 => RangeFound(g, q, maximum, y)
        /\ h < N /\ minimum <= maximum =>
              \A b \in h .. N - q : FreeFrom(g, b, b + q) => y.block = 0
    BY <2>1, <1>1, <1>2, ScanResult DEF RangeFound, y, q, N
  <2>3. x = y
    BY <1>3, <1>6
  <2>4. ASSUME start = 0 \/ i # 0, minimum <= maximum, FirstFreeLow(g),
               NEW b \in 0 .. N - q, FreeFrom(g, b, b + q)
        PROVE  x.block = 0
    <3>1. s = 0
      BY <2>4 DEF s
    <3>2. b \in b .. b + q - 1
      BY <1>2
    <3>3. b \in Free(g)
      BY <3>2, <2>4, <1>2 DEF FreeFrom
    <3>4. f <= b /\ b \in Nat
      BY <3>3, <2>4 DEF FirstFreeLow, f
    <3>5. h <= b /\ b < N
      BY <3>1, <3>4, <1>2, <1>4
    <3>6. b \in h .. N - q /\ h < N
      BY <3>5, <2>1, <1>2
    <3> QED BY <3>6, <2>2, <2>3, <2>4
  <2>5. (start = 0 \/ i # 0) /\ fFreeBits[g] # 0 /\ minimum <= maximum /\ FirstFreeLow(g)
           => FoundIfThere(g, q, x)
    BY <2>4 DEF FoundIfThere, N
  <2> QED BY <1>1, <2>2, <2>3, <2>5 DEF g, x, q, second, N, f
<1> QED BY <1>5, <1>6

(* The first step that found something is the one whose range is taken.    *)
Hits(group, start, maximum, minimum) ==
    {h \in {[step |-> i, scan |-> Found(i, group, start, maximum, minimum)] :
               i \in Steps(maximum, minimum)} : h.scan.block # -1}

(* The first pass visits every group, the second only for a smaller        *)
(* minimum.                                                                *)
LEMMA StepsFacts ==
    ASSUME OneBlock, NEW maximum \in Nat, NEW minimum \in Nat
    PROVE  /\ Steps(maximum, minimum) \subseteq Nat
           /\ \A i \in Steps(maximum, minimum) : i < NumGroups \/ maximum # minimum
           /\ 0 .. NumGroups - 1 \subseteq Steps(maximum, minimum)
           /\ maximum # minimum => 0 .. 2 * NumGroups - 1 \subseteq Steps(maximum, minimum)
<1>1. NumGroups \in Nat \ {0}
  BY GroupFacts
<1> QED BY <1>1 DEF Steps

(* The step that is taken is one of those that found something.            *)
LEMMA FirstHitFacts ==
    ASSUME OneBlock, NEW group \in Nat, NEW start \in Nat,
           NEW maximum \in Nat \ {0}, NEW minimum \in Nat \ {0},
           Hits(group, start, maximum, minimum) # {}
    PROVE  LET h == FirstHit(Hits(group, start, maximum, minimum))
           IN  /\ h.step \in Steps(maximum, minimum) /\ h.scan.block # -1
               /\ h.scan = Found(h.step, group, start, maximum, minimum)
<1> DEFINE H == Hits(group, start, maximum, minimum)
           T == {i \in Steps(maximum, minimum) :
                    Found(i, group, start, maximum, minimum).block # -1}
           h == FirstHit(H)
<1>1. ASSUME NEW k \in H
      PROVE  /\ k.step \in T /\ k.scan = Found(k.step, group, start, maximum, minimum)
             /\ k.scan.block # -1
  BY <1>1 DEF Hits
<1>2. ASSUME NEW i \in T PROVE \E k \in H : k.step = i
  <2> DEFINE k == [step |-> i, scan |-> Found(i, group, start, maximum, minimum)]
  <2>1. k \in H /\ k.step = i
    BY DEF Hits
  <2> QED BY <2>1
<1>3. T \in SUBSET Nat /\ T # {}
  <2>1. T \in SUBSET Nat
    BY StepsFacts
  <2> HIDE DEF T
  <2>2. T # {}
    BY <1>1
  <2> QED BY <2>1, <2>2
<1>4. Min(T) \in T /\ \A i \in T : Min(T) <= i
  <2> HIDE DEF T
  <2> QED BY <1>3, MinNat
<1> HIDE DEF T, H
<1>5. \E k \in H : \A j \in H : k.step <= j.step
  BY <1>1, <1>2, <1>4
<1>6. h \in H
  BY <1>5 DEF FirstHit
<1> QED BY <1>1, <1>6 DEF H, T

(* What a search returns: nothing, or free blocks of one group.            *)
GoodRun(run, maximum) ==
    /\ run.group \in Groups /\ run.start \in Nat /\ run.length \in Nat \ {0}
    /\ run.length <= maximum /\ run.start + run.length <= fNumBits(run.group)
    /\ run.scan.first = 0 /\ run.scan.block = 0
    /\ FreeFrom(run.group, run.start, run.start + run.length)

(* A search returns nothing, because no step found anything, or a free     *)
(* range of a length that was asked for.                                   *)
LEMMA SearchResult ==
    ASSUME OneBlock, FirstFreeInGroup, NEW group \in Nat, NEW start \in Nat,
           NEW maximum \in Nat \ {0}, NEW minimum \in Nat \ {0}
    PROVE  LET run == Search(group, start, maximum, minimum)
           IN  \/ run.length = 0 /\ Hits(group, start, maximum, minimum) = {}
               \/ GoodRun(run, maximum) /\ (minimum <= maximum => minimum <= run.length)
<1> DEFINE H == Hits(group, start, maximum, minimum)
           run == Search(group, start, maximum, minimum)
           h == FirstHit(H)
           i == h.step
           g == (group + i) % NumGroups
           q == Wanted(i >= NumGroups, maximum, minimum)
           new == [group |-> g, start |-> h.scan.start, scan |-> h.scan,
                   length |-> IF i >= NumGroups THEN h.scan.range ELSE maximum]
<1>1. run = IF H = {} THEN [group |-> 0, start |-> 0, length |-> 0, scan |-> NoRange] ELSE new
  BY DEF Search, RunFound, Hits
<1>2. CASE H = {}
  <2>1. run.length = 0
    BY <1>1, <1>2
  <2> QED BY <2>1, <1>2
<1>3. CASE H # {}
  <2>1. /\ i \in Steps(maximum, minimum) /\ h.scan.block # -1
        /\ h.scan = Found(i, group, start, maximum, minimum)
    BY <1>3, FirstHitFacts
  <2> HIDE DEF h
  <2>2. i \in Nat
    BY <2>1, StepsFacts
  <2>3. g \in Groups /\ RangeFound(g, q, maximum, h.scan)
    <3> HIDE DEF i
    <3>1. /\ g \in Groups
          /\ Found(i, group, start, maximum, minimum).block # -1 =>
                RangeFound(g, q, maximum, Found(i, group, start, maximum, minimum))
      BY <2>2, FoundResult
    <3> HIDE DEF g, q
    <3> QED BY <2>1, <3>1
  <2>4. NumGroups \in Nat
    BY GroupFacts
  <2>5. run = new
    BY <1>1, <1>3
  <2> HIDE DEF run, g, i
  <2>6. /\ run.group = g /\ run.start = h.scan.start /\ run.scan = h.scan
        /\ run.length = IF i >= NumGroups THEN h.scan.range ELSE maximum
    BY <2>5
  <2>7. run.length = h.scan.range
    BY <2>2, <2>3, <2>4, <2>6 DEF RangeFound, Wanted
  <2>8. GoodRun(run, maximum)
    BY <2>3, <2>6, <2>7 DEF RangeFound, GoodRun
  <2>9. minimum <= maximum => minimum <= run.length
    BY <2>3, <2>7 DEF RangeFound, Wanted
  <2> QED BY <2>8, <2>9 DEF run
<1> QED BY <1>2, <1>3

(* A search that fails, without a hint or with a second pass, fails        *)
(* because no group has the minimum of blocks side by side.                *)
LEMMA SearchComplete ==
    ASSUME OneBlock, FirstFreeInGroup, NEW group \in Groups, NEW start \in Nat,
           NEW maximum \in Nat \ {0}, NEW minimum \in 1 .. maximum,
           start = 0 \/ minimum < maximum, NEW g \in Groups,
           \A c \in Groups : Free(c) # {} => fFreeBits[c] # 0,
           \A c \in Groups : \A b \in Free(c) : fFirstFree[c] <= b,
           HasRange(g, minimum)
    PROVE  Hits(group, start, maximum, minimum) # {}
<1>0. NumGroups \in Nat \ {0} /\ Groups = 0 .. NumGroups - 1 /\ fNumBits(g) \in Nat
  BY GroupFacts DEF Groups
<1> DEFINE d == IF g >= group THEN g - group ELSE g - group + NumGroups
           i == IF minimum < maximum THEN d + NumGroups ELSE d
           x == Found(i, group, start, maximum, minimum)
<1>1. d \in 0 .. NumGroups - 1 /\ (group + d = g \/ group + d = g + NumGroups)
  BY <1>0
<1>2. \/ group + i = g \/ group + i = g + NumGroups \/ group + i = g + NumGroups + NumGroups
  BY <1>0, <1>1
<1>3. (group + i) % NumGroups = g
  <2>1. \A a \in 0 .. NumGroups - 1 : a % NumGroups = a /\ (a + NumGroups) % NumGroups = a
                                      /\ (a + NumGroups + NumGroups) % NumGroups = a
    BY <1>0, ModFacts
  <2> HIDE DEF i
  <2> QED BY <2>1, <1>0, <1>2
<1>4. /\ i \in Nat /\ i \in Steps(maximum, minimum)
      /\ i >= NumGroups <=> minimum < maximum
  <2>1. CASE minimum < maximum
    <3>1. maximum # minimum /\ i = d + NumGroups
      BY <2>1
    <3> HIDE DEF d
    <3> QED BY <1>0, <1>1, <2>1, <3>1, StepsFacts
  <2>2. CASE ~(minimum < maximum)
    <3>1. i = d
      BY <2>2
    <3> HIDE DEF d
    <3> QED BY <1>0, <1>1, <2>2, <3>1, StepsFacts
  <2> QED BY <2>1, <2>2
<1>5. start = 0 \/ i # 0
  BY <1>0, <1>1
<1> HIDE DEF i
<1>6. Wanted(i >= NumGroups, maximum, minimum) = minimum
  BY <1>4 DEF Wanted
<1>7. PICK b \in 0 .. fNumBits(g) - minimum : \A k \in 0 .. minimum - 1 : b + k \in Free(g)
  BY DEF HasRange
<1>8. FreeFrom(g, b, b + minimum)
  <2>1. ASSUME NEW k \in b .. b + minimum - 1 PROVE k \in Free(g)
    <3>1. k - b \in 0 .. minimum - 1 /\ b + (k - b) = k
      BY <1>0
    <3> QED BY <3>1, <1>7
  <2> QED BY <2>1 DEF FreeFrom
<1>9. Free(g) # {}
  BY <1>7
<1>10. x.block = 0
  <2> HIDE DEF x
  <2>1. /\ start = 0 \/ i # 0
        /\ fFreeBits[(group + i) % NumGroups] # 0 /\ minimum <= maximum
        /\ FirstFreeLow((group + i) % NumGroups)
    BY <1>3, <1>5, <1>9 DEF FirstFreeLow
  <2>2. group \in Nat /\ minimum \in Nat \ {0}
    BY <1>0
  <2>3. \A c \in 0 .. fNumBits(g) - minimum : FreeFrom(g, c, c + minimum) => x.block = 0
    <3> DEFINE e == (group + i) % NumGroups
               q == Wanted(i >= NumGroups, maximum, minimum)
    <3>1. FoundIfThere(e, q, x)
      BY <2>1, <2>2, <1>4, FoundResult DEF x
    <3>2. e = g /\ q = minimum
      BY <1>3, <1>6
    <3> HIDE DEF e, q
    <3> QED BY <3>1, <3>2 DEF FoundIfThere
  <2> QED BY <2>3, <1>7, <1>8
<1>11. [step |-> i, scan |-> x] \in Hits(group, start, maximum, minimum)
  <2>1. x.block # -1
    BY <1>10
  <2> QED BY <2>1, <1>4 DEF Hits
<1> QED BY <1>11

-----------------------------------------------------------------------------
(* The invariant: what is cached of a group is within it, what is known    *)
(* before the groups have been counted, and the properties themselves.     *)
AllocatorTypeOK ==
    /\ bitmap \in [Groups -> SUBSET Nat]
    /\ fFirstFree \in [Groups -> Int] /\ fFreeBits \in [Groups -> Int]
    /\ initialized \in BOOLEAN /\ used_blocks \in Int
RunsInGroups ==
    \A r \in runs : /\ r.group \in Groups /\ r.start \in Nat /\ r.length \in Nat \ {0}
                    /\ r.start + r.length <= fNumBits(r.group)
                    /\ r.group = 0 => r.start >= Reserved
                    /\ r = [group |-> r.group, start |-> r.start, length |-> r.length]
NothingCounted ==
    ~initialized => \A g \in Groups : fFreeBits[g] = 0 /\ fFirstFree[g] = -1
AllocatorInductive ==
    /\ AllocatorTypeOK /\ RunsInGroups /\ NothingCounted /\ FirstFreeInGroup
    /\ BlocksOwnedOnce /\ CountsMatchBitmap /\ FirstFreeIsLow

(* What AllocateBlocks and Free do when the groups are bitmap blocks.      *)
Taken(g, s, n) ==
    /\ g \in Groups /\ s \in Nat /\ n \in Nat \ {0} /\ s + n <= fNumBits(g)
    /\ FreeFrom(g, s, s + n) /\ initialized /\ initialized' = initialized
    /\ bitmap' = [bitmap EXCEPT ![g] = @ \cup (s .. s + n - 1)]
    /\ fFirstFree' = [fFirstFree EXCEPT ![g] = FirstFreeAfter(g, s, n)]
    /\ fFreeBits' = [fFreeBits EXCEPT ![g] = @ - n]
    /\ used_blocks' = used_blocks + n
    /\ runs' = runs \cup {[group |-> g, start |-> s, length |-> n]}
Returned(run) ==
    /\ run \in runs /\ initialized /\ initialized' = initialized
    /\ ~(run.group = 0 /\ run.start < Reserved)
    /\ bitmap' = [bitmap EXCEPT ![run.group] = @ \ (run.start .. run.start + run.length - 1)]
    /\ fFirstFree' = [fFirstFree EXCEPT ![run.group] = FirstFreeFreed(run.group, run.start)]
    /\ fFreeBits' = [fFreeBits EXCEPT ![run.group] = @ + run.length]
    /\ used_blocks' = used_blocks - run.length
    /\ runs' = runs \ {run}

(* The bits that are touched for a range inside a group are those of the   *)
(* range.                                                                  *)
LEMMA BitsValue ==
    ASSUME OneBlock, NEW g \in Groups, NEW s \in Nat, NEW n \in Nat \ {0}, s + n <= fNumBits(g)
    PROVE  Bits(g, 0, s, n) = s .. s + n - 1
<1> DEFINE N == fNumBits(g)
<1>1. N \in Nat \ {0} /\ NumBlockBits(g) = N /\ BlockBits \in Nat
  BY GroupFacts
<1>2. s \in 0 .. N - 1
  BY <1>1
<1>3. s % N = s
  BY <1>1, <1>2, ModFacts
<1>4. Bits(g, 0, s, n) = {0 * BlockBits + i : i \in s .. s + n - 1}
  <2>1. (IF s + n > N THEN N ELSE s + n) = s + n
    BY <1>1
  <2> QED BY <1>1, <1>3, <2>1 DEF Bits
<1>5. \A i \in s .. s + n - 1 : 0 * BlockBits + i = i
  BY <1>1
<1> QED BY <1>4, <1>5

(* AllocateBlocks changes nothing or takes a free range.                   *)
LEMMA AllocateStep ==
    ASSUME OneBlock, AllocatorInductive, NEW group \in Nat, NEW start \in Nat,
           NEW maximum \in Nat \ {0}, NEW minimum \in Nat \ {0},
           AllocateBlocks(group, start, maximum, minimum)
    PROVE  UNCHANGED allocatorVars \/ \E g, s, n : Taken(g, s, n)
<1> DEFINE run == Search(group, start, maximum, minimum)
           g == run.group
           s == run.start
           n == run.length
<1>1. Take(run)
  BY DEF AllocateBlocks
<1>2. \/ n = 0 /\ Hits(group, start, maximum, minimum) = {}
      \/ GoodRun(run, maximum)
  BY SearchResult DEF AllocatorInductive
<1>3. ASSUME ~initialized PROVE n = 0
  <2>1. ASSUME NEW i \in Steps(maximum, minimum)
        PROVE  Found(i, group, start, maximum, minimum).block = -1
    <3>1. i \in Nat
      BY StepsFacts
    <3>2. (group + i) % NumGroups \in Groups
      BY <3>1, FoundResult DEF AllocatorInductive
    <3>3. fFreeBits[(group + i) % NumGroups] = 0
      BY <3>2, <1>3 DEF AllocatorInductive, NothingCounted
    <3> QED BY <3>3 DEF Found, NoRange
  <2>2. Hits(group, start, maximum, minimum) = {}
    BY <2>1 DEF Hits
  <2>3. run = [group |-> 0, start |-> 0, length |-> 0, scan |-> NoRange]
    BY <2>2 DEF Search, RunFound, Hits
  <2> QED BY <2>3
<1> HIDE DEF run
<1>4. CASE n = 0
  BY <1>1, <1>4 DEF Take
<1>5. CASE n # 0
  <2>1. /\ g \in Groups /\ s \in Nat /\ n \in Nat \ {0} /\ s + n <= fNumBits(g)
        /\ FreeFrom(g, s, s + n) /\ run.scan.first = 0 /\ run.scan.block = 0 /\ initialized
    BY <1>2, <1>3, <1>5 DEF GoodRun, AllocatorInductive, AllocatorTypeOK
  <2>2. /\ fFirstFree' = [fFirstFree EXCEPT ![g] = FirstFreeAfter(g, s, n)]
        /\ fFreeBits' = [fFreeBits EXCEPT ![g] = @ - n]
        /\ bitmap' = [bitmap EXCEPT ![g] = @ \cup Bits(g, 0, s, n)]
        /\ used_blocks' = used_blocks + n
        /\ runs' = runs \cup {[group |-> g, start |-> s, length |-> n]}
        /\ initialized' = initialized
    BY <1>1, <2>1 DEF Take
  <2>3. Bits(g, 0, s, n) = s .. s + n - 1
    <3>1. g \in Groups /\ s \in Nat /\ n \in Nat \ {0} /\ s + n <= fNumBits(g)
      BY <2>1
    <3> HIDE DEF g, s, n
    <3> QED BY <3>1, BitsValue
  <2>4. Taken(g, s, n)
    BY <2>1, <2>2, <2>3 DEF Taken
  <2> QED BY <2>4
<1> QED BY <1>4, <1>5

(* The bits that are freed are those of the run.                           *)
LEMMA FreedValue ==
    ASSUME OneBlock, RunsInGroups, NEW run \in runs
    PROVE  Freed(run) = run.start .. run.start + run.length - 1
<1> DEFINE g == run.group
           s == run.start
           n == run.length
           first == s \div BlockBits
           st0 == [start |-> s, length |-> n, bits |-> {}]
           Value(k, b) == IF k = 0 THEN st0 ELSE FreeBlock(g, b[k - 1], first + k - 1)
           Def(b) == b = [k \in 0 .. BlocksPerGroup |-> Value(k, b)]
           blocks == CHOOSE b : Def(b)
<1>0. /\ g \in Groups /\ s \in Nat /\ n \in Nat \ {0} /\ s + n <= fNumBits(g)
      /\ NumBlockBits(g) = fNumBits(g) /\ fNumBits(g) \in Nat /\ fNumBits(g) <= BlockBits
      /\ BlocksPerGroup = 1 /\ BlockBits \in Nat \ {0}
  BY GroupFacts DEF RunsInGroups
<1>1. first = 0
  <2>1. \A a \in 0 .. BlockBits - 1 : a \div BlockBits = 0
    BY <1>0, ModFacts
  <2>2. s \in 0 .. BlockBits - 1
    BY <1>0
  <2> QED BY <2>1, <2>2
<1>2. Freed(run) = blocks[BlocksPerGroup - first].bits
  BY DEF Freed
<1>3. blocks[1] = FreeBlock(g, st0, first + 1 - 1)
  <2> DEFINE k == [i \in 0 .. 1 |-> IF i = 0 THEN st0 ELSE FreeBlock(g, st0, first + 1 - 1)]
  <2> HIDE DEF st0, first
  <2>1. Def(k)
    <3>1. \A i \in 0 .. 1 : k[i] = Value(i, k)
      <4>1. k[0] = st0
        OBVIOUS
      <4>2. k[1] = FreeBlock(g, k[0], first + 1 - 1)
        OBVIOUS
      <4> QED BY <4>1, <4>2
    <3>2. k = [i \in 0 .. 1 |-> k[i]]
      OBVIOUS
    <3> HIDE DEF k, Value
    <3> QED BY <3>1, <3>2, <1>0
  <2>2. Def(blocks)
    <3> HIDE DEF Def
    <3> QED BY <2>1
  <2>3. blocks = [i \in 0 .. 1 |-> Value(i, blocks)]
    BY <2>2, <1>0
  <2> HIDE DEF blocks, Value
  <2>4. blocks[0] = Value(0, blocks) /\ blocks[1] = Value(1, blocks)
    BY <2>3
  <2>5. blocks[0] = st0
    BY <2>4 DEF Value
  <2> QED BY <2>4, <2>5 DEF Value
<1> HIDE DEF blocks, first
<1>4. Freed(run) = FreeBlock(g, st0, 0).bits
  BY <1>0, <1>1, <1>2, <1>3
<1>5. FreeBlock(g, st0, 0).bits = Bits(g, 0, s, n)
  <2>1. st0.start = s /\ st0.length = n /\ st0.bits = {} /\ n # 0 /\ ~(s + n > NumBlockBits(g))
    BY <1>0
  <2> HIDE DEF st0, s, n, g
  <2> QED BY <2>1 DEF FreeBlock
<1>6. Bits(g, 0, s, n) = s .. s + n - 1
  BY <1>0, BitsValue
<1> QED BY <1>4, <1>5, <1>6

(* Free returns the blocks of its run and nothing else.                    *)
LEMMA FreeStep ==
    ASSUME OneBlock, AllocatorInductive, NEW run \in runs, FreeRun(run)
    PROVE  Returned(run)
<1>1. Freed(run) = run.start .. run.start + run.length - 1
  BY FreedValue DEF AllocatorInductive
<1> QED BY <1>1 DEF FreeRun, CountFreed, Returned

-----------------------------------------------------------------------------
(* What the counts count.                                                  *)

(* The free blocks of a group are finitely many places in it.              *)
LEMMA FreeFinite ==
    ASSUME OneBlock, NEW g \in Groups
    PROVE  /\ IsFiniteSet(Free(g)) /\ Free(g) \subseteq Nat
           /\ Cardinality(Free(g)) \in Nat /\ (Cardinality(Free(g)) = 0 <=> Free(g) = {})
<1>1. fNumBits(g) \in Nat
  BY GroupFacts
<1>2. IsFiniteSet(0 .. fNumBits(g) - 1)
  BY <1>1, FS_Interval
<1>3. Free(g) \in SUBSET (0 .. fNumBits(g) - 1)
  BY DEF Free
<1>4. IsFiniteSet(Free(g))
  BY <1>2, <1>3, FS_Subset
<1> QED BY <1>3, <1>4, FS_CardinalityType, FS_EmptySet

(* The size of an interval.                                                *)
LEMMA IntervalSize ==
    ASSUME NEW s \in Nat, NEW n \in Nat
    PROVE  IsFiniteSet(s .. s + n - 1) /\ Cardinality(s .. s + n - 1) = n
<1>1. s \in Int /\ s + n - 1 \in Int /\ (IF s > s + n - 1 THEN 0 ELSE (s + n - 1) - s + 1) = n
  OBVIOUS
<1> QED BY <1>1, FS_Interval

(* Taking a part of a finite set out of it, or putting one in.             *)
LEMMA PartSize ==
    ASSUME NEW S, NEW T, IsFiniteSet(S), IsFiniteSet(T)
    PROVE  /\ IsFiniteSet(S \ T) /\ IsFiniteSet(S \cup T)
           /\ T \subseteq S => Cardinality(S \ T) = Cardinality(S) - Cardinality(T)
           /\ S \cap T = {} => Cardinality(S \cup T) = Cardinality(S) + Cardinality(T)
<1>1. IsFiniteSet(S \ T) /\ Cardinality(S \ T) = Cardinality(S) - Cardinality(S \cap T)
  BY FS_Difference
<1>2. /\ IsFiniteSet(S \cup T)
      /\ Cardinality(S \cup T) = Cardinality(S) + Cardinality(T) - Cardinality(S \cap T)
  BY FS_Union
<1>3. ASSUME T \subseteq S PROVE Cardinality(S \ T) = Cardinality(S) - Cardinality(T)
  <2>1. S \cap T = T
    BY <1>3
  <2> QED BY <1>1, <2>1
<1>4. ASSUME S \cap T = {} PROVE Cardinality(S \cup T) = Cardinality(S) + Cardinality(T)
  <2>1. Cardinality(S) \in Nat /\ Cardinality(T) \in Nat /\ Cardinality(S \cap T) = 0
    BY <1>4, FS_CardinalityType, FS_EmptySet
  <2> QED BY <1>2, <2>1
<1> QED BY <1>1, <1>2, <1>3, <1>4

Runs == UNION {RunBlocks(r) : r \in runs}

(* A run has as many blocks as its length says.                            *)
LEMMA RunBlocksSize ==
    ASSUME NEW run, run.start \in Nat, run.length \in Nat
    PROVE  /\ IsFiniteSet(RunBlocks(run)) /\ Cardinality(RunBlocks(run)) = run.length
           /\ \A g, b : <<g, b>> \in RunBlocks(run)
                           <=> g = run.group /\ b \in run.start .. run.start + run.length - 1
<1> DEFINE I == run.start .. run.start + run.length - 1
<1>1. RunBlocks(run) = {run.group} \X I
  BY DEF RunBlocks
<1>2. IsFiniteSet(I) /\ Cardinality(I) = run.length
  BY IntervalSize
<1> HIDE DEF I
<1>3. IsFiniteSet({run.group} \X I) /\ Cardinality({run.group} \X I) = Cardinality(I)
  BY <1>2, CardPairs
<1>4. \A g, b : <<g, b>> \in {run.group} \X I <=> g = run.group /\ b \in I
  OBVIOUS
<1> QED BY <1>1, <1>2, <1>3, <1>4 DEF I

(* The blocks that are handed out are finitely many.                       *)
LEMMA RunsFinite ==
    ASSUME OneBlock, RunsInGroups
    PROVE  IsFiniteSet(Runs) /\ Cardinality(Runs) \in Nat
<1> DEFINE P == Groups \X (0 .. BlockBits - 1)
<1>1. BlockBits \in Nat /\ NumGroups \in Nat /\ \A g \in Groups : fNumBits(g) <= BlockBits /\ fNumBits(g) \in Nat
  BY GroupFacts
<1>2. IsFiniteSet(0 .. NumGroups - 1) /\ IsFiniteSet(0 .. BlockBits - 1)
  BY <1>1, FS_Interval
<1>3. IsFiniteSet(P)
  BY <1>2, FS_Product DEF Groups
<1>4. ASSUME NEW r \in runs, NEW p \in RunBlocks(r) PROVE p \in P
  <2>1. /\ r.group \in Groups /\ r.start \in Nat /\ r.length \in Nat
        /\ r.start + r.length <= fNumBits(r.group)
    BY DEF RunsInGroups
  <2>2. PICK b \in r.start .. r.start + r.length - 1 : p = <<r.group, b>>
    BY DEF RunBlocks
  <2>3. b \in 0 .. BlockBits - 1
    BY <2>1, <1>1
  <2> QED BY <2>1, <2>2, <2>3
<1>5. Runs \in SUBSET P
  <2> HIDE DEF P
  <2> QED BY <1>4 DEF Runs
<1>6. IsFiniteSet(Runs)
  BY <1>3, <1>5, FS_Subset
<1> QED BY <1>6, FS_CardinalityType

(* The volume's blocks are those of its groups.                            *)
LEMMA VolumeSize ==
    ASSUME OneBlock
    PROVE  LET V == {p \in Groups \X (0 .. GroupBits - 1) : p[2] < fNumBits(p[1])}
           IN  IsFiniteSet(V) /\ Cardinality(V) = NumBlocks
<1> DEFINE V == {p \in Groups \X (0 .. GroupBits - 1) : p[2] < fNumBits(p[1])}
           G == 0 .. NumGroups - 2
           B == 0 .. BlockBits - 1
           l == NumGroups - 1
           L == 0 .. fNumBits(l) - 1
<1>0. /\ BlockBits \in Nat \ {0} /\ GroupBits = BlockBits /\ NumGroups \in Nat \ {0}
      /\ \A g \in Groups : fNumBits(g) \in 1 .. BlockBits
      /\ \A g \in Groups : g # l => fNumBits(g) = BlockBits
      /\ fNumBits(l) = NumBlocks - l * BlockBits /\ l \in Groups /\ NumBlocks \in Nat
      /\ l \in Nat
  <2>1. NumGroups \in Nat \ {0} => l \in Nat
    OBVIOUS
  <2> QED BY <2>1, GroupFacts
<1>1. fNumBits(l) \in Nat /\ fNumBits(l) <= BlockBits
  BY <1>0
<1>2. V = (G \X B) \cup ({l} \X L)
  <2>1. ASSUME NEW p \in V PROVE p \in (G \X B) \cup ({l} \X L)
    <3>1. PICK g \in Groups, b \in 0 .. BlockBits - 1 : p = <<g, b>> /\ b < fNumBits(g)
      BY <1>0
    <3>2. g = l \/ g \in G
      BY <1>0 DEF Groups
    <3>3. g = l => b \in L
      BY <3>1, <1>1
    <3> QED BY <3>1, <3>2, <3>3
  <2>2. ASSUME NEW g \in G, NEW b \in B PROVE <<g, b>> \in V
    <3>1. g \in Groups /\ g # l
      BY <1>0 DEF Groups
    <3>2. fNumBits(g) = BlockBits
      BY <3>1, <1>0
    <3> QED BY <3>1, <3>2, <1>0
  <2>3. ASSUME NEW b \in L PROVE <<l, b>> \in V
    BY <1>0, <1>1
  <2> HIDE DEF V, G, B, L, l
  <2> QED BY <2>1, <2>2, <2>3
<1>3. /\ IsFiniteSet(G) /\ Cardinality(G) = l
      /\ IsFiniteSet(B) /\ Cardinality(B) = BlockBits
      /\ IsFiniteSet(L) /\ Cardinality(L) = fNumBits(l)
  <2>1. G = 0 .. 0 + l - 1 /\ B = 0 .. 0 + BlockBits - 1 /\ L = 0 .. 0 + fNumBits(l) - 1
    BY <1>0, <1>1
  <2> HIDE DEF G, B, L, l
  <2> QED BY <2>1, <1>0, <1>1, IntervalSize
<1>4. (G \X B) \cap ({l} \X L) = {}
  <2>1. l \notin G
    BY <1>0
  <2> HIDE DEF G, B, L, l
  <2> QED BY <2>1
<1> HIDE DEF G, B, L, l
<1>5. /\ IsFiniteSet(G \X B) /\ Cardinality(G \X B) = l * BlockBits
      /\ IsFiniteSet({l} \X L) /\ Cardinality({l} \X L) = fNumBits(l)
  BY <1>3, FS_Product, CardPairs
<1>6. /\ IsFiniteSet((G \X B) \cup ({l} \X L))
      /\ Cardinality((G \X B) \cup ({l} \X L)) = l * BlockBits + fNumBits(l)
  <2> DEFINE X == G \X B
             Y == {l} \X L
  <2>1. IsFiniteSet(X) /\ IsFiniteSet(Y) /\ X \cap Y = {}
    BY <1>4, <1>5
  <2> HIDE DEF X, Y
  <2>2. IsFiniteSet(X \cup Y) /\ Cardinality(X \cup Y) = Cardinality(X) + Cardinality(Y)
    BY <2>1, PartSize
  <2> QED BY <2>2, <1>5 DEF X, Y
<1>7. l * BlockBits \in Nat
  BY <1>0
<1>8. l * BlockBits + fNumBits(l) = NumBlocks
  <2> DEFINE m == l * BlockBits
  <2>1. m \in Nat /\ fNumBits(l) = NumBlocks - m
    BY <1>0, <1>7
  <2> HIDE DEF m
  <2> QED BY <2>1, <1>0 DEF m
<1> QED BY <1>2, <1>6, <1>8

-----------------------------------------------------------------------------
(* The invariant is kept.                                                  *)

(* The invariant holds on a volume that is mounted.                        *)
LEMMA AllocatorInitHolds ==
    ASSUME OneBlock, AllocatorInit
    PROVE  AllocatorInductive
<1>0. \A g \in Groups : fNumBits(g) \in Nat
  BY GroupFacts
<1>1. /\ runs \subseteq VolumeRuns /\ Apart(runs) /\ initialized = FALSE
      /\ bitmap = [g \in Groups |-> Owned(g)]
      /\ fFirstFree = [g \in Groups |-> -1] /\ fFreeBits = [g \in Groups |-> 0]
      /\ used_blocks \in Int
  BY GroupFacts DEF AllocatorInit
<1>2. AllocatorTypeOK
  <2>1. \A g \in Groups : Owned(g) \in SUBSET Nat
    BY <1>0 DEF Owned
  <2>2. bitmap \in [Groups -> SUBSET Nat]
    BY <1>1, <2>1
  <2>3. fFirstFree \in [Groups -> Int] /\ fFreeBits \in [Groups -> Int]
    BY <1>1
  <2> QED BY <1>1, <2>2, <2>3 DEF AllocatorTypeOK
<1>3. RunsInGroups
  BY <1>1, GroupFacts DEF RunsInGroups, VolumeRuns
<1>4. NothingCounted /\ FirstFreeInGroup
  BY <1>0, <1>1 DEF NothingCounted, FirstFreeInGroup
<1>5. BlocksOwnedOnce
  BY <1>1 DEF BlocksOwnedOnce
<1>6. CountsMatchBitmap /\ FirstFreeIsLow
  BY <1>1 DEF CountsMatchBitmap, FirstFreeIsLow
<1> QED BY <1>2, <1>3, <1>4, <1>5, <1>6 DEF AllocatorInductive

(* The bits of the bitmap, one by one.                                     *)
OwnedBit(g, b) ==
    \/ g = 0 /\ b < Reserved
    \/ \E r \in runs : r.group = g /\ b \in r.start .. r.start + r.length - 1
BitsOwned ==
    \A g \in Groups : /\ \A b \in bitmap[g] : b \in 0 .. fNumBits(g) - 1 /\ OwnedBit(g, b)
                      /\ \A b \in 0 .. fNumBits(g) - 1 : OwnedBit(g, b) => b \in bitmap[g]
RunsApart ==
    \A r, q \in runs : r # q =>
       ~ \E b \in Nat : /\ r.group = q.group /\ b \in r.start .. r.start + r.length - 1
                        /\ b \in q.start .. q.start + q.length - 1

(* BlocksOwnedOnce, said of the bits of each group.                        *)
LEMMA OwnedOnceByBits ==
    ASSUME OneBlock, RunsInGroups
    PROVE  BlocksOwnedOnce <=> BitsOwned /\ RunsApart
<1>1. \A r \in runs : /\ r.start \in Nat /\ r.length \in Nat
                      /\ r.start + r.length <= fNumBits(r.group)
  BY DEF RunsInGroups
<1>2. \A r \in runs : \A g, b : <<g, b>> \in RunBlocks(r)
                           <=> g = r.group /\ b \in r.start .. r.start + r.length - 1
  BY <1>1, RunBlocksSize
<1>3. \A g, b : OwnedBit(g, b) <=>
          (g = 0 /\ b < Reserved) \/ \E r \in runs : <<g, b>> \in RunBlocks(r)
  BY <1>2 DEF OwnedBit
<1>4. BitsOwned <=> \A g \in Groups :
          bitmap[g] = {b \in 0 .. fNumBits(g) - 1 :
                          (g = 0 /\ b < Reserved) \/ \E r \in runs : <<g, b>> \in RunBlocks(r)}
  BY <1>3 DEF BitsOwned
<1>8. \A g : Owned(g) = {b \in 0 .. fNumBits(g) - 1 :
                  (g = 0 /\ b < Reserved) \/ \E r \in runs : <<g, b>> \in RunBlocks(r)}
  BY DEF Owned
<1>5. ASSUME NEW r \in runs, NEW q \in runs
      PROVE  RunBlocks(r) \cap RunBlocks(q) = {} <=>
               ~ \E b \in Nat : /\ r.group = q.group /\ b \in r.start .. r.start + r.length - 1
                                /\ b \in q.start .. q.start + q.length - 1
  <2>1. ASSUME NEW p \in RunBlocks(r) \cap RunBlocks(q)
        PROVE  \E b \in Nat : /\ r.group = q.group /\ b \in r.start .. r.start + r.length - 1
                              /\ b \in q.start .. q.start + q.length - 1
    <3>1. PICK b \in r.start .. r.start + r.length - 1 : p = <<r.group, b>>
      BY <2>1 DEF RunBlocks
    <3>2. r.group = q.group /\ b \in q.start .. q.start + q.length - 1
      BY <2>1, <3>1, <1>2
    <3>3. b \in Nat
      BY <3>1, <1>1
    <3> QED BY <3>1, <3>2, <3>3
  <2>2. ASSUME NEW b \in Nat, r.group = q.group, b \in r.start .. r.start + r.length - 1,
               b \in q.start .. q.start + q.length - 1
        PROVE  <<r.group, b>> \in RunBlocks(r) \cap RunBlocks(q)
    BY <2>2, <1>2
  <2> QED BY <2>1, <2>2
<1>6. RunsApart <=> Apart(runs)
  BY <1>5 DEF RunsApart, Apart
<1>7. runs \subseteq VolumeRuns
  <2> SUFFICES ASSUME NEW r \in runs PROVE r \in VolumeRuns
    OBVIOUS
  <2>1. /\ r.group \in Groups /\ r.start \in Nat /\ r.length \in Nat \ {0}
        /\ r.start + r.length <= fNumBits(r.group) /\ (r.group = 0 => r.start >= Reserved)
        /\ r = [group |-> r.group, start |-> r.start, length |-> r.length]
    BY DEF RunsInGroups
  <2>2. fNumBits(r.group) \in Nat /\ fNumBits(r.group) <= GroupBits /\ GroupBits \in Nat
    BY <2>1, GroupFacts
  <2>3. r.start \in 0 .. GroupBits - 1 /\ r.length \in 1 .. GroupBits
    BY <2>1, <2>2
  <2>4. r \in [group : Groups, start : 0 .. GroupBits - 1, length : 1 .. GroupBits]
    BY <2>1, <2>3
  <2> QED BY <2>1, <2>4 DEF VolumeRuns
<1> QED BY <1>4, <1>6, <1>7, <1>8 DEF BlocksOwnedOnce

(* AllocateBlocks: the range that is taken was free, so it is in no run.   *)
LEMMA TakenKeeps ==
    ASSUME OneBlock, AllocatorInductive, NEW g, NEW s, NEW n, Taken(g, s, n)
    PROVE  AllocatorInductive'
<1> DEFINE I == s .. s + n - 1
           run == [group |-> g, start |-> s, length |-> n]
           N == fNumBits(g)
<1>0. /\ \A c \in Groups : fNumBits(c) \in Nat
      /\ g \in Groups /\ s \in Nat /\ n \in Nat \ {0} /\ s + n <= N
  BY GroupFacts DEF Taken
<1>1. /\ AllocatorTypeOK /\ RunsInGroups /\ NothingCounted /\ FirstFreeInGroup
      /\ BitsOwned /\ RunsApart /\ CountsMatchBitmap /\ FirstFreeIsLow
  BY OwnedOnceByBits DEF AllocatorInductive
<1>2. /\ \A c \in Groups : bitmap'[c] = IF c = g THEN bitmap[g] \cup I ELSE bitmap[c]
      /\ bitmap' \in [Groups -> SUBSET Nat]
  BY <1>0, <1>1 DEF Taken, AllocatorTypeOK
<1>3. /\ \A c \in Groups : fFirstFree'[c] = IF c = g THEN FirstFreeAfter(g, s, n) ELSE fFirstFree[c]
      /\ \A c \in Groups : fFreeBits'[c] = IF c = g THEN fFreeBits[g] - n ELSE fFreeBits[c]
      /\ fFirstFree' \in [Groups -> Int] /\ fFreeBits' \in [Groups -> Int]
      /\ FirstFreeAfter(g, s, n) \in Int /\ FirstFreeAfter(g, s, n) <= N
  BY <1>0, <1>1 DEF Taken, AllocatorTypeOK, FirstFreeAfter, FirstFreeInGroup
<1>4. /\ initialized /\ initialized' = initialized /\ used_blocks' = used_blocks + n
      /\ runs' = runs \cup {run} /\ \A i \in I : i \in Free(g)
      /\ used_blocks \in Int
  BY <1>1 DEF Taken, FreeFrom, AllocatorTypeOK
<1>5. /\ run.group = g /\ run.start = s /\ run.length = n
      /\ run = [group |-> run.group, start |-> run.start, length |-> run.length]
  OBVIOUS
<1>5a. g = 0 => s >= Reserved
  <2>1. s \in Free(g) /\ s \in 0 .. fNumBits(g) - 1 /\ s \notin bitmap[g]
    BY <1>0, <1>4 DEF Free
  <2>2. ~OwnedBit(g, s)
    BY <2>1, <1>0, <1>1 DEF BitsOwned
  <2>3. Reserved \in Nat
    BY GroupFacts
  <2> QED BY <2>2, <2>3, <1>0 DEF OwnedBit
<1> HIDE DEF I, run, N
<1>6. AllocatorTypeOK' /\ RunsInGroups' /\ NothingCounted' /\ FirstFreeInGroup'
  <2>1. AllocatorTypeOK'
    BY <1>0, <1>1, <1>2, <1>3, <1>4 DEF AllocatorTypeOK
  <2>2. RunsInGroups'
    BY <1>0, <1>1, <1>4, <1>5, <1>5a DEF RunsInGroups, fNumBits, N
  <2>3. FirstFreeInGroup'
    BY <1>1, <1>3 DEF FirstFreeInGroup, fNumBits, N
  <2> QED BY <2>1, <2>2, <2>3, <1>4 DEF NothingCounted
<1>7. \A i \in I : i \in Nat /\ i \in 0 .. N - 1 /\ i \notin bitmap[g]
  BY <1>0, <1>4 DEF Free, N
<1>8. BitsOwned'
  <2>1. ASSUME NEW c \in Groups, NEW b
        PROVE  OwnedBit(c, b)' <=> OwnedBit(c, b) \/ (c = g /\ b \in I)
    BY <1>4, <1>5 DEF OwnedBit, I
  <2>2. ASSUME NEW c \in Groups, NEW b \in bitmap'[c]
        PROVE  b \in 0 .. fNumBits(c) - 1 /\ OwnedBit(c, b)'
    <3>1. b \in bitmap[c] \/ (c = g /\ b \in I)
      BY <2>2, <1>2
    <3> QED BY <3>1, <2>1, <1>1, <1>7 DEF BitsOwned, N
  <2>3. ASSUME NEW c \in Groups, NEW b \in 0 .. fNumBits(c) - 1, OwnedBit(c, b)'
        PROVE  b \in bitmap'[c]
    BY <2>1, <2>3, <1>1, <1>2 DEF BitsOwned
  <2> QED BY <2>2, <2>3 DEF BitsOwned, fNumBits
<1>9. \A r \in runs : r.group = g => \A b \in r.start .. r.start + r.length - 1 : b \notin I
  <2> SUFFICES ASSUME NEW r \in runs, r.group = g,
                      NEW b \in r.start .. r.start + r.length - 1, b \in I
               PROVE  FALSE
    OBVIOUS
  <2>1. OwnedBit(g, b)
    BY DEF OwnedBit
  <2>2. b \in bitmap[g]
    BY <2>1, <1>0, <1>1, <1>7 DEF BitsOwned, N
  <2> QED BY <2>2, <1>7
<1>10. RunsApart'
  BY <1>1, <1>4, <1>5, <1>9 DEF RunsApart, I
<1>11. /\ Free(g)' = Free(g) \ I /\ I \subseteq Free(g)
       /\ \A c \in Groups : c # g => Free(c)' = Free(c)
  BY <1>0, <1>2, <1>4 DEF Free, fNumBits
<1>12. FirstFreeIsLow'
  <2> SUFFICES ASSUME NEW c \in Groups, NEW b \in Free(c)' PROVE fFirstFree'[c] <= b
    BY DEF FirstFreeIsLow
  <2>1. b \in Free(c) /\ b \in Nat /\ (c = g => b \notin I)
    BY <1>11, FreeFinite
  <2>2. fFirstFree[c] <= b /\ fFirstFree[c] \in Int
    BY <2>1, <1>1, <1>4 DEF FirstFreeIsLow, AllocatorTypeOK
  <2>3. CASE c = g /\ s = fFirstFree[g]
    <3>1. fFirstFree'[c] = s + n
      BY <2>3, <1>3 DEF FirstFreeAfter
    <3>2. b >= s + n
      BY <2>1, <2>2, <2>3, <1>0 DEF I
    <3> QED BY <3>1, <3>2
  <2>4. CASE ~(c = g /\ s = fFirstFree[g])
    BY <2>2, <2>4, <1>3 DEF FirstFreeAfter
  <2> QED BY <2>3, <2>4
<1>13. IsFiniteSet(I) /\ Cardinality(I) = n
  BY <1>0, IntervalSize DEF I
<1>14. \A c \in Groups : fFreeBits'[c] = Cardinality(Free(c)')
  <2>1. IsFiniteSet(Free(g))
    BY <1>0, FreeFinite
  <2>2. Cardinality(Free(g) \ I) = Cardinality(Free(g)) - n
    BY <2>1, <1>11, <1>13, PartSize
  <2>3. \A c \in Groups : fFreeBits[c] = Cardinality(Free(c))
    BY <1>1, <1>4 DEF CountsMatchBitmap
  <2>4. fFreeBits'[g] = Cardinality(Free(g)')
    BY <2>2, <2>3, <1>0, <1>3, <1>11
  <2>5. ASSUME NEW c \in Groups, c # g PROVE fFreeBits'[c] = Cardinality(Free(c)')
    BY <2>3, <2>5, <1>3, <1>11
  <2> QED BY <2>4, <2>5
<1>15. used_blocks' = Reserved + Cardinality(Runs')
  <2>1. Runs' = Runs \cup RunBlocks(run)
    BY <1>4 DEF Runs, RunBlocks
  <2>2. Runs \cap RunBlocks(run) = {}
    <3> SUFFICES ASSUME NEW r \in runs, NEW p \in RunBlocks(r), p \in RunBlocks(run)
                 PROVE  FALSE
      BY DEF Runs
    <3>1. PICK b \in s .. s + n - 1 : p = <<g, b>>
      BY <1>5 DEF RunBlocks
    <3>2. r.group = g /\ b \in r.start .. r.start + r.length - 1
      <4>1. r.start \in Nat /\ r.length \in Nat
        BY <1>1 DEF RunsInGroups
      <4> QED BY <4>1, <3>1, RunBlocksSize
    <3> QED BY <3>1, <3>2, <1>9 DEF I
  <2>3. IsFiniteSet(Runs) /\ Cardinality(Runs) \in Nat
    BY <1>1, RunsFinite
  <2>4. IsFiniteSet(RunBlocks(run)) /\ Cardinality(RunBlocks(run)) = n
    BY <1>0, <1>5, RunBlocksSize
  <2>5. Cardinality(Runs \cup RunBlocks(run)) = Cardinality(Runs) + n
    BY <2>2, <2>3, <2>4, PartSize
  <2>6. used_blocks = Reserved + Cardinality(Runs)
    BY <1>1, <1>4 DEF CountsMatchBitmap, Runs
  <2>7. Reserved \in Nat
    BY GroupFacts
  <2> QED BY <2>1, <2>3, <2>5, <2>6, <2>7, <1>0, <1>4
<1>16. CountsMatchBitmap'
  BY <1>14, <1>15 DEF CountsMatchBitmap, Runs
<1>17. BlocksOwnedOnce'
  <2>2. (BitsOwned /\ RunsApart => BlocksOwnedOnce)'
    BY <1>6, OwnedOnceByBits, PTL
  <2> QED BY <2>2, <1>8, <1>10
<1> QED BY <1>6, <1>12, <1>16, <1>17 DEF AllocatorInductive

(* Free: the bits of the run that is returned are those of no other run.   *)
LEMMA ReturnedKeeps ==
    ASSUME OneBlock, AllocatorInductive, NEW run, Returned(run)
    PROVE  AllocatorInductive'
<1> DEFINE g == run.group
           s == run.start
           n == run.length
           I == s .. s + n - 1
           N == fNumBits(g)
<1>1. /\ AllocatorTypeOK /\ RunsInGroups /\ NothingCounted /\ FirstFreeInGroup
      /\ BitsOwned /\ RunsApart /\ CountsMatchBitmap /\ FirstFreeIsLow
  BY OwnedOnceByBits DEF AllocatorInductive
<1>0. /\ \A c \in Groups : fNumBits(c) \in Nat
      /\ g \in Groups /\ s \in Nat /\ n \in Nat \ {0} /\ s + n <= N /\ run \in runs
  BY <1>1, GroupFacts DEF Returned, RunsInGroups
<1> HIDE DEF g, s, n, N
<1>2. /\ \A c \in Groups : bitmap'[c] = IF c = g THEN bitmap[g] \ I ELSE bitmap[c]
      /\ bitmap' \in [Groups -> SUBSET Nat]
  BY <1>0, <1>1 DEF Returned, AllocatorTypeOK, g, s, n
<1>3. /\ \A c \in Groups : fFirstFree'[c] = IF c = g THEN FirstFreeFreed(g, s) ELSE fFirstFree[c]
      /\ \A c \in Groups : fFreeBits'[c] = IF c = g THEN fFreeBits[g] + n ELSE fFreeBits[c]
      /\ fFirstFree' \in [Groups -> Int] /\ fFreeBits' \in [Groups -> Int]
      /\ FirstFreeFreed(g, s) \in Int /\ FirstFreeFreed(g, s) <= N
  <2>1. /\ FirstFreeFreed(g, s) \in Int /\ FirstFreeFreed(g, s) <= N
        /\ fFreeBits[g] + n \in Int
    BY <1>0, <1>1 DEF FirstFreeFreed, FirstFreeInGroup, AllocatorTypeOK, N
  <2>2. /\ fFirstFree' = [fFirstFree EXCEPT ![g] = FirstFreeFreed(g, s)]
        /\ fFreeBits' = [fFreeBits EXCEPT ![g] = fFreeBits[g] + n]
    BY DEF Returned, g, s, n
  <2> QED BY <2>1, <2>2, <1>0, <1>1 DEF AllocatorTypeOK
<1>4. /\ initialized /\ initialized' = initialized /\ used_blocks' = used_blocks - n
      /\ runs' = runs \ {run} /\ used_blocks \in Int
  BY <1>0, <1>1 DEF Returned, NothingCounted, AllocatorTypeOK, n
<1> HIDE DEF I
<1>5. AllocatorTypeOK' /\ RunsInGroups' /\ NothingCounted' /\ FirstFreeInGroup'
  <2>1. AllocatorTypeOK'
    BY <1>0, <1>1, <1>2, <1>3, <1>4 DEF AllocatorTypeOK
  <2>2. RunsInGroups'
    BY <1>1, <1>4 DEF RunsInGroups, fNumBits
  <2>3. FirstFreeInGroup'
    BY <1>1, <1>3 DEF FirstFreeInGroup, fNumBits, N
  <2> QED BY <2>1, <2>2, <2>3, <1>4 DEF NothingCounted
<1>6. \A b \in I : b \in Nat /\ b \in 0 .. N - 1
  BY <1>0 DEF N, I
<1>7. \A r \in runs : r # run /\ r.group = g =>
         \A b \in r.start .. r.start + r.length - 1 : b \notin I
  BY <1>0, <1>1, <1>6 DEF RunsApart, I, g, s, n
<1>8. g = 0 => \A b \in I : b >= Reserved
  <2>1. g = 0 => ~(s < Reserved)
    BY DEF Returned, g, s
  <2>2. Reserved \in Nat
    BY GroupFacts
  <2> QED BY <2>1, <2>2, <1>0 DEF I
<1>9. \A b \in I : OwnedBit(g, b) /\ b \in bitmap[g]
  BY <1>0, <1>1, <1>6 DEF BitsOwned, OwnedBit, I, g, s, n, N
<1>10. ASSUME NEW c \in Groups, NEW b \in Nat
       PROVE  OwnedBit(c, b)' <=> OwnedBit(c, b) /\ ~(c = g /\ b \in I)
  <2>1. CASE c = g /\ b \in I
    <3>1. ~(c = 0 /\ b < Reserved)
      <4>1. Reserved \in Nat
        BY GroupFacts
      <4> QED BY <4>1, <2>1, <1>8
    <3>2. \A r \in runs' : ~(r.group = c /\ b \in r.start .. r.start + r.length - 1)
      BY <2>1, <1>4, <1>7
    <3> QED BY <2>1, <3>1, <3>2 DEF OwnedBit
  <2>2. CASE ~(c = g /\ b \in I)
    <3>1. ~(run.group = c /\ b \in run.start .. run.start + run.length - 1)
      BY <2>2 DEF I, g, s, n
    <3> QED BY <3>1, <2>2, <1>4 DEF OwnedBit
  <2> QED BY <2>1, <2>2
<1>11. BitsOwned'
  <2>1. ASSUME NEW c \in Groups, NEW b \in bitmap'[c]
        PROVE  b \in 0 .. fNumBits(c) - 1 /\ OwnedBit(c, b)'
    <3>1. b \in bitmap[c] /\ ~(c = g /\ b \in I)
      BY <2>1, <1>2
    <3>2. b \in 0 .. fNumBits(c) - 1 /\ OwnedBit(c, b) /\ b \in Nat
      BY <3>1, <1>0, <1>1 DEF BitsOwned
    <3> QED BY <3>1, <3>2, <1>10
  <2>2. ASSUME NEW c \in Groups, NEW b \in 0 .. fNumBits(c) - 1, OwnedBit(c, b)'
        PROVE  b \in bitmap'[c]
    <3>1. b \in Nat
      BY <1>0
    <3>2. OwnedBit(c, b) /\ ~(c = g /\ b \in I)
      BY <3>1, <2>2, <1>10
    <3> QED BY <3>2, <1>1, <1>2 DEF BitsOwned
  <2> QED BY <2>1, <2>2 DEF BitsOwned, fNumBits
<1>12. RunsApart'
  BY <1>1, <1>4 DEF RunsApart
<1>13. /\ Free(g)' = Free(g) \cup I /\ I \cap Free(g) = {}
       /\ \A c \in Groups : c # g => Free(c)' = Free(c)
  BY <1>0, <1>2, <1>6, <1>9 DEF Free, fNumBits, N
<1>14. FirstFreeIsLow'
  <2> SUFFICES ASSUME NEW c \in Groups, NEW b \in Free(c)' PROVE fFirstFree'[c] <= b
    BY DEF FirstFreeIsLow
  <2>1. b \in Free(c) \/ (c = g /\ b \in I)
    BY <1>13
  <2>2. CASE b \in Free(c)
    <3>1. fFirstFree[c] <= b /\ fFirstFree[c] \in Int /\ b \in Nat
      BY <2>2, <1>1, <1>4, FreeFinite DEF FirstFreeIsLow, AllocatorTypeOK
    <3> QED BY <3>1, <1>0, <1>3 DEF FirstFreeFreed
  <2>3. CASE c = g /\ b \in I
    <3>1. s <= b /\ b \in Nat /\ fFirstFree[g] \in Int
      BY <2>3, <1>0, <1>1 DEF I, AllocatorTypeOK
    <3> QED BY <2>3, <3>1, <1>0, <1>3 DEF FirstFreeFreed
  <2> QED BY <2>1, <2>2, <2>3
<1>15. IsFiniteSet(I) /\ Cardinality(I) = n
  BY <1>0, IntervalSize DEF I
<1>16. \A c \in Groups : fFreeBits'[c] = Cardinality(Free(c)')
  <2>1. IsFiniteSet(Free(g)) /\ Free(g) \cap I = {}
    BY <1>0, <1>13, FreeFinite
  <2>2. Cardinality(Free(g) \cup I) = Cardinality(Free(g)) + n
    BY <2>1, <1>15, PartSize
  <2>3. \A c \in Groups : fFreeBits[c] = Cardinality(Free(c))
    BY <1>1, <1>4 DEF CountsMatchBitmap
  <2>4. fFreeBits'[g] = Cardinality(Free(g)')
    BY <2>2, <2>3, <1>0, <1>3, <1>13
  <2>5. ASSUME NEW c \in Groups, c # g PROVE fFreeBits'[c] = Cardinality(Free(c)')
    BY <2>3, <2>5, <1>3, <1>13
  <2> QED BY <2>4, <2>5
<1>17. used_blocks' = Reserved + Cardinality(Runs')
  <2>0. \A r \in runs : \A c, b : <<c, b>> \in RunBlocks(r)
                           <=> c = r.group /\ b \in r.start .. r.start + r.length - 1
    BY <1>1, RunBlocksSize DEF RunsInGroups
  <2>1. Runs' = Runs \ RunBlocks(run)
    <3>1. ASSUME NEW r \in runs, r # run, NEW p \in RunBlocks(r) PROVE p \notin RunBlocks(run)
      <4>1. PICK b \in r.start .. r.start + r.length - 1 : p = <<r.group, b>>
        BY <3>1 DEF RunBlocks
      <4>2. p \in RunBlocks(run) => r.group = g /\ b \in I
        BY <4>1, <2>0, <1>0 DEF I, g, s, n
      <4> QED BY <4>1, <4>2, <3>1, <1>7
    <3>2. Runs' = UNION {RunBlocks(r) : r \in runs \ {run}}
      BY <1>4 DEF Runs, RunBlocks
    <3> QED BY <3>1, <3>2, <1>0 DEF Runs
  <2>2. RunBlocks(run) \subseteq Runs
    BY <1>0 DEF Runs
  <2>3. IsFiniteSet(Runs) /\ Cardinality(Runs) \in Nat
    BY <1>1, RunsFinite
  <2>4. IsFiniteSet(RunBlocks(run)) /\ Cardinality(RunBlocks(run)) = n
    BY <1>0, RunBlocksSize DEF g, s, n
  <2>5. Cardinality(Runs \ RunBlocks(run)) = Cardinality(Runs) - n
    BY <2>2, <2>3, <2>4, PartSize
  <2>6. used_blocks = Reserved + Cardinality(Runs)
    BY <1>1, <1>4 DEF CountsMatchBitmap, Runs
  <2>7. Reserved \in Nat
    BY GroupFacts
  <2> QED BY <2>1, <2>3, <2>5, <2>6, <2>7, <1>0, <1>4
<1>18. CountsMatchBitmap'
  BY <1>16, <1>17 DEF CountsMatchBitmap, Runs
<1>19. BlocksOwnedOnce'
  <2>2. (BitsOwned /\ RunsApart => BlocksOwnedOnce)'
    BY <1>5, OwnedOnceByBits, PTL
  <2> QED BY <2>2, <1>11, <1>12
<1> QED BY <1>5, <1>14, <1>18, <1>19 DEF AllocatorInductive

(* initialize: what it counts is free, and nothing was counted before.     *)
LEMMA InitializeKeeps ==
    ASSUME OneBlock, AllocatorInductive, initialize
    PROVE  AllocatorInductive'
<1>0. /\ Reserved \in Nat /\ Reserved <= fNumBits(0) /\ 0 \in Groups /\ NumBlocks \in Nat
      /\ \A c \in Groups : fNumBits(c) \in Nat /\ fNumBits(c) <= GroupBits
      /\ GroupBits \in Nat
  BY GroupFacts
<1>1. /\ AllocatorTypeOK /\ RunsInGroups /\ FirstFreeInGroup
      /\ BitsOwned /\ RunsApart
      /\ \A g \in Groups : fFreeBits[g] = 0 /\ fFirstFree[g] = -1
  BY OwnedOnceByBits DEF AllocatorInductive, NothingCounted, initialize
<1>2. initialized' = TRUE /\ bitmap' = bitmap /\ runs' = runs
  BY DEF initialize
<1>3. ASSUME NEW g \in Groups
      PROVE  /\ fFreeBits'[g] = Cardinality(Free(g)) /\ fFreeBits'[g] \in Int
             /\ fFirstFree'[g] \in Int /\ fFirstFree'[g] <= fNumBits(g)
             /\ \A b \in Free(g) : fFirstFree'[g] <= b
  <2> DEFINE m == CHOOSE b \in Free(g) : \A c \in Free(g) : b <= c
  <2>1. fFreeBits'[g] = 0 + Cardinality(Free(g)) /\ Cardinality(Free(g)) \in Nat
    BY <1>1, FreeFinite DEF initialize
  <2>2. fFirstFree'[g] = IF Free(g) # {} THEN m ELSE -1
    BY <1>1 DEF initialize
  <2>3. CASE Free(g) # {}
    <3>1. Min(Free(g)) \in Free(g) /\ \A c \in Free(g) : Min(Free(g)) <= c
      BY <2>3, FreeFinite, MinNat
    <3>2. m \in Free(g) /\ \A c \in Free(g) : m <= c
      BY <3>1
    <3>3. m \in Nat /\ m <= fNumBits(g)
      <4>1. m \in 0 .. fNumBits(g) - 1
        BY <3>2 DEF Free
      <4> HIDE DEF m
      <4> QED BY <4>1, <1>0
    <3> HIDE DEF m
    <3> QED BY <2>1, <2>2, <2>3, <3>2, <3>3
  <2>4. CASE Free(g) = {}
    BY <2>1, <2>2, <2>4, <1>0
  <2> QED BY <2>3, <2>4
<1>4. fFreeBits' \in [Groups -> Int] /\ fFirstFree' \in [Groups -> Int]
  <2>1. /\ fFreeBits' = [g \in Groups |-> fFreeBits'[g]]
        /\ fFirstFree' = [g \in Groups |-> fFirstFree'[g]]
    BY DEF initialize
  <2> QED BY <2>1, <1>3
<1>5. \A g \in Groups : Free(g)' = Free(g)
  BY <1>2 DEF Free, fNumBits
<1>10. CountedFree = AllFree
  <2>1. \A g \in Groups : \A b \in -GroupBits .. -1 : ~(-b <= fFreeBits[g])
    BY <1>0, <1>1
  <2>2. {p \in Groups \X (-GroupBits .. -1) : -p[2] <= fFreeBits[p[1]]} = {}
    BY <2>1
  <2> QED BY <2>2 DEF CountedFree
<1>11. \A r \in runs : \A g, b : <<g, b>> \in RunBlocks(r)
                           <=> g = r.group /\ b \in r.start .. r.start + r.length - 1
  BY <1>1, RunBlocksSize DEF RunsInGroups
<1>6. used_blocks' = Reserved + Cardinality(Runs)
  <2> DEFINE V == {p \in Groups \X (0 .. GroupBits - 1) : p[2] < fNumBits(p[1])}
             R == {0} \X (0 .. Reserved - 1)
             U == R \cup Runs
  <2>1. IsFiniteSet(V) /\ Cardinality(V) = NumBlocks
    BY VolumeSize
  <2>2. IsFiniteSet(R) /\ Cardinality(R) = Reserved
    <3>1. IsFiniteSet(0 .. Reserved - 1) /\ Cardinality(0 .. Reserved - 1) = Reserved
      <4>1. 0 .. Reserved - 1 = 0 .. 0 + Reserved - 1
        BY <1>0
      <4> QED BY <4>1, <1>0, IntervalSize
    <3> QED BY <3>1, CardPairs
  <2>3. IsFiniteSet(Runs) /\ Cardinality(Runs) \in Nat
    BY <1>1, RunsFinite
  <2>4. ASSUME NEW p \in Runs PROVE p \in V /\ p \notin R
    <3>1. PICK r \in runs : p \in RunBlocks(r)
      BY <2>4 DEF Runs
    <3>2. PICK b \in r.start .. r.start + r.length - 1 : p = <<r.group, b>>
      BY <3>1 DEF RunBlocks
    <3>3. /\ r.group \in Groups /\ r.start \in Nat /\ r.length \in Nat
          /\ r.start + r.length <= fNumBits(r.group) /\ (r.group = 0 => r.start >= Reserved)
      BY <1>1 DEF RunsInGroups
    <3>4. b \in 0 .. GroupBits - 1 /\ b < fNumBits(r.group) /\ (r.group = 0 => b >= Reserved)
      BY <3>2, <3>3, <1>0
    <3> QED BY <3>2, <3>3, <3>4, <1>0
  <2>5. IsFiniteSet(U) /\ Cardinality(U) = Reserved + Cardinality(Runs)
    <3>1. R \cap Runs = {}
      BY <2>4
    <3> HIDE DEF R
    <3> QED BY <2>2, <2>3, <3>1, PartSize
  <2>6. U \subseteq V
    BY <2>4, <1>0
  <2>7. AllFree = V \ U
    <3>1. ASSUME NEW g \in Groups, NEW b \in 0 .. GroupBits - 1
          PROVE  b \in Free(g) <=> b < fNumBits(g) /\ <<g, b>> \notin U
      <4>1. OwnedBit(g, b) <=> <<g, b>> \in U
        <5>1. <<g, b>> \in R <=> g = 0 /\ b < Reserved
          BY <1>0
        <5>2. <<g, b>> \in Runs <=> \E r \in runs : r.group = g
                                       /\ b \in r.start .. r.start + r.length - 1
          BY <1>11 DEF Runs
        <5> HIDE DEF R
        <5> QED BY <5>1, <5>2 DEF OwnedBit
      <4>2. b \in Nat /\ (b \in 0 .. fNumBits(g) - 1 <=> b < fNumBits(g))
        BY <1>0
      <4> HIDE DEF U
      <4> QED BY <4>1, <4>2, <1>1 DEF Free, BitsOwned
    <3>3. \A g \in Groups, b \in 0 .. GroupBits - 1 :
             /\ <<g, b>> \in V <=> b < fNumBits(g)
             /\ <<g, b>> \in AllFree <=> b \in Free(g)
      BY DEF AllFree
    <3>4. /\ V \subseteq Groups \X (0 .. GroupBits - 1)
          /\ AllFree \subseteq Groups \X (0 .. GroupBits - 1)
      BY DEF AllFree
    <3> HIDE DEF V, U
    <3> QED BY <3>1, <3>3, <3>4
  <2> HIDE DEF V, R, U
  <2>8. Cardinality(AllFree) = NumBlocks - Cardinality(U)
    BY <2>1, <2>5, <2>6, <2>7, PartSize
  <2> QED BY <2>3, <2>5, <2>8, <1>0, <1>10 DEF initialize
<1>7. AllocatorTypeOK' /\ RunsInGroups' /\ NothingCounted' /\ FirstFreeInGroup'
  <2>1. AllocatorTypeOK'
    <3>1. used_blocks' \in Int
      BY <1>1, <1>6, <1>0, RunsFinite
    <3>2. initialized' \in BOOLEAN
      BY <1>2
    <3>3. bitmap' \in [Groups -> SUBSET Nat]
      BY <1>1, <1>2 DEF AllocatorTypeOK
    <3> QED BY <3>1, <3>2, <3>3, <1>4 DEF AllocatorTypeOK
  <2>2. RunsInGroups'
    BY <1>1, <1>2 DEF RunsInGroups
  <2>3. FirstFreeInGroup'
    BY <1>3 DEF FirstFreeInGroup, fNumBits
  <2> QED BY <2>1, <2>2, <2>3, <1>2 DEF NothingCounted
<1>8. BlocksOwnedOnce'
  <2>1. BlocksOwnedOnce
    BY DEF AllocatorInductive
  <2> QED BY <2>1, <1>2 DEF BlocksOwnedOnce, Owned, Apart, RunBlocks, fNumBits
<1>9. CountsMatchBitmap' /\ FirstFreeIsLow'
  <2>1. FirstFreeIsLow'
    BY <1>3, <1>5 DEF FirstFreeIsLow
  <2>2. Runs' = Runs
    BY <1>2 DEF Runs, RunBlocks
  <2>3. used_blocks' = Reserved + Cardinality(Runs')
    BY <2>2, <1>6
  <2>4. \A g \in Groups : fFreeBits'[g] = Cardinality(Free(g)')
    BY <1>3, <1>5
  <2> QED BY <2>1, <2>3, <2>4 DEF CountsMatchBitmap, Runs
<1> QED BY <1>7, <1>8, <1>9 DEF AllocatorInductive

(* Who changes nothing keeps the invariant.                                *)
LEMMA AllocatorStutters ==
    ASSUME AllocatorInductive, UNCHANGED allocatorVars
    PROVE  AllocatorInductive'
BY DEF AllocatorInductive, allocatorVars, AllocatorTypeOK, RunsInGroups, NothingCounted,
       FirstFreeInGroup, BlocksOwnedOnce, Owned, Apart, CountsMatchBitmap, FirstFreeIsLow,
       Free, RunBlocks, fNumBits

(* Every operation keeps the invariant.                                    *)
LEMMA AllocatorStep ==
    ASSUME OneBlock, AllocatorInductive, [AllocatorNextLate]_allocatorVars
    PROVE  AllocatorInductive'
<1>0. /\ GroupBits \in Nat \ {0} /\ 0 \in Groups /\ \A g \in Groups : g \in Nat
      /\ fNumBits(0) \in Nat \ {0}
  BY GroupFacts DEF Groups
<1>1. CASE initialize
  BY <1>1, InitializeKeeps
<1>2. ASSUME NEW group \in Nat, NEW start \in Nat, NEW maximum \in Nat \ {0},
             NEW minimum \in Nat \ {0}, AllocateBlocks(group, start, maximum, minimum)
      PROVE  AllocatorInductive'
  BY <1>2, AllocateStep, TakenKeeps, AllocatorStutters
<1>3. ASSUME NEW g \in Groups, NEW directory \in BOOLEAN, AllocateForInode(g, directory)
      PROVE  AllocatorInductive'
  <2>1. (IF directory THEN g + 8 ELSE g) \in Nat
    BY <1>0
  <2> QED BY <2>1, <1>2, <1>3 DEF AllocateForInode
<1>4. ASSUME NEW g \in Groups, NEW s \in 0 .. GroupBits, NEW n \in 1 .. GroupBits + 1,
             NEW m \in 1 .. n, Allocate(g, s, n, m)
      PROVE  AllocatorInductive'
  <2> DEFINE max == IF n > fNumBits(0) THEN fNumBits(0) ELSE n
  <2>1. /\ g \in Nat /\ s \in Nat /\ max \in Nat \ {0} /\ m \in Nat \ {0}
    BY <1>0
  <2>2. AllocateBlocks(g, s, max, m)
    BY <1>4 DEF Allocate
  <2> HIDE DEF max
  <2> QED BY <2>1, <2>2, <1>2
<1>5. ASSUME NEW run \in runs, FreeRun(run) PROVE AllocatorInductive'
  BY <1>5, FreeStep, ReturnedKeeps
<1>6. CASE UNCHANGED allocatorVars
  BY <1>6, AllocatorStutters
<1> QED BY <1>1, <1>3, <1>4, <1>5, <1>6 DEF AllocatorNextLate

(* The bitmap, the cached counts and the first free blocks agree, from the *)
(* mount of a volume with any files on, through the counting thread and    *)
(* every AllocateBlocks and Free, if no Free comes before that thread.     *)
THEOREM AllocatorInvariant ==
    ASSUME OneBlock
    PROVE  AllocatorSpecLate => []AllocatorInductive
<1>1. AllocatorInit => AllocatorInductive
  BY AllocatorInitHolds
<1>2. AllocatorInductive /\ [AllocatorNextLate]_allocatorVars => AllocatorInductive'
  BY AllocatorStep
<1> QED BY <1>1, <1>2, PTL DEF AllocatorSpecLate

(* A search finds what is there, since no free block is before the first   *)
(* free one and no group with a free block counts none.                    *)
LEMMA SearchFinds ==
    ASSUME OneBlock, AllocatorInductive
    PROVE  SearchFindsSpace
<1> SUFFICES ASSUME initialized, NEW g \in Groups, NEW s \in 0 .. GroupBits,
                    NEW n \in 1 .. GroupBits, NEW m \in 1 .. n
             PROVE  LET run == Search(g, s, n, m)
                    IN  IF run.length = 0
                        THEN s = 0 \/ m < n => \A h \in Groups : ~HasRange(h, m)
                        ELSE /\ run.length \in m .. n
                             /\ \A b \in run.start .. run.start + run.length - 1 :
                                   b \in Free(run.group)
  BY DEF SearchFindsSpace
<1> DEFINE run == Search(g, s, n, m)
<1>0. g \in Nat /\ s \in Nat /\ n \in Nat \ {0} /\ m \in Nat \ {0} /\ m <= n
  BY GroupFacts DEF Groups
<1>1. FirstFreeInGroup /\ CountsMatchBitmap /\ FirstFreeIsLow
  BY DEF AllocatorInductive
<1>2. \/ run.length = 0 /\ Hits(g, s, n, m) = {}
      \/ GoodRun(run, n) /\ m <= run.length
  BY <1>0, <1>1, SearchResult
<1>3. ASSUME Hits(g, s, n, m) = {}, s = 0 \/ m < n, NEW h \in Groups, HasRange(h, m)
      PROVE  FALSE
  <2>1. \A c \in Groups : Free(c) # {} => fFreeBits[c] # 0
    BY <1>1, FreeFinite DEF CountsMatchBitmap
  <2>2. \A c \in Groups : \A b \in Free(c) : fFirstFree[c] <= b
    BY <1>1 DEF FirstFreeIsLow
  <2> QED BY <2>1, <2>2, <1>0, <1>1, <1>3, SearchComplete
<1> HIDE DEF run
<1>4. CASE run.length = 0 /\ Hits(g, s, n, m) = {}
  BY <1>3, <1>4 DEF run
<1>5. CASE GoodRun(run, n) /\ m <= run.length
  <2>1. /\ run.length \in m .. n /\ run.length # 0
        /\ \A b \in run.start .. run.start + run.length - 1 : b \in Free(run.group)
    BY <1>5, <1>0 DEF GoodRun, FreeFrom
  <2> QED BY <2>1 DEF run
<1> QED BY <1>2, <1>4, <1>5

-----------------------------------------------------------------------------
(* AllocateBlocks and Free keep the bitmap and what is cached of it, on a  *)
(* volume of any size whose groups are one bitmap block each.              *)
THEOREM BitmapKeptAlways ==
    ASSUME BlocksPerGroup = 1
    PROVE  AllocatorSpecLate => []BitmapKept
<1>1. AllocatorSpecLate => []AllocatorInductive
  BY AllocatorInvariant DEF OneBlock
<1>2. AllocatorInductive => BitmapKept
  BY DEF AllocatorInductive, BitmapKept
<1> QED BY <1>1, <1>2, PTL

(* No sequence of them hides free blocks from the next AllocateBlocks: the *)
(* two passes over the groups find any range that is there.                *)
THEOREM SpaceFoundAlways ==
    ASSUME BlocksPerGroup = 1
    PROVE  AllocatorSpecLate => []SpaceFound
<1>1. AllocatorSpecLate => []AllocatorInductive
  BY AllocatorInvariant DEF OneBlock
<1>2. AllocatorInductive => SpaceFound
  BY SearchFinds DEF AllocatorInductive, SpaceFound, OneBlock
<1> QED BY <1>1, <1>2, PTL
====
