----------------------------- MODULE CpuProofs -----------------------------
(***************************************************************************)
(* Theorems about what runs on each CPU by itself: Smp, for any number of  *)
(* CPUs and messages, and Timer, for any number of CPUs and events and any *)
(* time.                                                                   *)
(***************************************************************************)
EXTENDS Smp, Timer, ListLemmas, FiniteSetTheorems

-----------------------------------------------------------------------------
(* Smp.  The invariant: a message goes through phases, and in each it      *)
(* is known who has it and what its fields are.                            *)

Fields == [ref : Int, sync : BOOLEAN, done : BOOLEAN, bcast : BOOLEAN,
           bitmap : SUBSET Procs, to : SUBSET Procs]
Sending == [pc : {"post", "wait"}, m : Msgs]
Serving == [pc : {"got", "clean", "hand"}, m : Msgs, bcast : BOOLEAN]

SmpTypeOK ==
    /\ free_msgs \in SUBSET Msgs
    /\ smp_msgs \in [Procs -> Seq(Msgs)] /\ smp_broadcast_msgs \in Seq(Msgs)
    /\ msg \in [Msgs -> Fields]
    /\ sender \in [Procs -> Sending \cup {NoSend}]
    /\ server \in [Procs -> Serving \cup {NoServe, Looking}]
    /\ served \in [Msgs -> SUBSET Procs]
    /\ Distinct(smp_broadcast_msgs) /\ \A c \in Procs : Distinct(smp_msgs[c])

(* Who sends m, has it in its mailbox or serves it: c alone, or nobody.    *)
SentBy(m, c) == \A d \in Procs : sender[d].m = m <=> d = c
NotSent(m) == \A d \in Procs : sender[d].m # m
BoxOf(m, c) == \A d \in Procs : Contains(smp_msgs[d], m) <=> d = c
NotBoxed(m) == \A d \in Procs : ~Contains(smp_msgs[d], m)
ServedBy(m, c) == \A d \in Procs : server[d].m = m <=> d = c
NotServed(m) == \A d \in Procs : server[d].m # m
Listed(m) == Contains(smp_broadcast_msgs, m)

(* The sender of a synchronous message waits for it, any other is gone.    *)
Awaited(m) ==
    IF msg[m].sync THEN \E c \in Procs : SentBy(m, c) /\ sender[c].pc = "wait"
    ELSE NotSent(m)

(* On its way: nobody may give it back yet.                                *)
InFlight(m) == m \notin free_msgs /\ ~msg[m].done

AllServed(m) == msg[m].to \subseteq served[m]
Getters(m) == {c \in Procs : server[c].m = m /\ server[c].pc = "got"}

Free(m) ==
    m \in free_msgs /\ NotSent(m) /\ NotBoxed(m) /\ NotServed(m) /\ ~Listed(m) /\ AllServed(m)
Posted(m) ==
    /\ InFlight(m) /\ NotBoxed(m) /\ NotServed(m) /\ ~Listed(m)
    /\ \E c \in Procs : /\ SentBy(m, c) /\ sender[c].pc = "post"
                        /\ IF msg[m].bcast
                           THEN /\ msg[m].bitmap = {c} /\ msg[m].to = Procs \ {c}
                                /\ msg[m].ref = Cardinality(Procs) - 1
                           ELSE msg[m].ref = 1 /\ \E t \in Procs : msg[m].to = {t}
InBox(m) ==
    /\ InFlight(m) /\ Awaited(m) /\ NotServed(m) /\ ~Listed(m) /\ ~msg[m].bcast
    /\ \E c \in Procs : BoxOf(m, c) /\ msg[m].to = {c} /\ msg[m].ref = 1
Direct(m) ==
    /\ InFlight(m) /\ Awaited(m) /\ NotBoxed(m) /\ ~Listed(m) /\ ~msg[m].bcast
    /\ \E c \in Procs : /\ ServedBy(m, c) /\ ~server[c].bcast
                        /\ IF server[c].pc = "got" THEN msg[m].to = {c} /\ msg[m].ref = 1
                           ELSE AllServed(m)
InList(m) ==
    /\ InFlight(m) /\ Awaited(m) /\ NotBoxed(m) /\ Listed(m) /\ msg[m].bcast
    /\ \A c \in Procs : server[c].m = m => server[c].bcast /\ server[c].pc = "got"
    /\ msg[m].ref = Cardinality(Procs \ msg[m].bitmap) + Cardinality(Getters(m))
    /\ \A c \in msg[m].to : c \in msg[m].bitmap => c \in served[m] \/ c \in Getters(m)
Cleaned(m) ==
    /\ InFlight(m) /\ Awaited(m) /\ NotBoxed(m) /\ AllServed(m) /\ msg[m].bcast
    /\ \E c \in Procs : /\ ServedBy(m, c) /\ server[c].bcast
                        /\ \/ /\ server[c].pc = "clean" /\ Listed(m)
                              /\ msg[m].ref = 0 /\ Procs \subseteq msg[m].bitmap
                           \/ server[c].pc = "hand" /\ ~Listed(m)
Done(m) ==
    /\ m \notin free_msgs /\ msg[m].done /\ msg[m].sync /\ Awaited(m)
    /\ NotBoxed(m) /\ NotServed(m) /\ ~Listed(m) /\ AllServed(m)

Phase(m) ==
    \/ Free(m) \/ Posted(m) \/ InBox(m) \/ Direct(m) \/ InList(m) \/ Cleaned(m) \/ Done(m)

SmpInductive == SmpTypeOK /\ \A m \in Msgs : Phase(m)

-----------------------------------------------------------------------------
(* A step that does not touch a message leaves it in its phase.            *)

Same(x) ==
    /\ x \in free_msgs' <=> x \in free_msgs
    /\ \A d \in Procs : sender'[d].m = x \/ sender[d].m = x => sender'[d] = sender[d]
    /\ \A d \in Procs : Contains(smp_msgs'[d], x) <=> Contains(smp_msgs[d], x)
    /\ Contains(smp_broadcast_msgs', x) <=> Contains(smp_broadcast_msgs, x)
    /\ \A d \in Procs : server'[d].m = x \/ server[d].m = x => server'[d] = server[d]
    /\ msg'[x] = msg[x] /\ served'[x] = served[x]

(* What Same says in the words of the phases.                              *)
LEMMA SameParts ==
    ASSUME NEW x \in Msgs, Same(x)
    PROVE  /\ \A c \in Procs : SentBy(x, c) => SentBy(x, c)' /\ sender'[c] = sender[c]
           /\ \A c \in Procs : ServedBy(x, c) => ServedBy(x, c)' /\ server'[c] = server[c]
           /\ \A c \in Procs : BoxOf(x, c) => BoxOf(x, c)'
           /\ NotSent(x) => NotSent(x)'
           /\ NotBoxed(x) => NotBoxed(x)'
           /\ NotServed(x) => NotServed(x)'
           /\ Listed(x)' <=> Listed(x)
           /\ InFlight(x) => InFlight(x)'
           /\ AllServed(x) => AllServed(x)'
           /\ Awaited(x) => Awaited(x)'
           /\ Getters(x)' = Getters(x)
<1>1. \A c \in Procs : SentBy(x, c) => SentBy(x, c)' /\ sender'[c] = sender[c]
  BY DEF Same, SentBy
<1>2. \A c \in Procs : ServedBy(x, c) => ServedBy(x, c)' /\ server'[c] = server[c]
  BY DEF Same, ServedBy
<1>3. \A c \in Procs : BoxOf(x, c) => BoxOf(x, c)'
  BY DEF Same, BoxOf
<1>4. /\ NotSent(x) => NotSent(x)'
      /\ NotBoxed(x) => NotBoxed(x)'
      /\ NotServed(x) => NotServed(x)'
      /\ Listed(x)' <=> Listed(x)
      /\ InFlight(x) => InFlight(x)'
      /\ AllServed(x) => AllServed(x)'
  BY DEF Same, NotSent, NotBoxed, NotServed, Listed, InFlight, AllServed
<1>5. Awaited(x) => Awaited(x)'
  BY <1>1, <1>4 DEF Same, Awaited
<1>6. Getters(x)' = Getters(x)
  BY DEF Same, Getters
<1> QED BY <1>1, <1>2, <1>3, <1>4, <1>5, <1>6

(* A step that does not touch a message leaves it in its phase.            *)
LEMMA SamePhase ==
    ASSUME NEW x \in Msgs, Same(x), Phase(x)
    PROVE  Phase(x)'
<1>0. /\ x \in free_msgs' <=> x \in free_msgs
      /\ msg'[x] = msg[x] /\ served'[x] = served[x]
  BY DEF Same
<1>1. CASE Free(x)
  BY <1>0, <1>1, SameParts DEF Free, Phase
<1>2. CASE Posted(x)
  BY <1>0, <1>2, SameParts DEF Posted, Phase
<1>3. CASE InBox(x)
  BY <1>0, <1>3, SameParts DEF InBox, Phase
<1>4. CASE Direct(x)
  BY <1>0, <1>4, SameParts DEF Direct, Phase
<1>5. CASE InList(x)
  <2>1. \A c \in Procs : server'[c].m = x => server'[c].bcast /\ server'[c].pc = "got"
    BY <1>5 DEF Same, InList
  <2> QED BY <1>0, <1>5, <2>1, SameParts DEF InList, Phase
<1>6. CASE Cleaned(x)
  BY <1>0, <1>6, SameParts DEF Cleaned, Phase
<1>7. CASE Done(x)
  BY <1>0, <1>7, SameParts DEF Done, Phase
<1> QED BY <1>1, <1>2, <1>3, <1>4, <1>5, <1>6, <1>7 DEF Phase

-----------------------------------------------------------------------------
(* The records of a CPU.                                                   *)

(* What a CPU's record as a sender may be.                                 *)
LEMMA SenderRecord ==
    ASSUME SmpTypeOK, NEW c \in Procs
    PROVE  \/ sender[c] = NoSend /\ sender[c].pc = "run" /\ sender[c].m = NoMsg
           \/ /\ sender[c].pc \in {"post", "wait"} /\ sender[c].m \in Msgs
              /\ sender[c] = [pc |-> sender[c].pc, m |-> sender[c].m]
<1>1. sender[c] \in Sending \cup {NoSend}
  BY DEF SmpTypeOK
<1>2. CASE sender[c] = NoSend
  BY <1>2 DEF NoSend
<1>3. CASE sender[c] \in Sending
  BY <1>3 DEF Sending
<1> QED BY <1>1, <1>2, <1>3

(* What a CPU's record as a server may be.                                 *)
LEMMA ServerRecord ==
    ASSUME SmpTypeOK, NEW c \in Procs
    PROVE  \/ /\ server[c].pc \in {"no", "look"} /\ server[c].m = NoMsg
           \/ /\ server[c].pc \in {"got", "clean", "hand"} /\ server[c].m \in Msgs
              /\ server[c].bcast \in BOOLEAN
              /\ server[c] = [pc |-> server[c].pc, m |-> server[c].m, bcast |-> server[c].bcast]
<1>1. server[c] \in Serving \cup {NoServe, Looking}
  BY DEF SmpTypeOK
<1>2. CASE server[c] \in {NoServe, Looking}
  BY <1>2 DEF NoServe, Looking
<1>3. CASE server[c] \in Serving
  BY <1>3 DEF Serving
<1> QED BY <1>1, <1>2, <1>3

-----------------------------------------------------------------------------
(* Sending takes a free message; it is posted.                             *)

(* The fields of a message that c sends.                                   *)
Fresh(c, f) ==
    /\ f \in Fields /\ ~f.done
    /\ IF f.bcast THEN f.bitmap = {c} /\ f.to = Procs \ {c} /\ f.ref = Cardinality(Procs) - 1
       ELSE f.ref = 1 /\ \E t \in Procs : f.to = {t}

(* A CPU gets a free message and fills it in.                              *)
LEMMA SendStep ==
    ASSUME SmpInductive, NEW c \in Procs, NEW m \in Msgs, NEW f, Fresh(c, f), Send(c, m, f)
    PROVE  SmpInductive'
<1>1. /\ sender[c].pc = "run" /\ sender[c].m = NoMsg /\ m \in free_msgs /\ NoMsg \notin Msgs
      /\ SmpTypeOK /\ \A x \in Msgs : Phase(x)
  BY SenderRecord, SmpAssumption DEF SmpInductive, Send
<1>2. Free(m)
  BY <1>1 DEF Phase, Posted, InBox, Direct, InList, Cleaned, Done, InFlight
<1>3. /\ free_msgs' = free_msgs \ {m} /\ smp_msgs' = smp_msgs
      /\ smp_broadcast_msgs' = smp_broadcast_msgs /\ server' = server
      /\ msg'[m] = f /\ \A x \in Msgs : x # m => msg'[x] = msg[x]
      /\ served' \in [Msgs -> SUBSET Procs] /\ msg' \in [Msgs -> Fields]
      /\ \A x \in Msgs : x # m => served'[x] = served[x]
      /\ sender'[c] = [pc |-> "post", m |-> m]
      /\ \A d \in Procs : d # c => sender'[d] = sender[d]
  BY <1>1 DEF SmpTypeOK, Send, Fresh
<1>4. sender' \in [Procs -> Sending \cup {NoSend}]
  <2>1. [pc |-> "post", m |-> m] \in Sending
    BY DEF Sending
  <2> QED BY <1>1, <2>1 DEF SmpTypeOK, Send
<1>5. SmpTypeOK'
  BY <1>1, <1>3, <1>4 DEF SmpTypeOK
<1>6. \A x \in Msgs : x # m => Same(x)
  BY <1>1, <1>3 DEF Same
<1>7. Posted(m)'
  <2>1. SentBy(m, c)' /\ sender'[c].pc = "post"
    BY <1>2, <1>3 DEF SentBy, Free, NotSent
  <2>2. NotBoxed(m)' /\ NotServed(m)' /\ ~Listed(m)'
    BY <1>2, <1>3 DEF Free, NotBoxed, NotServed, Listed
  <2>3. InFlight(m)'
    BY <1>3 DEF InFlight, Fresh
  <2> QED BY <1>3, <2>1, <2>2, <2>3 DEF Posted, Fresh
<1> QED BY <1>1, <1>5, <1>6, <1>7, SamePhase DEF SmpInductive, Phase

(* smp_send_ici and smp_send_broadcast_ici take a free message.            *)
LEMMA SendIciStep ==
    ASSUME SmpInductive, NEW c \in Procs, smp_send_ici(c) \/ smp_send_broadcast_ici(c)
    PROVE  SmpInductive'
<1>1. CASE smp_send_ici(c)
  <2>1. PICK m \in free_msgs, to \in Procs \ {c}, sync \in BOOLEAN :
           Send(c, m, [msg[m] EXCEPT !.ref = 1, !.sync = sync, !.done = FALSE,
                                     !.bcast = FALSE, !.to = {to}])
    BY <1>1 DEF smp_send_ici
  <2>2. PICK f : f = [msg[m] EXCEPT !.ref = 1, !.sync = sync, !.done = FALSE,
                                    !.bcast = FALSE, !.to = {to}]
    OBVIOUS
  <2>3. m \in Msgs /\ msg[m] \in Fields
    BY DEF SmpInductive, SmpTypeOK
  <2>4. f = [ref |-> 1, sync |-> sync, done |-> FALSE, bcast |-> FALSE,
             bitmap |-> msg[m].bitmap, to |-> {to}] /\ msg[m].bitmap \in SUBSET Procs
    BY <2>2, <2>3 DEF Fields
  <2>5. Fresh(c, f)
    BY <2>4 DEF Fresh, Fields
  <2> QED BY <2>1, <2>2, <2>3, <2>5, SendStep
<1>2. CASE smp_send_broadcast_ici(c)
  <2>1. PICK m \in free_msgs, sync \in BOOLEAN :
           Send(c, m, [ref |-> Refs(c), sync |-> sync, done |-> FALSE,
                       bcast |-> TRUE, bitmap |-> Bitmap(c), to |-> Procs \ {c}])
    BY <1>2 DEF smp_send_broadcast_ici
  <2>2. PICK f : f = [ref |-> Refs(c), sync |-> sync, done |-> FALSE,
                      bcast |-> TRUE, bitmap |-> Bitmap(c), to |-> Procs \ {c}]
    OBVIOUS
  <2>3. m \in Msgs /\ Refs(c) \in Int /\ Refs(c) = Cardinality(Procs) - 1
    BY SmpAssumption, FS_CardinalityType DEF SmpInductive, SmpTypeOK, Refs
  <2>4. Fresh(c, f)
    BY <2>2, <2>3 DEF Fresh, Fields, Bitmap
  <2> QED BY <2>1, <2>2, <2>3, <2>4, SendStep
<1> QED BY <1>1, <1>2

-----------------------------------------------------------------------------
(* A posted message goes to a mailbox.                                     *)

(* What a CPU that posts a message knows of it.                            *)
LEMMA PostedMessage ==
    ASSUME SmpInductive, NEW c \in Procs, sender[c].pc = "post"
    PROVE  /\ sender[c].m \in Msgs /\ Posted(sender[c].m) /\ SentBy(sender[c].m, c)
<1>1. /\ sender[c].m \in Msgs /\ Phase(sender[c].m)
  BY SenderRecord DEF SmpInductive
<1>2. PICK m \in Msgs : m = sender[c].m
  BY <1>1
<1>3. ~NotSent(m) /\ \A d \in Procs : SentBy(m, d) => d = c
  BY <1>2 DEF NotSent, SentBy
<1>4. ~Awaited(m)
  BY <1>3 DEF Awaited
<1>5. Posted(m)
  BY <1>1, <1>2, <1>3, <1>4 DEF Phase, Free, InBox, Direct, InList, Cleaned, Done
<1> QED BY <1>2, <1>3, <1>5 DEF Posted

(* The message goes into a mailbox or, a broadcast, into the common list.  *)
LEMMA DeliverStep ==
    ASSUME SmpInductive, NEW c \in Procs, Deliver(c)
    PROVE  SmpInductive'
<1>1. PICK m \in Msgs : m = sender[c].m /\ Posted(m) /\ SentBy(m, c)
  BY PostedMessage DEF Deliver
<1>2. /\ SmpTypeOK /\ \A x \in Msgs : Phase(x)
      /\ NoMsg \notin Msgs /\ sender[c].pc = "post"
      /\ sender[c] = [pc |-> sender[c].pc, m |-> sender[c].m]
  BY SenderRecord, SmpAssumption DEF SmpInductive, Deliver, NoSend
<1>3. /\ free_msgs' = free_msgs /\ msg' = msg /\ server' = server /\ served' = served
  BY DEF Deliver
<1>4. PICK s : /\ s = IF msg[m].sync THEN [pc |-> "wait", m |-> m] ELSE NoSend
               /\ sender' = [sender EXCEPT ![c] = s]
  <2>1. sender' = [sender EXCEPT ![c] = IF msg[m].sync THEN [sender[c] EXCEPT !.pc = "wait"]
                                        ELSE NoSend]
    BY <1>1 DEF Deliver
  <2>2. [sender[c] EXCEPT !.pc = "wait"] = [pc |-> "wait", m |-> m]
    BY <1>1, <1>2
  <2> QED BY <2>1, <2>2
<1>5. /\ sender'[c] = s /\ \A d \in Procs : d # c => sender'[d] = sender[d]
      /\ s.m \in {m, NoMsg}
      /\ s \in Sending \cup {NoSend}
  <2>1. s \in Sending \cup {NoSend} /\ s.m \in {m, NoMsg}
    BY <1>4 DEF Sending, NoSend
  <2> QED BY <1>2, <1>4, <2>1 DEF SmpTypeOK
<1>6. sender' \in [Procs -> Sending \cup {NoSend}]
  BY <1>2, <1>4, <1>5 DEF SmpTypeOK
<1>7. Awaited(m)'
  <2>1. CASE msg[m].sync
    <3>1. s.m = m /\ s.pc = "wait"
      BY <1>4, <2>1
    <3>2. SentBy(m, c)' /\ sender'[c].pc = "wait"
      BY <1>1, <1>5, <3>1 DEF SentBy
    <3> QED BY <1>3, <2>1, <3>2 DEF Awaited
  <2>2. CASE ~msg[m].sync
    <3>1. s.m = NoMsg
      BY <1>4, <2>2 DEF NoSend
    <3>2. NotSent(m)'
      BY <1>1, <1>2, <1>5, <3>1 DEF SentBy, NotSent
    <3> QED BY <1>3, <2>2, <3>2 DEF Awaited
  <2> QED BY <2>1, <2>2
<1>8. /\ InFlight(m)' /\ NotServed(m)' /\ ~Listed(m) /\ NotBoxed(m) /\ NotServed(m)
  BY <1>1, <1>3 DEF Posted, InFlight, NotServed
<1>9. CASE msg[m].bcast
  <2>1. /\ smp_broadcast_msgs' = <<m>> \o smp_broadcast_msgs /\ smp_msgs' = smp_msgs
    BY <1>1, <1>9 DEF Deliver
  <2>2. /\ smp_broadcast_msgs' \in Seq(Msgs) /\ Distinct(smp_broadcast_msgs')
        /\ \A x : Contains(smp_broadcast_msgs', x) <=> Contains(smp_broadcast_msgs, x) \/ x = m
    BY <1>2, <1>8, <2>1, PrependDistinct DEF SmpTypeOK, Listed
  <2>3. SmpTypeOK'
    BY <1>2, <1>3, <1>6, <2>1, <2>2 DEF SmpTypeOK
  <2>4. \A x \in Msgs : x # m => Same(x)
    BY <1>1, <1>2, <1>3, <1>5, <2>1, <2>2 DEF Same
  <2>5. InList(m)'
    <3>1. PICK d \in Procs : /\ SentBy(m, d) /\ msg[m].bitmap = {d} /\ msg[m].to = Procs \ {d}
                              /\ msg[m].ref = Cardinality(Procs) - 1
      BY <1>1, <1>9 DEF Posted
    <3>2. Getters(m)' = {} /\ \A e \in Procs : server'[e].m # m
      BY <1>3, <1>8 DEF Getters, NotServed
    <3>3. Cardinality(Getters(m)') = 0
      BY <3>2, FS_EmptySet
    <3>4. Cardinality(Procs \ {d}) = Cardinality(Procs) - 1 /\ Cardinality(Procs \ {d}) \in Int
      BY SmpAssumption, FS_RemoveElement, FS_CardinalityType
    <3>5. msg'[m].ref = Cardinality(Procs \ msg'[m].bitmap) + Cardinality(Getters(m)')
      BY <1>3, <3>1, <3>3, <3>4
    <3>6. \A e \in msg'[m].to : e \notin msg'[m].bitmap
      BY <1>3, <3>1
    <3>7. Listed(m)' /\ NotBoxed(m)'
      BY <1>8, <2>1, <2>2 DEF Listed, NotBoxed
    <3> QED BY <1>3, <1>7, <1>8, <1>9, <3>2, <3>5, <3>6, <3>7 DEF InList
  <2> QED BY <1>2, <2>3, <2>4, <2>5, SamePhase DEF SmpInductive, Phase
<1>10. CASE ~msg[m].bcast
  <2>1. PICK t \in Procs : msg[m].to = {t} /\ msg[m].ref = 1
    BY <1>1, <1>10 DEF Posted
  <2>2. /\ smp_broadcast_msgs' = smp_broadcast_msgs
        /\ smp_msgs' = [d \in Procs |-> IF d \in msg[m].to THEN <<m>> \o smp_msgs[d]
                                         ELSE smp_msgs[d]]
    BY <1>1, <1>10 DEF Deliver
  <2>3. /\ smp_msgs'[t] = <<m>> \o smp_msgs[t]
        /\ \A d \in Procs : d # t => smp_msgs'[d] = smp_msgs[d]
        /\ DOMAIN smp_msgs' = Procs /\ smp_msgs' = [d \in Procs |-> smp_msgs'[d]]
    BY <2>1, <2>2
  <2>4. /\ smp_msgs'[t] \in Seq(Msgs) /\ Distinct(smp_msgs'[t])
        /\ \A x : Contains(smp_msgs'[t], x) <=> Contains(smp_msgs[t], x) \/ x = m
    BY <1>2, <1>8, <2>3, PrependDistinct DEF SmpTypeOK, NotBoxed
  <2>5. SmpTypeOK'
    BY <1>2, <1>3, <1>6, <2>2, <2>3, <2>4 DEF SmpTypeOK
  <2>6. \A x \in Msgs : x # m => Same(x)
    BY SMTT(30), <1>1, <1>2, <1>3, <1>5, <2>2, <2>3, <2>4 DEF Same
  <2>7. InBox(m)'
    <3>1. BoxOf(m, t)'
      BY <1>8, <2>3, <2>4 DEF BoxOf, NotBoxed
    <3>2. ~Listed(m)'
      BY <1>8, <2>2 DEF Listed
    <3> QED BY <1>3, <1>7, <1>8, <1>10, <2>1, <3>1, <3>2 DEF InBox
  <2> QED BY <1>2, <2>5, <2>6, <2>7, SamePhase DEF SmpInductive, Phase
<1> QED BY <1>9, <1>10

-----------------------------------------------------------------------------
(* The sender of a synchronous message puts it back.                       *)

(* A synchronous sender sees that its message is done.                     *)
LEMMA WaitOverStep ==
    ASSUME SmpInductive, NEW c \in Procs, WaitOver(c)
    PROVE  SmpInductive'
<1>1. PICK m \in Msgs : m = sender[c].m /\ Phase(m) /\ msg[m].done
  BY SenderRecord DEF SmpInductive, WaitOver
<1>2. ~NotSent(m)
  BY <1>1 DEF NotSent
<1>3. Done(m)
  BY <1>1, <1>2 DEF Phase, Free, Posted, InBox, Direct, InList, Cleaned, InFlight
<1>4. SentBy(m, c)
  BY <1>1, <1>3 DEF Done, Awaited, SentBy
<1>5. /\ SmpTypeOK /\ \A x \in Msgs : Phase(x)
      /\ NoMsg \notin Msgs
  BY SmpAssumption DEF SmpInductive
<1>6. /\ free_msgs' = free_msgs \cup {m} /\ sender' = [sender EXCEPT ![c] = NoSend]
      /\ sender'[c].m = NoMsg /\ \A d \in Procs : d # c => sender'[d] = sender[d]
      /\ smp_msgs' = smp_msgs /\ smp_broadcast_msgs' = smp_broadcast_msgs
      /\ msg' = msg /\ server' = server /\ served' = served
  BY <1>1, <1>5 DEF WaitOver, SmpTypeOK, NoSend
<1>7. SmpTypeOK'
  BY <1>5, <1>6 DEF SmpTypeOK
<1>8. \A x \in Msgs : x # m => Same(x)
  BY <1>1, <1>5, <1>6 DEF Same
<1>9. NotSent(m)'
  BY <1>4, <1>5, <1>6 DEF SentBy, NotSent
<1>10. Free(m)'
  BY <1>3, <1>6, <1>9 DEF Done, Free, NotBoxed, NotServed, Listed, AllServed
<1> QED BY <1>5, <1>7, <1>8, <1>10, SamePhase DEF SmpInductive, Phase

-----------------------------------------------------------------------------
(* A CPU takes a message.                                                  *)

(* A CPU that takes none changes no message.                               *)
LEMMA NoMessageStep ==
    ASSUME SmpInductive, NEW c \in Procs, server[c].pc \in {"no", "look"},
           \E s \in {NoServe, Looking} : server' = [server EXCEPT ![c] = s],
           UNCHANGED <<free_msgs, smp_msgs, smp_broadcast_msgs, msg, sender, served>>
    PROVE  SmpInductive'
<1>1. PICK s \in {NoServe, Looking} : server' = [server EXCEPT ![c] = s]
  OBVIOUS
<1>2. /\ SmpTypeOK /\ \A x \in Msgs : Phase(x)
      /\ NoMsg \notin Msgs /\ server[c].m = NoMsg
  BY ServerRecord, SmpAssumption DEF SmpInductive
<1>3. s.m = NoMsg
  BY DEF NoServe, Looking
<1>4. server'[c].m = NoMsg /\ \A d \in Procs : d # c => server'[d] = server[d]
  BY <1>1, <1>2, <1>3 DEF SmpTypeOK
<1>5. SmpTypeOK'
  <2>1. server' \in [Procs -> Serving \cup {NoServe, Looking}]
    BY <1>1, <1>2 DEF SmpTypeOK
  <2> QED BY <1>2, <2>1 DEF SmpTypeOK
<1>6. \A x \in Msgs : Same(x)
  BY <1>2, <1>4 DEF Same
<1> QED BY <1>2, <1>5, <1>6, SamePhase DEF SmpInductive

(* A CPU takes a message from its own mailbox.                             *)
LEMMA ProcessPendingStep ==
    ASSUME SmpInductive, NEW c \in Procs, smp_process_pending_ici(c)
    PROVE  SmpInductive'
<1>1. /\ SmpTypeOK /\ \A x \in Msgs : Phase(x)
      /\ NoMsg \notin Msgs /\ server[c].m = NoMsg /\ server[c].pc = "no"
  BY ServerRecord, SmpAssumption DEF SmpInductive, smp_process_pending_ici
<1>2. CASE smp_msgs[c] = <<>>
  BY <1>1, <1>2, NoMessageStep DEF smp_process_pending_ici, smp_check_for_message
<1>3. CASE smp_msgs[c] # <<>>
  <2>1. PICK m : m = Head(smp_msgs[c])
    OBVIOUS
  <2>2. /\ Tail(smp_msgs[c]) \in Seq(Msgs) /\ m \in Msgs /\ Contains(smp_msgs[c], m)
        /\ Distinct(Tail(smp_msgs[c]))
        /\ \A x : Contains(Tail(smp_msgs[c]), x) <=> Contains(smp_msgs[c], x) /\ x # m
    BY <1>1, <1>3, <2>1, TailDistinct DEF SmpTypeOK
  <2>3. InBox(m) /\ BoxOf(m, c) /\ msg[m].to = {c} /\ msg[m].ref = 1
    <3>1. ~NotBoxed(m) /\ \A d \in Procs : BoxOf(m, d) => d = c
      BY <2>2 DEF NotBoxed, BoxOf
    <3>2. InBox(m)
      BY <1>1, <2>2, <3>1 DEF Phase, Free, Posted, Direct, InList, Cleaned, Done
    <3> QED BY <3>1, <3>2 DEF InBox
  <2>4. PICK s : s = [pc |-> "got", m |-> m, bcast |-> FALSE]
    OBVIOUS
  <2>5. s \in Serving
    BY <2>2, <2>4 DEF Serving
  <2>6. /\ server' = [server EXCEPT ![c] = s]
        /\ smp_msgs' = [smp_msgs EXCEPT ![c] = Tail(smp_msgs[c])]
        /\ free_msgs' = free_msgs /\ smp_broadcast_msgs' = smp_broadcast_msgs
        /\ msg' = msg /\ sender' = sender /\ served' = served
    BY <1>3, <2>1, <2>4 DEF smp_process_pending_ici, smp_check_for_message
  <2>7. /\ server'[c] = s /\ \A d \in Procs : d # c => server'[d] = server[d]
        /\ smp_msgs'[c] = Tail(smp_msgs[c])
        /\ \A d \in Procs : d # c => smp_msgs'[d] = smp_msgs[d]
    BY <1>1, <2>6 DEF SmpTypeOK
  <2>8. SmpTypeOK'
    <3>1. server' \in [Procs -> Serving \cup {NoServe, Looking}]
      BY <1>1, <2>5, <2>6 DEF SmpTypeOK
    <3>2. smp_msgs' \in [Procs -> Seq(Msgs)]
      BY <1>1, <2>2, <2>6 DEF SmpTypeOK
    <3>3. \A d \in Procs : Distinct(smp_msgs'[d])
      BY <1>1, <2>2, <2>7 DEF SmpTypeOK
    <3> QED BY <1>1, <2>6, <3>1, <3>2, <3>3 DEF SmpTypeOK
  <2>9. \A x \in Msgs : x # m => Same(x)
    <3>1. s.m = m
      BY <2>4
    <3>2. \A x \in Msgs : x # m =>
             \A d \in Procs : server'[d].m = x \/ server[d].m = x => server'[d] = server[d]
      BY <1>1, <2>7, <3>1
    <3>3. \A x \in Msgs : x # m =>
             \A d \in Procs : Contains(smp_msgs'[d], x) <=> Contains(smp_msgs[d], x)
      BY <2>2, <2>7
    <3> QED BY <2>6, <3>2, <3>3 DEF Same
  <2>10. Direct(m)'
    <3>1. s.m = m /\ s.pc = "got" /\ ~s.bcast
      BY <2>4
    <3>2. ServedBy(m, c)' /\ server'[c].pc = "got" /\ ~server'[c].bcast
      BY <2>3, <2>7, <3>1 DEF ServedBy, InBox, NotServed
    <3>3. NotBoxed(m)'
      BY <2>2, <2>3, <2>7 DEF NotBoxed, BoxOf
    <3>4. InFlight(m)' /\ ~Listed(m)' /\ ~msg'[m].bcast
      BY <2>3, <2>6 DEF InBox, InFlight, Listed
    <3>5. Awaited(m)'
      BY <2>3, <2>6 DEF InBox, Awaited, SentBy, NotSent
    <3> QED BY <2>3, <2>6, <3>2, <3>3, <3>4, <3>5 DEF Direct
  <2> QED BY <1>1, <2>8, <2>9, <2>10, SamePhase DEF SmpInductive, Phase
<1> QED BY <1>2, <1>3

(* The broadcast that a CPU takes: it is in the list and the CPU's bit is  *)
(* not in its proc_bitmap.                                                 *)
LEMMA FirstUnmarked ==
    ASSUME SmpInductive, NEW c \in Procs, Unmarked(c) # {}
    PROVE  LET m == smp_broadcast_msgs[Min(Unmarked(c))]
           IN  m \in Msgs /\ InList(m) /\ c \notin msg[m].bitmap
<1>1. /\ SmpTypeOK /\ \A x \in Msgs : Phase(x)
      /\ smp_broadcast_msgs \in Seq(Msgs) /\ Len(smp_broadcast_msgs) \in Nat
  BY LenProperties DEF SmpInductive, SmpTypeOK
<1>2. PICK i : i = Min(Unmarked(c))
  OBVIOUS
<1>3. i \in Unmarked(c)
  <2>1. Unmarked(c) \in SUBSET Nat
    BY <1>1 DEF Unmarked
  <2> QED BY <1>2, <2>1, MinNat
<1>4. i \in 1 .. Len(smp_broadcast_msgs) /\ c \notin msg[smp_broadcast_msgs[i]].bitmap
  BY <1>3 DEF Unmarked
<1>5. PICK m : m = smp_broadcast_msgs[i]
  OBVIOUS
<1>6. m \in Msgs /\ Listed(m) /\ c \notin msg[m].bitmap
  BY <1>1, <1>4, <1>5, ElementOfSeq DEF Listed, Contains
<1>7. ~Cleaned(m)
  BY <1>6 DEF Cleaned
<1>8. InList(m)
  BY <1>1, <1>6, <1>7 DEF Phase, Free, Posted, InBox, Direct, Done
<1> QED BY <1>2, <1>5, <1>6, <1>8

(* A CPU takes the first broadcast it has not seen.                        *)
LEMMA CheckBroadcastStep ==
    ASSUME SmpInductive, NEW c \in Procs, CheckBroadcast(c)
    PROVE  SmpInductive'
<1>1. /\ SmpTypeOK /\ \A x \in Msgs : Phase(x)
      /\ NoMsg \notin Msgs /\ server[c].m = NoMsg /\ server[c].pc = "look"
  BY ServerRecord, SmpAssumption DEF SmpInductive, CheckBroadcast
<1>2. CASE Unmarked(c) = {}
  BY <1>1, <1>2, NoMessageStep DEF CheckBroadcast
<1>3. CASE Unmarked(c) # {}
  <2>1. PICK m \in Msgs : /\ m = smp_broadcast_msgs[Min(Unmarked(c))]
                          /\ InList(m) /\ c \notin msg[m].bitmap
    BY <1>3, FirstUnmarked
  <2>2. PICK s : s = [pc |-> "got", m |-> m, bcast |-> TRUE]
    OBVIOUS
  <2>3. s \in Serving /\ s.m = m /\ s.pc = "got" /\ s.bcast
    BY <2>2 DEF Serving
  <2>4. /\ server' = [server EXCEPT ![c] = s]
        /\ msg' = [msg EXCEPT ![m].bitmap = @ \cup {c}]
        /\ free_msgs' = free_msgs /\ smp_broadcast_msgs' = smp_broadcast_msgs
        /\ smp_msgs' = smp_msgs /\ sender' = sender /\ served' = served
    BY <1>3, <2>1, <2>2 DEF CheckBroadcast
  <2>5. /\ server'[c] = s /\ \A d \in Procs : d # c => server'[d] = server[d]
        /\ \A x \in Msgs : x # m => msg'[x] = msg[x]
        /\ msg[m] \in Fields /\ msg'[m] = [msg[m] EXCEPT !.bitmap = msg[m].bitmap \cup {c}]
    BY <1>1, <2>4 DEF SmpTypeOK
  <2>6. /\ msg'[m].bitmap = msg[m].bitmap \cup {c} /\ msg[m].bitmap \in SUBSET Procs
        /\ msg'[m].ref = msg[m].ref /\ msg[m].ref \in Int
        /\ msg'[m].done = msg[m].done /\ msg'[m].sync = msg[m].sync
        /\ msg'[m].bcast = msg[m].bcast /\ msg'[m].to = msg[m].to
        /\ msg'[m] \in Fields
    BY <2>5 DEF Fields
  <2>7. SmpTypeOK'
    <3>1. server' \in [Procs -> Serving \cup {NoServe, Looking}]
      BY <1>1, <2>3, <2>4 DEF SmpTypeOK
    <3>2. msg' \in [Msgs -> Fields]
      BY <1>1, <2>4, <2>5, <2>6 DEF SmpTypeOK
    <3> QED BY <1>1, <2>4, <3>1, <3>2 DEF SmpTypeOK
  <2>8. \A x \in Msgs : x # m => Same(x)
    BY <1>1, <2>3, <2>4, <2>5 DEF Same
  <2>9. InList(m)'
    <3>1. PICK G : G = Getters(m)
      OBVIOUS
    <3>2. Getters(m)' = G \cup {c} /\ c \notin G /\ G \subseteq Procs
      BY <1>1, <2>3, <2>5, <3>1 DEF Getters
    <3>3. PICK N : N = Procs \ msg[m].bitmap
      OBVIOUS
    <3>4. IsFiniteSet(G) /\ IsFiniteSet(N) /\ c \in N
      BY <2>1, <3>2, <3>3, SmpAssumption, FS_Subset
    <3>5. Cardinality(G \cup {c}) = Cardinality(G) + 1 /\ Cardinality(G) \in Int
      BY <3>2, <3>4, FS_AddElement, FS_CardinalityType
    <3>6. Cardinality(N \ {c}) = Cardinality(N) - 1 /\ Cardinality(N) \in Int
      BY <3>4, FS_RemoveElement, FS_CardinalityType
    <3>7. Procs \ msg'[m].bitmap = N \ {c}
      BY <2>6, <3>3
    <3>8. msg'[m].ref = Cardinality(N) + Cardinality(G)
      BY <2>1, <2>6, <3>1, <3>3 DEF InList
    <3>9. msg'[m].ref = Cardinality(N \ {c}) + Cardinality(G \cup {c})
      BY <3>5, <3>6, <3>8
    <3>10. msg'[m].ref = Cardinality(Procs \ msg'[m].bitmap) + Cardinality(Getters(m)')
      BY <3>2, <3>7, <3>9
    <3>11. \A d \in msg'[m].to : d \in msg'[m].bitmap => d \in served'[m] \/ d \in Getters(m)'
      BY <2>1, <2>4, <2>6, <3>1, <3>2 DEF InList
    <3>12. \A d \in Procs : server'[d].m = m => server'[d].bcast /\ server'[d].pc = "got"
      BY <2>1, <2>3, <2>5 DEF InList
    <3>13. InFlight(m)' /\ NotBoxed(m)' /\ Listed(m)' /\ msg'[m].bcast
      BY <2>1, <2>4, <2>6 DEF InList, InFlight, NotBoxed, Listed
    <3>14. Awaited(m)'
      BY <2>1, <2>4, <2>6 DEF InList, Awaited, SentBy, NotSent
    <3> QED BY <3>10, <3>11, <3>12, <3>13, <3>14 DEF InList
  <2> QED BY <1>1, <2>7, <2>8, <2>9, SamePhase DEF SmpInductive, Phase
<1> QED BY <1>2, <1>3

-----------------------------------------------------------------------------
(* A CPU serves the message it has.                                        *)

(* The phase of a message that a CPU serves.                               *)
LEMMA ServerPhase ==
    ASSUME SmpInductive, NEW c \in Procs, server[c].pc \in {"got", "clean", "hand"}
    PROVE  /\ server[c].m \in Msgs
           /\ \/ Direct(server[c].m) /\ ServedBy(server[c].m, c)
              \/ Cleaned(server[c].m) /\ ServedBy(server[c].m, c) /\ server[c].pc # "got"
              \/ InList(server[c].m) /\ server[c].pc = "got"
<1>1. PICK m \in Msgs : m = server[c].m /\ Phase(m)
  BY ServerRecord DEF SmpInductive
<1>2. ~NotServed(m) /\ \A d \in Procs : ServedBy(m, d) => d = c
  BY <1>1 DEF NotServed, ServedBy
<1>3. Direct(m) \/ Cleaned(m) \/ InList(m)
  BY <1>1, <1>2 DEF Phase, Free, Posted, InBox, Done
<1>4. CASE Direct(m)
  BY <1>1, <1>2, <1>4 DEF Direct
<1>5. CASE Cleaned(m)
  BY <1>1, <1>2, <1>5 DEF Cleaned
<1>6. CASE InList(m)
  BY <1>1, <1>6 DEF InList
<1> QED BY <1>1, <1>3, <1>4, <1>5, <1>6

(* A CPU does what the message asks and gives up its reference.            *)
LEMMA ObeyStep ==
    ASSUME SmpInductive, NEW c \in Procs, Obey(c)
    PROVE  SmpInductive'
<1>1. /\ SmpTypeOK /\ \A x \in Msgs : Phase(x)
      /\ NoMsg \notin Msgs /\ server[c].pc = "got" /\ server[c].bcast \in BOOLEAN
      /\ server[c] = [pc |-> server[c].pc, m |-> server[c].m, bcast |-> server[c].bcast]
  BY ServerRecord, SmpAssumption DEF SmpInductive, Obey
<1>2. PICK m \in Msgs : /\ m = server[c].m
                        /\ InList(m) \/ (Direct(m) /\ ServedBy(m, c))
  BY <1>1, ServerPhase
<1>3. PICK s : s = IF msg[m].ref = 1 THEN [pc |-> "clean", m |-> m, bcast |-> server[c].bcast]
                   ELSE NoServe
  OBVIOUS
<1>4. /\ s \in Serving \cup {NoServe, Looking}
      /\ msg[m].ref = 1 => s.m = m /\ s.pc = "clean" /\ s.bcast = server[c].bcast
      /\ msg[m].ref # 1 => s.m = NoMsg
  BY <1>1, <1>3 DEF Serving, NoServe
<1>5. /\ server' = [server EXCEPT ![c] = s]
      /\ msg' = [msg EXCEPT ![m].ref = @ - 1]
      /\ served' = [served EXCEPT ![m] = @ \cup {c}]
      /\ free_msgs' = free_msgs /\ smp_broadcast_msgs' = smp_broadcast_msgs
      /\ smp_msgs' = smp_msgs /\ sender' = sender
  <2>1. [server[c] EXCEPT !.pc = "clean"] = [pc |-> "clean", m |-> m, bcast |-> server[c].bcast]
    BY <1>1, <1>2
  <2>2. server' = [server EXCEPT ![c] = IF msg[m].ref = 1 THEN [server[c] EXCEPT !.pc = "clean"]
                                        ELSE NoServe]
    BY <1>2 DEF Obey, LastServer
  <2> QED BY <1>2, <1>3, <2>1, <2>2 DEF Obey
<1>6. /\ server'[c] = s /\ \A d \in Procs : d # c => server'[d] = server[d]
      /\ \A x \in Msgs : x # m => msg'[x] = msg[x] /\ served'[x] = served[x]
      /\ msg[m] \in Fields /\ msg'[m] = [msg[m] EXCEPT !.ref = msg[m].ref - 1]
      /\ served'[m] = served[m] \cup {c}
  BY <1>1, <1>5 DEF SmpTypeOK
<1>7. /\ msg'[m].bitmap = msg[m].bitmap /\ msg[m].to \in SUBSET Procs
      /\ msg'[m].ref = msg[m].ref - 1 /\ msg[m].ref \in Int
      /\ msg'[m].done = msg[m].done /\ msg'[m].sync = msg[m].sync
      /\ msg'[m].bcast = msg[m].bcast /\ msg'[m].to = msg[m].to
      /\ msg'[m] \in Fields
  BY <1>6 DEF Fields
<1>8. SmpTypeOK'
  <2>1. server' \in [Procs -> Serving \cup {NoServe, Looking}]
    BY <1>1, <1>4, <1>5 DEF SmpTypeOK
  <2>2. msg' \in [Msgs -> Fields]
    BY <1>1, <1>5, <1>6, <1>7 DEF SmpTypeOK
  <2>3. served' \in [Msgs -> SUBSET Procs]
    BY <1>1, <1>5 DEF SmpTypeOK
  <2> QED BY <1>1, <1>5, <2>1, <2>2, <2>3 DEF SmpTypeOK
<1>9. \A x \in Msgs : x # m => Same(x)
  <2>1. s.m \in {m, NoMsg}
    BY <1>4
  <2> QED BY <1>1, <1>2, <1>5, <1>6, <2>1 DEF Same
<1>10. InFlight(m)' /\ NotBoxed(m)' /\ Awaited(m)'
  <2>1. InFlight(m) /\ NotBoxed(m) /\ Awaited(m)
    BY <1>2 DEF InList, Direct
  <2> QED BY <1>5, <1>7, <2>1 DEF InFlight, NotBoxed, Awaited, SentBy, NotSent
<1>11. CASE Direct(m) /\ ServedBy(m, c)
  <2>1. /\ msg[m].to = {c} /\ msg[m].ref = 1 /\ ~server[c].bcast
        /\ ~Listed(m) /\ ~msg[m].bcast
    BY <1>1, <1>11 DEF Direct, ServedBy
  <2>2. ServedBy(m, c)' /\ server'[c].pc # "got" /\ ~server'[c].bcast
    BY <1>4, <1>6, <1>11, <2>1 DEF ServedBy
  <2>3. AllServed(m)' /\ ~Listed(m)'
    BY <1>5, <1>6, <1>7, <2>1 DEF AllServed, Listed
  <2>4. Direct(m)'
    BY <1>7, <1>10, <2>1, <2>2, <2>3 DEF Direct
  <2> QED BY <1>1, <1>8, <1>9, <2>4, SamePhase DEF SmpInductive, Phase
<1>12. CASE InList(m)
  <2>1. PICK G : G = Getters(m)
    OBVIOUS
  <2>2. PICK N : N = Procs \ msg[m].bitmap
    OBVIOUS
  <2>3. G \subseteq Procs /\ c \in G /\ \A d \in Procs : server[d].m = m <=> d \in G
    BY <1>1, <1>2, <1>12, <2>1 DEF Getters, InList
  <2>4. IsFiniteSet(G) /\ IsFiniteSet(N)
    BY <2>2, <2>3, SmpAssumption, FS_Subset
  <2>5. msg[m].ref = Cardinality(N) + Cardinality(G)
    BY <1>12, <2>1, <2>2 DEF InList
  <2>6. /\ Cardinality(G \ {c}) = Cardinality(G) - 1 /\ IsFiniteSet(G \ {c})
        /\ Cardinality(G) \in Nat /\ Cardinality(N) \in Nat /\ Cardinality(G \ {c}) \in Nat
    <3>1. Cardinality(G \ {c}) = Cardinality(G) - 1 /\ IsFiniteSet(G \ {c})
      BY <2>3, <2>4, FS_RemoveElement
    <3> QED BY <2>4, <3>1, FS_CardinalityType
  <2>7. \A d \in msg[m].to : d \in msg[m].bitmap => d \in served[m] \/ d \in G
    BY <1>12, <2>1 DEF InList
  <2>8. Listed(m)' /\ msg'[m].bcast
    BY <1>5, <1>7, <1>12 DEF InList, Listed
  <2>9. CASE msg[m].ref = 1
    <3>1. Cardinality(N) = 0 /\ Cardinality(G \ {c}) = 0
      BY <2>5, <2>6, <2>9
    <3>2. N = {} /\ G \ {c} = {}
      BY <2>4, <2>6, <3>1, FS_EmptySet
    <3>3. Procs \subseteq msg'[m].bitmap /\ msg'[m].ref = 0
      BY <1>7, <2>2, <2>9, <3>2
    <3>4. AllServed(m)'
      BY <1>6, <1>7, <2>2, <2>7, <3>2 DEF AllServed
    <3>5. ServedBy(m, c)' /\ server'[c].bcast /\ server'[c].pc = "clean"
      BY <1>2, <1>4, <1>6, <1>12, <2>3, <2>9, <3>2 DEF ServedBy, InList
    <3>6. Cleaned(m)'
      BY <1>10, <2>8, <3>3, <3>4, <3>5 DEF Cleaned
    <3> QED BY <1>1, <1>8, <1>9, <3>6, SamePhase DEF SmpInductive, Phase
  <2>10. CASE msg[m].ref # 1
    <3>1. server'[c].m = NoMsg
      BY <1>4, <1>6, <2>10
    <3>2. Getters(m)' = G \ {c}
      BY <1>1, <1>6, <2>1, <3>1 DEF Getters
    <3>3. msg'[m].ref = Cardinality(N) + Cardinality(G \ {c})
      BY <1>7, <2>5, <2>6
    <3>4. msg'[m].ref = Cardinality(Procs \ msg'[m].bitmap) + Cardinality(Getters(m)')
      BY <1>7, <2>2, <3>2, <3>3
    <3>5. \A d \in Procs : server'[d].m = m => server'[d].bcast /\ server'[d].pc = "got"
      BY <1>1, <1>6, <1>12, <3>1 DEF InList
    <3>6. \A d \in msg'[m].to : d \in msg'[m].bitmap => d \in served'[m] \/ d \in Getters(m)'
      BY <1>6, <1>7, <2>7, <3>2
    <3>7. InList(m)'
      BY <1>10, <2>8, <3>4, <3>5, <3>6 DEF InList
    <3> QED BY <1>1, <1>8, <1>9, <3>7, SamePhase DEF SmpInductive, Phase
  <2> QED BY <2>9, <2>10
<1> QED BY <1>2, <1>11, <1>12

(* The last server takes a broadcast out of the list.                      *)
LEMMA UnlinkStep ==
    ASSUME SmpInductive, NEW c \in Procs, Unlink(c)
    PROVE  SmpInductive'
<1>1. /\ SmpTypeOK /\ \A x \in Msgs : Phase(x)
      /\ NoMsg \notin Msgs /\ server[c].pc = "clean" /\ server[c].bcast \in BOOLEAN
      /\ server[c] = [pc |-> server[c].pc, m |-> server[c].m, bcast |-> server[c].bcast]
  BY ServerRecord, SmpAssumption DEF SmpInductive, Unlink
<1>2. PICK m \in Msgs : /\ m = server[c].m /\ ServedBy(m, c)
                        /\ Direct(m) \/ Cleaned(m)
  BY <1>1, ServerPhase
<1>3. PICK s : s = [pc |-> "hand", m |-> m, bcast |-> server[c].bcast]
  OBVIOUS
<1>4. s \in Serving /\ s.m = m /\ s.pc = "hand" /\ s.bcast = server[c].bcast
  BY <1>1, <1>3 DEF Serving
<1>5. /\ server' = [server EXCEPT ![c] = s]
      /\ smp_broadcast_msgs' = IF server[c].bcast THEN RemoveFirst(smp_broadcast_msgs, m)
                               ELSE smp_broadcast_msgs
      /\ free_msgs' = free_msgs /\ smp_msgs' = smp_msgs /\ msg' = msg
      /\ sender' = sender /\ served' = served
  <2>1. [server[c] EXCEPT !.pc = "hand"] = [pc |-> "hand", m |-> m, bcast |-> server[c].bcast]
    BY <1>1, <1>2
  <2>2. server' = [server EXCEPT ![c] = [server[c] EXCEPT !.pc = "hand"]]
    BY DEF Unlink
  <2> QED BY <1>2, <1>3, <2>1, <2>2 DEF Unlink
<1>6. server'[c] = s /\ \A d \in Procs : d # c => server'[d] = server[d]
  BY <1>1, <1>5 DEF SmpTypeOK
<1>7. /\ ServedBy(m, c)' /\ server'[c].pc = "hand" /\ server'[c].bcast = server[c].bcast
  BY <1>2, <1>4, <1>6 DEF ServedBy
<1>8. InFlight(m)' /\ NotBoxed(m)' /\ Awaited(m)' /\ AllServed(m)'
  <2>1. InFlight(m) /\ NotBoxed(m) /\ Awaited(m) /\ AllServed(m)
    <3>1. CASE Direct(m)
      BY <1>1, <1>2, <3>1 DEF Direct, ServedBy
    <3>2. CASE Cleaned(m)
      BY <3>2 DEF Cleaned
    <3> QED BY <1>2, <3>1, <3>2
  <2> QED BY <1>5, <2>1 DEF InFlight, NotBoxed, Awaited, SentBy, NotSent, AllServed
<1>9. server' \in [Procs -> Serving \cup {NoServe, Looking}]
  BY <1>1, <1>4, <1>5 DEF SmpTypeOK
<1>10. CASE Direct(m)
  <2>1. ~server[c].bcast /\ ~Listed(m) /\ ~msg[m].bcast
    BY <1>2, <1>10 DEF Direct, ServedBy
  <2>2. smp_broadcast_msgs' = smp_broadcast_msgs
    BY <1>5, <2>1
  <2>3. SmpTypeOK'
    BY <1>1, <1>5, <1>9, <2>2 DEF SmpTypeOK
  <2>4. \A x \in Msgs : x # m => Same(x)
    BY <1>2, <1>4, <1>5, <1>6, <2>2 DEF Same
  <2>5. Direct(m)'
    BY <1>5, <1>7, <1>8, <2>1, <2>2 DEF Direct, Listed
  <2> QED BY <1>1, <2>3, <2>4, <2>5, SamePhase DEF SmpInductive, Phase
<1>11. CASE Cleaned(m)
  <2>1. server[c].bcast /\ Listed(m) /\ msg[m].bcast
    BY <1>1, <1>2, <1>11 DEF Cleaned, ServedBy
  <2>2. PICK i \in 1 .. Len(smp_broadcast_msgs) :
           smp_broadcast_msgs[i] = m /\ smp_broadcast_msgs' = RemoveAt(smp_broadcast_msgs, i)
    BY <1>1, <1>5, <2>1, RemoveFirstAt DEF SmpTypeOK, Listed
  <2>3. /\ smp_broadcast_msgs' \in Seq(Msgs) /\ Distinct(smp_broadcast_msgs')
        /\ \A x : Contains(smp_broadcast_msgs', x) <=> Contains(smp_broadcast_msgs, x) /\ x # m
    BY <1>1, <2>2, RemoveAtElements, RemoveAtDistinct DEF SmpTypeOK
  <2>4. SmpTypeOK'
    BY <1>1, <1>5, <1>9, <2>3 DEF SmpTypeOK
  <2>5. \A x \in Msgs : x # m => Same(x)
    BY <1>2, <1>4, <1>5, <1>6, <2>3 DEF Same
  <2>6. Cleaned(m)'
    BY <1>5, <1>7, <1>8, <2>1, <2>3 DEF Cleaned, Listed
  <2> QED BY <1>1, <2>4, <2>5, <2>6, SamePhase DEF SmpInductive, Phase
<1> QED BY <1>2, <1>10, <1>11

(* The last server returns the message or tells the sender.                *)
LEMMA HandBackStep ==
    ASSUME SmpInductive, NEW c \in Procs, HandBack(c)
    PROVE  SmpInductive'
<1>1. /\ SmpTypeOK /\ \A x \in Msgs : Phase(x)
      /\ NoMsg \notin Msgs /\ server[c].pc = "hand"
  BY SmpAssumption DEF SmpInductive, HandBack
<1>2. PICK m \in Msgs : /\ m = server[c].m /\ ServedBy(m, c)
                        /\ Direct(m) \/ Cleaned(m)
  BY <1>1, ServerPhase
<1>3. /\ server' = [server EXCEPT ![c] = NoServe]
      /\ msg' = [msg EXCEPT ![m].done = msg[m].sync] /\ free_msgs' = PoolAfter(m)
      /\ smp_msgs' = smp_msgs /\ smp_broadcast_msgs' = smp_broadcast_msgs
      /\ sender' = sender /\ served' = served
  BY <1>2 DEF HandBack
<1>4. /\ server'[c].m = NoMsg /\ \A d \in Procs : d # c => server'[d] = server[d]
      /\ \A x \in Msgs : x # m => msg'[x] = msg[x]
      /\ msg[m] \in Fields /\ msg'[m] = [msg[m] EXCEPT !.done = msg[m].sync]
      /\ server' \in [Procs -> Serving \cup {NoServe, Looking}]
  BY <1>1, <1>3 DEF SmpTypeOK, NoServe
<1>5. /\ msg'[m].done = msg[m].sync /\ msg'[m].sync = msg[m].sync
      /\ msg'[m].to = msg[m].to /\ msg'[m] \in Fields
  BY <1>4 DEF Fields
<1>6. SmpTypeOK'
  <2>1. msg' \in [Msgs -> Fields]
    BY <1>1, <1>3, <1>4, <1>5 DEF SmpTypeOK
  <2>2. free_msgs' \in SUBSET Msgs
    BY <1>1, <1>3 DEF SmpTypeOK, PoolAfter
  <2> QED BY <1>1, <1>3, <1>4, <2>1, <2>2 DEF SmpTypeOK
<1>7. \A x \in Msgs : x # m => Same(x)
  BY <1>1, <1>2, <1>3, <1>4 DEF Same, PoolAfter
<1>8. m \notin free_msgs /\ NotBoxed(m) /\ Awaited(m) /\ AllServed(m) /\ ~Listed(m)
  <2>1. CASE Direct(m)
    BY <1>1, <1>2, <2>1 DEF Direct, ServedBy, InFlight
  <2>2. CASE Cleaned(m)
    BY <1>1, <1>2, <2>2 DEF Cleaned, ServedBy, InFlight
  <2> QED BY <1>2, <2>1, <2>2
<1>9. NotServed(m)' /\ NotBoxed(m)' /\ AllServed(m)' /\ ~Listed(m)' /\ Awaited(m)'
  <2>1. NotServed(m)'
    BY <1>1, <1>2, <1>4 DEF ServedBy, NotServed
  <2>2. Awaited(m)'
    BY <1>3, <1>5, <1>8 DEF Awaited, SentBy, NotSent
  <2> QED BY <1>3, <1>5, <1>8, <2>1, <2>2 DEF NotBoxed, AllServed, Listed
<1>10. Free(m)' \/ Done(m)'
  <2>1. CASE msg[m].sync
    BY <1>3, <1>5, <1>8, <1>9, <2>1 DEF Done, PoolAfter
  <2>2. CASE ~msg[m].sync
    BY <1>3, <1>5, <1>9, <2>2 DEF Free, PoolAfter, Awaited
  <2> QED BY <2>1, <2>2
<1> QED BY <1>1, <1>6, <1>7, <1>10, SamePhase DEF SmpInductive, Phase

-----------------------------------------------------------------------------
(* The invariant holds at the start and through every step.                *)

(* In the initial states every message is free.                            *)
LEMMA SmpInit == smp_init => SmpInductive
<1> SUFFICES ASSUME smp_init PROVE SmpInductive
  OBVIOUS
<1>1. /\ NoMsg \notin Msgs /\ <<>> \in Seq(Msgs) /\ Distinct(<<>>) /\ \A x : ~Contains(<<>>, x)
  BY SmpAssumption DEF Distinct, Contains
<1>2. SmpTypeOK
  <2>1. msg \in [Msgs -> Fields]
    BY DEF smp_init, Fields
  <2> QED BY <1>1, <2>1 DEF smp_init, SmpTypeOK
<1>3. ASSUME NEW m \in Msgs PROVE Free(m)
  <2>1. NotSent(m) /\ NotServed(m)
    BY <1>1 DEF smp_init, NotSent, NotServed, NoSend, NoServe
  <2>2. NotBoxed(m) /\ ~Listed(m)
    BY <1>1 DEF smp_init, NotBoxed, Listed
  <2> QED BY <2>1, <2>2 DEF smp_init, Free, AllServed
<1> QED BY <1>2, <1>3 DEF SmpInductive, Phase

(* Every step of smp.c leaves each message in one phase.                   *)
LEMMA SmpStep == SmpInductive /\ [SmpNext]_smpVars => SmpInductive'
<1> SUFFICES ASSUME SmpInductive, [SmpNext]_smpVars PROVE SmpInductive'
  OBVIOUS
<1>1. CASE SmpNext
  BY <1>1, SendIciStep, DeliverStep, WaitOverStep, ProcessPendingStep, CheckBroadcastStep,
     ObeyStep, UnlinkStep, HandBackStep DEF SmpNext
<1>2. CASE UNCHANGED smpVars
  <2>1. \A x \in Msgs : Same(x)
    BY <1>2 DEF smpVars, Same
  <2>2. SmpTypeOK'
    BY <1>2 DEF smpVars, SmpInductive, SmpTypeOK
  <2> QED BY <2>1, <2>2, SamePhase DEF SmpInductive
<1> QED BY <1>1, <1>2

(* Every message of smp.c is always in one phase of its life: in the pool, *)
(* with its sender, in a mailbox, with the CPU that serves it, in the list *)
(* of broadcasts, or done.                                                 *)
THEOREM SmpInvariant == SmpSpec => []SmpInductive
<1> QED BY SmpInit, SmpStep, PTL DEF SmpSpec

-----------------------------------------------------------------------------
(* What the phases say of the properties.                                  *)

(* The messages of the broadcast list, as a set.                           *)
LEMMA ListedSet ==
    ASSUME SmpTypeOK, NEW m
    PROVE  m \in ToSet(smp_broadcast_msgs) <=> Listed(m)
<1>1. DOMAIN smp_broadcast_msgs = 1 .. Len(smp_broadcast_msgs)
  BY LenProperties DEF SmpTypeOK
<1> QED BY <1>1 DEF ToSet, Listed, Contains

(* The sender of a message that is on its way does not keep it.            *)
LEMMA AwaitedSender ==
    ASSUME NEW m, InFlight(m), Awaited(m)
    PROVE  \A d \in Procs : ~(sender[d].m = m /\ (sender[d].pc = "post" \/ msg[m].done))
BY DEF InFlight, Awaited, SentBy, NotSent

(* Every phase has one keeper.                                             *)
LEMMA OneKeeper ==
    ASSUME SmpInductive, NEW m \in Msgs
    PROVE  \E k : Keepers(m) = {k}
<1> DEFINE F == {<<"free">> : x \in {m} \cap free_msgs}
           sends(d) == sender[d].m = m /\ (sender[d].pc = "post" \/ msg[m].done)
           S == {<<"sender", c>> : c \in {d \in Procs : sends(d)}}
           B == {<<"box", c>> : c \in {d \in Procs : Contains(smp_msgs[d], m)}}
           L == {<<"bcast">> : x \in {m} \cap ToSet(smp_broadcast_msgs)}
           serves(d) == server[d].m = m /\ (~server[d].bcast \/ server[d].pc = "hand")
           V == {<<"server", c>> : c \in {d \in Procs : serves(d)}}
<1>1. Keepers(m) = F \cup S \cup B \cup L \cup V
  BY DEF Keepers
<1>2. F = (IF m \in free_msgs THEN {<<"free">>} ELSE {})
  OBVIOUS
<1>3. L = (IF Listed(m) THEN {<<"bcast">>} ELSE {})
  BY ListedSet DEF SmpInductive
<1>4. /\ (\A d \in Procs : ~sends(d)) => S = {}
      /\ \A c \in Procs : (\A d \in Procs : sends(d) <=> d = c) => S = {<<"sender", c>>}
  OBVIOUS
<1>5. /\ NotBoxed(m) => B = {}
      /\ \A c \in Procs : BoxOf(m, c) => B = {<<"box", c>>}
  BY DEF NotBoxed, BoxOf
<1>6. /\ (\A d \in Procs : ~serves(d)) => V = {}
      /\ \A c \in Procs : (\A d \in Procs : serves(d) <=> d = c) => V = {<<"server", c>>}
  OBVIOUS
<1>7. NotSent(m) => \A d \in Procs : ~sends(d)
  BY DEF NotSent
<1>8. NotServed(m) => \A d \in Procs : ~serves(d)
  BY DEF NotServed
<1>9. InFlight(m) /\ Awaited(m) => \A d \in Procs : ~sends(d)
  BY AwaitedSender
<1> HIDE DEF F, S, B, L, V, sends, serves
<1>10. CASE Free(m)
  BY <1>1, <1>2, <1>3, <1>4, <1>5, <1>6, <1>7, <1>8, <1>10 DEF Free
<1>11. CASE Posted(m)
  <2>1. PICK c \in Procs : SentBy(m, c) /\ sender[c].pc = "post"
    BY <1>11 DEF Posted
  <2>2. \A d \in Procs : sends(d) <=> d = c
    BY <2>1 DEF sends, SentBy
  <2> QED BY ZenonT(30), <1>1, <1>2, <1>3, <1>4, <1>5, <1>6, <1>8, <1>11, <2>2 DEF Posted, InFlight
<1>12. CASE InBox(m)
  BY ZenonT(30), <1>1, <1>2, <1>3, <1>4, <1>5, <1>6, <1>8, <1>9, <1>12 DEF InBox, InFlight
<1>13. CASE Direct(m)
  <2>1. PICK c \in Procs : ServedBy(m, c) /\ ~server[c].bcast
    BY <1>13 DEF Direct
  <2>2. \A d \in Procs : serves(d) <=> d = c
    BY <2>1 DEF serves, ServedBy
  <2> QED BY <1>1, <1>2, <1>3, <1>4, <1>5, <1>6, <1>9, <1>13, <2>2 DEF Direct, InFlight
<1>14. CASE InList(m)
  <2>1. \A d \in Procs : ~serves(d)
    BY <1>14 DEF InList, serves
  <2> QED BY <1>1, <1>2, <1>3, <1>4, <1>5, <1>6, <1>9, <1>14, <2>1 DEF InList, InFlight
<1>15. CASE Cleaned(m)
  <2>1. PICK c \in Procs : /\ ServedBy(m, c) /\ server[c].bcast
                            /\ \/ server[c].pc = "clean" /\ Listed(m)
                               \/ server[c].pc = "hand" /\ ~Listed(m)
    BY <1>15 DEF Cleaned
  <2>2. CASE Listed(m)
    <3>1. \A d \in Procs : ~serves(d)
      BY <2>1, <2>2 DEF serves, ServedBy
    <3> QED BY <1>1, <1>2, <1>3, <1>4, <1>5, <1>6, <1>9, <1>15, <2>2, <3>1 DEF Cleaned, InFlight
  <2>3. CASE ~Listed(m)
    <3>1. \A d \in Procs : serves(d) <=> d = c
      BY <2>1, <2>3 DEF serves, ServedBy
    <3> QED BY <1>1, <1>2, <1>3, <1>4, <1>5, <1>6, <1>9, <1>15, <2>3, <3>1 DEF Cleaned, InFlight
  <2> QED BY <2>2, <2>3
<1>16. CASE Done(m)
  <2>1. PICK c \in Procs : SentBy(m, c)
    BY <1>16 DEF Done, Awaited
  <2>2. \A d \in Procs : sends(d) <=> d = c
    BY <1>16, <2>1 DEF sends, SentBy, Done
  <2> QED BY <1>1, <1>2, <1>3, <1>4, <1>5, <1>6, <1>8, <1>16, <2>2 DEF Done
<1> QED BY <1>10, <1>11, <1>12, <1>13, <1>14, <1>15, <1>16 DEF SmpInductive, Phase

(* The count of a broadcast is the number of CPUs still to serve it.       *)
LEMMA RefsCount ==
    ASSUME SmpInductive PROVE BroadcastRefs
<1>1. ASSUME NEW m \in ToSet(smp_broadcast_msgs)
      PROVE  msg[m].ref = Cardinality(Procs \ msg[m].bitmap) + Cardinality(Getters(m))
  <2>1. Listed(m) /\ m \in Msgs
    <3>1. Listed(m) /\ smp_broadcast_msgs \in Seq(Msgs)
      BY ListedSet DEF SmpInductive, SmpTypeOK
    <3> QED BY <3>1, ElementOfSeq DEF Listed, Contains
  <2>2. InList(m) \/ Cleaned(m)
    BY <2>1 DEF SmpInductive, Phase, Free, Posted, InBox, Direct, Done
  <2>3. CASE InList(m)
    BY <2>3 DEF InList
  <2>4. CASE Cleaned(m)
    <3>1. PICK c \in Procs : /\ ServedBy(m, c) /\ server[c].pc = "clean"
                              /\ msg[m].ref = 0 /\ Procs \subseteq msg[m].bitmap
      BY <2>1, <2>4 DEF Cleaned
    <3>2. Getters(m) = {} /\ Procs \ msg[m].bitmap = {}
      BY <3>1 DEF ServedBy, Getters
    <3>3. Cardinality(Getters(m)) = 0 /\ Cardinality(Procs \ msg[m].bitmap) = 0
      BY <3>2, FS_EmptySet
    <3> QED BY <3>1, <3>3
  <2> QED BY <2>2, <2>3, <2>4
<1>2. ASSUME NEW c \in Procs PROVE server[c].m \notin free_msgs
  <2>1. SUFFICES ASSUME server[c].m \in free_msgs PROVE FALSE
    OBVIOUS
  <2>2. PICK m \in Msgs : m = server[c].m /\ m \in free_msgs /\ Phase(m)
    BY <2>1 DEF SmpInductive, SmpTypeOK
  <2>3. NotServed(m)
    BY <2>2 DEF Phase, Free, Posted, InBox, Direct, InList, Cleaned, Done, InFlight
  <2> QED BY <2>2, <2>3 DEF NotServed
<1> QED BY <1>1, <1>2 DEF BroadcastRefs, Getters

(* No inter-CPU message is lost or has two users, and the ref_count of a   *)
(* broadcast counts those who still have to serve it, for any number of    *)
(* CPUs and messages.                                                      *)
THEOREM MessagesKeptAlways == SmpSpec => []MessagesKept
<1>1. SmpInductive => MessagesKept
  <2> SUFFICES ASSUME SmpInductive PROVE MessagesKept
    OBVIOUS
  <2>1. \A m \in Msgs : Cardinality(Keepers(m)) = 1
    BY OneKeeper, FS_Singleton
  <2> QED BY <2>1, RefsCount DEF MessagesKept, MessageInOnePlace
<1> QED BY <1>1, SmpInvariant, PTL

(* A sender that is told `done', and a pool that gets a message back, know *)
(* that every CPU it was for has obeyed it.                                *)
THEOREM ServedByAllAlways == SmpSpec => []ServedByAll
<1>1. SmpInductive => ServedByAll
  <2> SUFFICES ASSUME SmpInductive, NEW m \in Msgs, m \in free_msgs \/ msg[m].done
               PROVE  msg[m].to \subseteq served[m]
    BY DEF ServedByAll
  <2>1. Free(m) \/ Done(m)
    BY DEF SmpInductive, Phase, Posted, InBox, Direct, InList, Cleaned, InFlight
  <2> QED BY <2>1 DEF Free, Done, AllServed
<1> QED BY <1>1, SmpInvariant, PTL

-----------------------------------------------------------------------------
(* Timer.  The inductive invariant.                                        *)

Modes == [periodic : BOOLEAN, period : Nat]
HandlerPcs == {"no", "scan", "call", "local", "head", "others", "null"}
CancelPcs == {"local", "head", "others", "null"}

TimerTypeOK ==
    /\ events \in [TimerCpus -> Seq(Events)] /\ sched_time \in [Events -> Nat]
    /\ mode \in [Events -> Modes] /\ armed \in SUBSET TimerCpus /\ clock \in Nat \ {0}
    /\ owner \in [Events -> {"unset", "setting", "set", "cancelling"}]
    /\ handler \in [TimerCpus -> [pc : HandlerPcs, ev : Events \cup {NoEvent}, now : Nat,
                                  mode : Modes, at : Nat]]

(* A list in the order of sched_time.                                      *)
InOrder(s, f) == \A i, j \in 1 .. Len(s) : i < j => f[s[i]] <= f[s[j]]

(* An event is in one list, once, and is scheduled and its owner's then.   *)
ListInv ==
    /\ \A c \in TimerCpus : Distinct(events[c]) /\ InOrder(events[c], sched_time)
    /\ \A c, d \in TimerCpus : \A e \in Events :
          Contains(events[c], e) /\ Contains(events[d], e) => c = d
    /\ \A c \in TimerCpus : \A e \in Events :
          Contains(events[c], e) => owner[e] \in {"set", "cancelling"} /\ sched_time[e] # 0

(* An event that is about to be put into a list has its time.              *)
SettingInv == \A e \in Events : owner[e] = "setting" => sched_time[e] # 0

(* c will put the periodic event e back into its list.                     *)
PutsBack(c, e) == handler[c].pc = "call" /\ handler[c].ev = e /\ handler[c].mode.periodic

(* It does so alone, and the event stays its owner's until then.           *)
CallInv ==
    /\ \A e \in Events : mode[e].periodic => owner[e] \in {"setting", "set"}
    /\ \A c \in TimerCpus : handler[c].pc = "call" => handler[c].ev \in Events
    /\ \A c \in TimerCpus : \A e \in Events : PutsBack(c, e) =>
          mode[e].periodic /\ owner[e] = "set" /\ ~Linked(e)
    /\ \A c, d \in TimerCpus : \A e \in Events : PutsBack(c, e) /\ PutsBack(d, e) => c = d

(* c cancels the event e.                                                  *)
Cancels(c, e) == handler[c].pc \in CancelPcs /\ handler[c].ev = e

(* An event is cancelled by one CPU, which has not found it in the lists   *)
(* that it has been through.                                               *)
CancelInv ==
    /\ \A c \in TimerCpus : handler[c].pc \in CancelPcs => handler[c].ev \in Events
    /\ \A c \in TimerCpus : \A e \in Events : Cancels(c, e) => owner[e] = "cancelling"
    /\ \A c, d \in TimerCpus : \A e \in Events : Cancels(c, e) /\ Cancels(d, e) => c = d
    /\ \A c \in TimerCpus : \A e \in Events : Cancels(c, e) /\ handler[c].pc # "local" =>
          ~Contains(events[c], e)
    /\ \A c, d \in TimerCpus : \A e \in Events :
          Cancels(c, e) /\ d < handler[c].at => ~Contains(events[d], e)

(* The hardware timer of a CPU with events is set, or will be at the end   *)
(* of the scan.                                                            *)
ArmedInv ==
    \A c \in TimerCpus : events[c] # <<>> /\ handler[c].pc \notin {"scan", "call"} => c \in armed

TimerInductive ==
    TimerTypeOK /\ ListInv /\ SettingInv /\ CallInv /\ CancelInv /\ ArmedInv

-----------------------------------------------------------------------------
(* The lists.                                                              *)

(* add_event_to_list keeps a list sorted.                                  *)
LEMMA AddedList ==
    ASSUME TimerTypeOK, NEW s \in Seq(Events), Distinct(s), InOrder(s, sched_time),
           NEW e \in Events, ~Contains(s, e), NEW t \in Nat, NEW f \in [Events -> Nat],
           f[e] = t, \A x \in Events : x # e => f[x] = sched_time[x]
    PROVE  /\ Added(e, t, s) \in Seq(Events) /\ Distinct(Added(e, t, s))
           /\ InOrder(Added(e, t, s), f) /\ Added(e, t, s) # <<>>
           /\ \A x : Contains(Added(e, t, s), x) <=> Contains(s, x) \/ x = e
           /\ s = <<>> => Head(Added(e, t, s)) = e
<1> DEFINE I == {i \in 1 .. Len(s) + 1 : i <= Len(s) => sched_time[s[i]] >= t}
           k == Min(I)
           r == InsertAt(s, k, e)
<1>1. /\ Len(s) \in Nat /\ (s = <<>> => Len(s) = 0)
      /\ \A i \in 1 .. Len(s) : s[i] \in Events /\ s[i] # e /\ sched_time[s[i]] \in Nat
                                 /\ f[s[i]] = sched_time[s[i]]
  <2>1. Len(s) \in Nat /\ (s = <<>> => Len(s) = 0)
    BY LenProperties, EmptySeq
  <2>2. \A i \in 1 .. Len(s) : s[i] \in Events /\ s[i] # e
    BY ElementOfSeq DEF Contains
  <2> QED BY <2>1, <2>2 DEF TimerTypeOK
<1>2. I \in SUBSET Nat /\ Len(s) + 1 \in I
  BY <1>1
<1>3. k \in I /\ \A i \in I : k <= i
  BY <1>2, MinNat
<1>4. /\ k \in 1 .. Len(s) + 1 /\ (k <= Len(s) => f[s[k]] >= t)
      /\ \A i \in 1 .. Len(s) : i < k => f[s[i]] < t
  <2>1. k \in 1 .. Len(s) + 1 /\ (k <= Len(s) => sched_time[s[k]] >= t)
    BY <1>3
  <2>2. ASSUME NEW i \in 1 .. Len(s), i < k PROVE f[s[i]] < t
    <3>1. i \in 1 .. Len(s) + 1 /\ i <= Len(s) /\ i \notin I
      <4>1. i \in Int /\ k \in Int /\ ~(k <= i)
        BY <1>1, <2>1, <2>2
      <4> HIDE DEF k
      <4> QED BY <1>1, <1>3, <4>1
    <3>2. ~(sched_time[s[i]] >= t) /\ sched_time[s[i]] \in Nat
      BY <1>1, <3>1
    <3> QED BY <1>1, <3>2
  <2> HIDE DEF k
  <2>3. k <= Len(s) => k \in 1 .. Len(s)
    BY <1>1, <2>1
  <2> QED BY <1>1, <2>1, <2>2, <2>3
<1> HIDE DEF I, k
<1>5. /\ r \in Seq(Events) /\ Len(r) = Len(s) + 1
      /\ \A j \in 1 .. Len(s) + 1 :
            r[j] = IF j < k THEN s[j] ELSE IF j = k THEN e ELSE s[j - 1]
  <2>1. k \in 1 .. Len(s) + 1
    BY <1>4
  <2> QED BY <2>1, InsertAtElements
<1>6. /\ Distinct(r) /\ \A x : Contains(r, x) <=> Contains(s, x) \/ x = e
  BY <1>4, InsertAtDistinct
<1>7. Added(e, t, s) = r
  BY DEF Added, I, k
<1> HIDE DEF r
<1>8. InOrder(r, f)
  <2> SUFFICES ASSUME NEW i \in 1 .. Len(r), NEW j \in 1 .. Len(r), i < j
               PROVE  f[r[i]] <= f[r[j]]
    BY DEF InOrder
  <2>1. \A m, n \in 1 .. Len(s) : m < n => f[s[m]] <= f[s[n]]
    BY <1>1 DEF InOrder
  <2>2. \A m \in 1 .. Len(s) : f[s[m]] \in Nat
    BY <1>1
  <2>3. \A m \in 1 .. Len(s) : m >= k => f[s[m]] >= t
    <3> SUFFICES ASSUME NEW m \in 1 .. Len(s), m >= k PROVE f[s[m]] >= t
      OBVIOUS
    <3>1. k \in 1 .. Len(s) /\ f[s[k]] >= t
      BY <1>1, <1>4
    <3>2. m = k \/ f[s[k]] <= f[s[m]]
      BY <1>1, <2>1, <3>1
    <3> QED BY <2>2, <3>1, <3>2
  <2>4. CASE j < k
    <3>1. i \in 1 .. Len(s) /\ j \in 1 .. Len(s) /\ r[i] = s[i] /\ r[j] = s[j]
      BY SMTT(30), <1>1, <1>4, <1>5, <2>4
    <3> QED BY <2>1, <3>1
  <2>5. CASE j = k
    <3>1. i \in 1 .. Len(s) /\ r[i] = s[i] /\ r[j] = e /\ f[s[i]] < t
      BY <1>1, <1>4, <1>5, <2>5
    <3> QED BY <2>2, <3>1
  <2>6. CASE j > k
    <3>1. j - 1 \in 1 .. Len(s) /\ r[j] = s[j - 1] /\ f[s[j - 1]] >= t
      BY <1>1, <1>4, <1>5, <2>3, <2>6
    <3>2. CASE i < k
      <4>1. i \in 1 .. Len(s) /\ r[i] = s[i] /\ i < j - 1
        BY <1>1, <1>4, <1>5, <2>6, <3>2
      <4> QED BY <2>1, <3>1, <4>1
    <3>3. CASE i = k
      BY SMTT(30), <1>4, <1>5, <2>2, <3>1, <3>3
    <3>4. CASE i > k
      <4>1. i - 1 \in 1 .. Len(s) /\ r[i] = s[i - 1] /\ i - 1 < j - 1
        BY <1>1, <1>4, <1>5, <3>4
      <4> QED BY <2>1, <3>1, <4>1
    <3> QED BY <1>4, <1>5, <3>2, <3>3, <3>4
  <2> QED BY <1>4, <1>5, <2>4, <2>5, <2>6
<1>9. r # <<>> /\ (s = <<>> => Head(r) = e)
  <2>1. r # <<>>
    BY <1>1, <1>5, EmptySeq
  <2>2. s = <<>> => k = 1 /\ r[1] = e
    BY <1>1, <1>4, <1>5
  <2> QED BY <1>5, <2>1, <2>2, HeadTailProperties
<1> QED BY <1>5, <1>6, <1>7, <1>8, <1>9

(* So does taking an event out of it.                                      *)
LEMMA UnlinkedList ==
    ASSUME NEW s \in Seq(Events), Distinct(s), NEW f \in [Events -> Nat], InOrder(s, f),
           NEW e \in Events, Contains(s, e)
    PROVE  /\ Unlinked(e, s) \in Seq(Events) /\ Distinct(Unlinked(e, s))
           /\ InOrder(Unlinked(e, s), f)
           /\ \A x : Contains(Unlinked(e, s), x) <=> Contains(s, x) /\ x # e
<1>1. PICK i \in 1 .. Len(s) : s[i] = e /\ RemoveFirst(s, e) = RemoveAt(s, i)
  BY RemoveFirstAt
<1> DEFINE r == RemoveAt(s, i)
<1>2. /\ r \in Seq(Events) /\ Len(r) = Len(s) - 1 /\ Len(s) \in Nat
      /\ \A j \in 1 .. Len(s) - 1 : r[j] = IF j < i THEN s[j] ELSE s[j + 1]
  BY RemoveAtElements, LenProperties
<1>3. /\ Distinct(r) /\ \A x : Contains(r, x) <=> Contains(s, x) /\ x # e
  BY <1>1, RemoveAtDistinct
<1>4. Unlinked(e, s) = r
  BY <1>1 DEF Unlinked
<1> HIDE DEF r
<1>5. InOrder(r, f)
  <2> SUFFICES ASSUME NEW j \in 1 .. Len(r), NEW k \in 1 .. Len(r), j < k
               PROVE  f[r[j]] <= f[r[k]]
    BY DEF InOrder
  <2>1. \E m, n \in 1 .. Len(s) : m < n /\ r[j] = s[m] /\ r[k] = s[n]
    <3>1. /\ j \in 1 .. Len(s) /\ j + 1 \in 1 .. Len(s) /\ k \in 1 .. Len(s)
          /\ k + 1 \in 1 .. Len(s) /\ j < k + 1 /\ j + 1 < k + 1
      BY SMTT(30), <1>2
    <3>2. /\ r[j] = IF j < i THEN s[j] ELSE s[j + 1]
          /\ r[k] = IF k < i THEN s[k] ELSE s[k + 1]
      BY <1>2
    <3>3. k < i => j < i
      BY <1>2
    <3> QED BY <3>1, <3>2, <3>3
  <2> QED BY <2>1 DEF InOrder
<1> QED BY <1>2, <1>3, <1>4, <1>5

(* And so does taking the head.                                            *)
LEMMA TailList ==
    ASSUME NEW s \in Seq(Events), Distinct(s), NEW f \in [Events -> Nat], InOrder(s, f),
           s # <<>>
    PROVE  /\ Tail(s) \in Seq(Events) /\ Head(s) \in Events /\ Contains(s, Head(s))
           /\ Distinct(Tail(s)) /\ InOrder(Tail(s), f)
           /\ \A x : Contains(Tail(s), x) <=> Contains(s, x) /\ x # Head(s)
<1>1. InOrder(Tail(s), f)
  <2>1. /\ Len(Tail(s)) = Len(s) - 1 /\ Len(s) \in Nat
        /\ \A j \in 1 .. Len(Tail(s)) : Tail(s)[j] = s[j + 1]
    BY HeadTailProperties, LenProperties
  <2> DEFINE r == Tail(s)
  <2>2. Len(r) = Len(s) - 1 /\ \A j \in 1 .. Len(r) : r[j] = s[j + 1]
    BY <2>1
  <2> HIDE DEF r
  <2> SUFFICES ASSUME NEW j \in 1 .. Len(r), NEW k \in 1 .. Len(r), j < k
               PROVE  f[r[j]] <= f[r[k]]
    BY DEF InOrder, r
  <2>3. /\ j + 1 \in 1 .. Len(s) /\ k + 1 \in 1 .. Len(s) /\ j + 1 < k + 1
        /\ r[j] = s[j + 1] /\ r[k] = s[k + 1]
    BY <2>1, <2>2
  <2> QED BY <2>3 DEF InOrder
<1> QED BY <1>1, TailDistinct

(* An order of the elements of a list depends on their values only.        *)
LEMMA OrderOf ==
    ASSUME NEW s \in Seq(Events), NEW f, NEW g, InOrder(s, f),
           \A x \in Events : Contains(s, x) => g[x] = f[x]
    PROVE  InOrder(s, g)
<1>1. \A i \in 1 .. Len(s) : g[s[i]] = f[s[i]]
  BY ElementOfSeq DEF Contains
<1> QED BY <1>1 DEF InOrder

(* The list of one CPU changes; the events of the others keep their time   *)
(* and their owner.                                                        *)
LEMMA ListStep ==
    ASSUME TimerTypeOK, ListInv, NEW c \in TimerCpus, NEW r \in Seq(Events),
           events' = [events EXCEPT ![c] = r], Distinct(r), InOrder(r, sched_time'),
           \A e \in Events : Contains(r, e) =>
              /\ Contains(events[c], e) \/ ~Linked(e)
              /\ owner'[e] \in {"set", "cancelling"} /\ sched_time'[e] # 0,
           \A d \in TimerCpus : \A e \in Events : d # c /\ Contains(events[d], e) =>
              sched_time'[e] = sched_time[e] /\ owner'[e] \in {"set", "cancelling"}
    PROVE  ListInv'
<1>1. /\ events'[c] = r /\ \A d \in TimerCpus : d # c => events'[d] = events[d]
      /\ \A d \in TimerCpus : events[d] \in Seq(Events)
  BY DEF TimerTypeOK
<1>2. ASSUME NEW d \in TimerCpus
      PROVE  Distinct(events'[d]) /\ InOrder(events'[d], sched_time')
  <2>1. CASE d = c
    BY <1>1, <2>1
  <2>2. CASE d # c
    <3>1. \A x \in Events : Contains(events[d], x) => sched_time'[x] = sched_time[x]
      BY <2>2
    <3>2. InOrder(events[d], sched_time) /\ Distinct(events[d])
      BY DEF ListInv
    <3> QED BY <1>1, <2>2, <3>1, <3>2, OrderOf
  <2> QED BY <2>1, <2>2
<1>3. ASSUME NEW d \in TimerCpus, NEW b \in TimerCpus, NEW e \in Events,
             Contains(events'[d], e), Contains(events'[b], e)
      PROVE  d = b
  BY <1>1, <1>3 DEF ListInv, Linked
<1>4. ASSUME NEW d \in TimerCpus, NEW e \in Events, Contains(events'[d], e)
      PROVE  owner'[e] \in {"set", "cancelling"} /\ sched_time'[e] # 0
  BY <1>1, <1>4 DEF ListInv
<1> QED BY <1>2, <1>3, <1>4 DEF ListInv

(* No list changes.                                                        *)
LEMMA ListSame ==
    ASSUME TimerTypeOK, ListInv, UNCHANGED events,
           \A d \in TimerCpus : \A e \in Events : Contains(events[d], e) =>
              sched_time'[e] = sched_time[e] /\ owner'[e] \in {"set", "cancelling"}
    PROVE  ListInv'
<1>1. \A d \in TimerCpus : events[d] \in Seq(Events)
  BY DEF TimerTypeOK
<1>2. \A d \in TimerCpus : InOrder(events'[d], sched_time')
  BY <1>1, OrderOf DEF ListInv
<1> QED BY <1>2 DEF ListInv

-----------------------------------------------------------------------------
(* Steps that start no callback and no cancelling.                         *)

Handlers == [pc : HandlerPcs, ev : Events \cup {NoEvent}, now : Nat, mode : Modes, at : Nat]

(* The handlers keep a periodic event theirs.                              *)
LEMMA CallSame ==
    ASSUME CallInv, UNCHANGED mode,
           \A c \in TimerCpus : handler'[c].pc = "call" => handler'[c] = handler[c],
           \A e \in Events : mode[e].periodic =>
              owner'[e] \in {"setting", "set"} /\ (owner[e] = "set" => owner'[e] = "set"),
           \A e \in Events : Linked(e)' => Linked(e) \/ owner[e] # "set"
    PROVE  CallInv'
<1>1. \A c \in TimerCpus : \A e \in Events : PutsBack(c, e)' => PutsBack(c, e)
  BY DEF PutsBack
<1>2. \A c \in TimerCpus : handler'[c].pc = "call" => handler'[c].ev \in Events
  BY DEF CallInv
<1>3. \A c \in TimerCpus : \A e \in Events : PutsBack(c, e)' =>
         mode'[e].periodic /\ owner'[e] = "set" /\ ~Linked(e)'
  BY <1>1 DEF CallInv
<1> QED BY <1>1, <1>2, <1>3 DEF CallInv

(* What was not found stays so.                                            *)
LEMMA CancelSame ==
    ASSUME CancelInv,
           \A c \in TimerCpus : handler'[c].pc \in CancelPcs => handler'[c] = handler[c],
           \A c \in TimerCpus : \A e \in Events : Cancels(c, e)' => owner'[e] = "cancelling",
           \A c \in TimerCpus : \A e \in Events :
              owner[e] = "cancelling" /\ Contains(events'[c], e) => Contains(events[c], e)
    PROVE  CancelInv'
<1>1. \A c \in TimerCpus : \A e \in Events :
         Cancels(c, e)' => Cancels(c, e) /\ handler'[c] = handler[c]
  BY DEF Cancels
<1>2. \A c \in TimerCpus : handler'[c].pc \in CancelPcs => handler'[c].ev \in Events
  BY DEF CancelInv
<1>3. \A c \in TimerCpus : \A e \in Events : Cancels(c, e)' => owner[e] = "cancelling"
  BY <1>1 DEF CancelInv
<1>4. \A c \in TimerCpus : \A e \in Events : Cancels(c, e)' /\ handler'[c].pc # "local" =>
         ~Contains(events'[c], e)
  BY <1>1, <1>3 DEF CancelInv
<1>5. \A c, d \in TimerCpus : \A e \in Events :
         Cancels(c, e)' /\ d < handler'[c].at => ~Contains(events'[d], e)
  BY <1>1, <1>3 DEF CancelInv
<1> QED BY <1>1, <1>2, <1>4, <1>5 DEF CancelInv

-----------------------------------------------------------------------------
(* Time goes on.                                                           *)
LEMMA TickKeeps ==
    ASSUME TimerInductive, Tick
    PROVE  TimerInductive'
<1>1. UNCHANGED <<events, sched_time, mode, armed, owner, handler>> /\ clock' \in Nat \ {0}
  BY DEF Tick, TimerInductive, TimerTypeOK
<1>2. TimerTypeOK'
  BY <1>1 DEF TimerInductive, TimerTypeOK
<1> QED BY <1>1, <1>2 DEF TimerInductive, ListInv, SettingInv, CallInv, CancelInv, ArmedInv,
        PutsBack, Cancels, Linked

(* timer_set_event writes to an event that no list leads to.               *)
LEMMA SetEventKeeps ==
    ASSUME TimerInductive, NEW e \in Events, NEW t \in Nat, NEW p \in BOOLEAN,
           timer_set_event(e, t, p)
    PROVE  TimerInductive'
<1> DEFINE m == IF p THEN [periodic |-> TRUE, period |-> t] ELSE OneShot
<1>1. /\ TimerTypeOK /\ ListInv /\ SettingInv /\ CallInv /\ CancelInv /\ ArmedInv
      /\ owner[e] = "unset" /\ UNCHANGED <<events, armed, clock, handler>>
      /\ sched_time' = [sched_time EXCEPT ![e] = clock + t]
      /\ owner' = [owner EXCEPT ![e] = "setting"]
      /\ mode' = [mode EXCEPT ![e] = m]
  BY DEF TimerInductive, timer_set_event
<1>2. m \in Modes
  BY DEF Modes, OneShot
<1> HIDE DEF m
<1>3. /\ sched_time' \in [Events -> Nat]
      /\ owner' \in [Events -> {"unset", "setting", "set", "cancelling"}]
      /\ mode' \in [Events -> Modes]
      /\ owner'[e] = "setting"
      /\ \A x \in Events : x # e =>
            sched_time'[x] = sched_time[x] /\ owner'[x] = owner[x] /\ mode'[x] = mode[x]
  BY <1>1, <1>2 DEF TimerTypeOK
<1>4. TimerTypeOK'
  BY <1>1, <1>3 DEF TimerTypeOK
<1>5. ListInv' /\ SettingInv'
  <2>1. \A d \in TimerCpus : \A x \in Events : Contains(events[d], x) =>
           x # e /\ owner[x] \in {"set", "cancelling"}
    BY <1>1 DEF ListInv
  <2>2. ListInv'
    BY <1>1, <1>3, <2>1, ListSame
  <2>3. sched_time'[e] # 0
    BY <1>1 DEF TimerTypeOK
  <2> QED BY <1>1, <1>3, <2>2, <2>3 DEF SettingInv
<1>6. CallInv'
  <2>1. \A c \in TimerCpus : \A x \in Events : PutsBack(c, x)' <=> PutsBack(c, x)
    BY <1>1 DEF PutsBack
  <2>2. \A x \in Events : Linked(x)' <=> Linked(x)
    BY <1>1 DEF Linked
  <2>3. \A c \in TimerCpus : ~PutsBack(c, e)
    BY <1>1 DEF CallInv
  <2>4. \A x \in Events : mode'[x].periodic => owner'[x] \in {"setting", "set"}
    BY <1>1, <1>3 DEF CallInv
  <2> QED BY <1>1, <1>3, <2>1, <2>2, <2>3, <2>4 DEF CallInv
<1>7. CancelInv'
  <2>1. \A c \in TimerCpus : \A x \in Events : Cancels(c, x)' => owner'[x] = "cancelling"
    BY <1>1, <1>3 DEF Cancels, CancelInv
  <2> QED BY <1>1, <2>1, CancelSame
<1>8. ArmedInv'
  BY <1>1 DEF ArmedInv
<1> QED BY <1>4, <1>5, <1>6, <1>7, <1>8 DEF TimerInductive

(* It puts the event into the list of the CPU that it then runs on.        *)
LEMMA SetInsertKeeps ==
    ASSUME TimerInductive, NEW e \in Events, NEW c \in TimerCpus, SetInsert(e, c)
    PROVE  TimerInductive'
<1> DEFINE r == Added(e, sched_time[e], events[c])
<1>1. /\ TimerTypeOK /\ ListInv /\ SettingInv /\ CallInv /\ CancelInv /\ ArmedInv
      /\ owner[e] = "setting" /\ UNCHANGED <<sched_time, mode, clock, handler>>
      /\ events' = [events EXCEPT ![c] = r] /\ handler[c].pc = "no"
      /\ owner' = [owner EXCEPT ![e] = "set"]
      /\ armed' = IF Head(events'[c]) = e THEN armed \cup {c} ELSE armed
  BY DEF TimerInductive, SetInsert
<1>2. /\ \A d \in TimerCpus : ~Contains(events[d], e)
      /\ events[c] \in Seq(Events) /\ sched_time[e] \in Nat
      /\ sched_time \in [Events -> Nat]
  BY <1>1 DEF ListInv, TimerTypeOK
<1>3. /\ r \in Seq(Events) /\ Distinct(r) /\ InOrder(r, sched_time) /\ r # <<>>
      /\ \A x : Contains(r, x) <=> Contains(events[c], x) \/ x = e
      /\ events[c] = <<>> => Head(r) = e
  <2>1. Distinct(events[c]) /\ InOrder(events[c], sched_time) /\ ~Contains(events[c], e)
    BY <1>1, <1>2 DEF ListInv
  <2>2. TimerTypeOK /\ \A x \in Events : x # e => sched_time[x] = sched_time[x]
    BY <1>1
  <2> QED BY <1>2, <2>1, <2>2, AddedList
<1> HIDE DEF r
<1>4. /\ events' \in [TimerCpus -> Seq(Events)] /\ armed' \in SUBSET TimerCpus
      /\ owner' \in [Events -> {"unset", "setting", "set", "cancelling"}]
      /\ events'[c] = r /\ \A d \in TimerCpus : d # c => events'[d] = events[d]
      /\ owner'[e] = "set" /\ \A x \in Events : x # e => owner'[x] = owner[x]
  BY <1>1, <1>3 DEF TimerTypeOK
<1>5. TimerTypeOK'
  BY <1>1, <1>4 DEF TimerTypeOK
<1>6. ListInv'
  <2>1. ASSUME NEW x \in Events, Contains(r, x)
        PROVE  /\ Contains(events[c], x) \/ ~Linked(x)
               /\ owner'[x] \in {"set", "cancelling"} /\ sched_time'[x] # 0
    <3>1. CASE x = e
      <4>1. sched_time[e] # 0
        BY <1>1 DEF SettingInv
      <4> QED BY <1>1, <1>2, <1>4, <3>1, <4>1 DEF Linked
    <3>2. CASE x # e
      BY <1>1, <1>3, <1>4, <2>1, <3>2 DEF ListInv
    <3> QED BY <3>1, <3>2
  <2>2. \A d \in TimerCpus : \A x \in Events : d # c /\ Contains(events[d], x) =>
           sched_time'[x] = sched_time[x] /\ owner'[x] \in {"set", "cancelling"}
    BY <1>1, <1>2, <1>4 DEF ListInv
  <2> QED BY <1>1, <1>3, <2>1, <2>2, ListStep
<1>10. SettingInv'
  BY <1>1, <1>4 DEF SettingInv
<1>7. CallInv'
  <2>1. \A x \in Events : Linked(x)' => Linked(x) \/ owner[x] # "set"
    BY <1>1, <1>3, <1>4 DEF Linked
  <2>2. \A x \in Events : mode[x].periodic =>
           owner'[x] \in {"setting", "set"} /\ (owner[x] = "set" => owner'[x] = "set")
    BY <1>1, <1>4 DEF CallInv
  <2> QED BY <1>1, <2>1, <2>2, CallSame
<1>8. CancelInv'
  <2>1. \A d \in TimerCpus : \A x \in Events : Cancels(d, x)' => owner'[x] = "cancelling"
    BY <1>1, <1>4 DEF Cancels, CancelInv
  <2>2. \A d \in TimerCpus : \A x \in Events :
           owner[x] = "cancelling" /\ Contains(events'[d], x) => Contains(events[d], x)
    BY <1>1, <1>3, <1>4
  <2> QED BY <1>1, <2>1, <2>2, CancelSame
<1>9. ArmedInv'
  BY <1>1, <1>3, <1>4 DEF ArmedInv
<1> QED BY <1>5, <1>6, <1>7, <1>8, <1>9, <1>10 DEF TimerInductive

-----------------------------------------------------------------------------
(* timer_interrupt.                                                        *)

(* One handler goes on.                                                    *)
LEMMA HandlerOne ==
    ASSUME TimerTypeOK, NEW c \in TimerCpus, NEW h \in Handlers,
           handler' = [handler EXCEPT ![c] = h]
    PROVE  /\ handler' \in [TimerCpus -> Handlers] /\ handler'[c] = h
           /\ \A d \in TimerCpus : d # c => handler'[d] = handler[d]
BY DEF TimerTypeOK, Handlers

(* A step of an interrupt that leaves the lists alone.                     *)
LEMMA ScanStep ==
    ASSUME TimerInductive, NEW c \in TimerCpus, NEW h \in Handlers,
           handler' = [handler EXCEPT ![c] = h],
           h.pc \in {"no", "scan"}, handler[c].pc \in {"no", "scan", "call"},
           UNCHANGED <<events, sched_time, mode, clock, owner>>, armed' \in SUBSET TimerCpus,
           \A d \in TimerCpus : d # c => (d \in armed' <=> d \in armed),
           h.pc = "no" /\ events[c] # <<>> => c \in armed'
    PROVE  TimerInductive'
<1>1. /\ TimerTypeOK /\ ListInv /\ SettingInv /\ CallInv /\ CancelInv /\ ArmedInv
  BY DEF TimerInductive
<1>2. /\ handler' \in [TimerCpus -> Handlers] /\ handler'[c] = h
      /\ \A d \in TimerCpus : d # c => handler'[d] = handler[d]
  BY <1>1, HandlerOne
<1>3. TimerTypeOK'
  BY <1>1, <1>2 DEF TimerTypeOK, Handlers
<1>4. ListInv' /\ SettingInv'
  BY <1>1 DEF ListInv, SettingInv
<1>5. CallInv'
  <2>1. \A d \in TimerCpus : handler'[d].pc = "call" => handler'[d] = handler[d]
    BY <1>2
  <2>2. \A e \in Events : Linked(e)' => Linked(e)
    BY DEF Linked
  <2>3. \A e \in Events : mode[e].periodic => owner[e] \in {"setting", "set"}
    BY <1>1 DEF CallInv
  <2> QED BY <1>1, <2>1, <2>2, <2>3, CallSame
<1>6. CancelInv'
  <2>1. \A d \in TimerCpus : handler'[d].pc \in CancelPcs => handler'[d] = handler[d]
    BY <1>2 DEF CancelPcs
  <2>2. \A d \in TimerCpus : \A e \in Events : Cancels(d, e)' => owner'[e] = "cancelling"
    BY <1>1, <2>1 DEF Cancels, CancelInv
  <2> QED BY <1>1, <2>1, <2>2, CancelSame
<1>7. ArmedInv'
  BY <1>1, <1>2 DEF ArmedInv
<1> QED BY <1>3, <1>4, <1>5, <1>6, <1>7 DEF TimerInductive

(* The interrupt.                                                          *)
LEMMA InterruptKeeps ==
    ASSUME TimerInductive, NEW c \in TimerCpus, timer_interrupt(c)
    PROVE  TimerInductive'
<1> DEFINE h == [NotBusy EXCEPT !.pc = "scan", !.now = clock]
<1>1. /\ handler' = [handler EXCEPT ![c] = h] /\ armed' = armed \ {c}
      /\ UNCHANGED <<events, sched_time, mode, clock, owner>> /\ handler[c].pc = "no"
  BY DEF timer_interrupt
<1>2. clock \in Nat /\ armed \in SUBSET TimerCpus
  BY DEF TimerInductive, TimerTypeOK
<1>3. h \in Handlers /\ h.pc = "scan"
  BY <1>2 DEF Handlers, NotBusy, OneShot, Modes, HandlerPcs
<1> HIDE DEF h
<1> QED BY <1>1, <1>2, <1>3, ScanStep

(* The scan ends: the hardware timer is set again.                         *)
LEMMA ScanEndKeeps ==
    ASSUME TimerInductive, NEW c \in TimerCpus, ScanEnd(c)
    PROVE  TimerInductive'
<1>1. /\ handler' = [handler EXCEPT ![c] = NotBusy]
      /\ armed' = IF events[c] # <<>> THEN armed \cup {c} ELSE armed
      /\ UNCHANGED <<events, sched_time, mode, clock, owner>> /\ handler[c].pc = "scan"
  BY DEF ScanEnd, Rearmed
<1>2. armed \in SUBSET TimerCpus
  BY DEF TimerInductive, TimerTypeOK
<1>3. NotBusy \in Handlers /\ NotBusy.pc = "no"
  BY DEF Handlers, NotBusy, OneShot, Modes, HandlerPcs
<1> QED BY <1>1, <1>2, <1>3, ScanStep

(* An event that is due leaves its list.                                   *)
LEMMA ScanDueKeeps ==
    ASSUME TimerInductive, NEW c \in TimerCpus, ScanDue(c)
    PROVE  TimerInductive'
<1> DEFINE e == Head(events[c])
           r == Tail(events[c])
           h == [handler[c] EXCEPT !.pc = "call", !.ev = e, !.mode = mode[e]]
<1>1. /\ TimerTypeOK /\ ListInv /\ SettingInv /\ CallInv /\ CancelInv /\ ArmedInv
      /\ events[c] # <<>> /\ handler[c].pc = "scan"
      /\ events' = [events EXCEPT ![c] = r]
      /\ sched_time' = [sched_time EXCEPT ![e] = 0]
      /\ handler' = [handler EXCEPT ![c] = h]
      /\ UNCHANGED <<mode, armed, clock, owner>>
  BY DEF TimerInductive, ScanDue, Due
<1>2. /\ events[c] \in Seq(Events) /\ Distinct(events[c]) /\ InOrder(events[c], sched_time)
      /\ sched_time \in [Events -> Nat]
  BY <1>1 DEF TimerTypeOK, ListInv
<1>3. /\ r \in Seq(Events) /\ e \in Events /\ Contains(events[c], e)
      /\ Distinct(r) /\ InOrder(r, sched_time)
      /\ \A x : Contains(r, x) <=> Contains(events[c], x) /\ x # e
  BY <1>1, <1>2, TailList
<1> HIDE DEF e, r
<1>4. /\ h \in Handlers /\ h.pc = "call" /\ h.ev = e /\ h.mode = mode[e]
  <2>1. mode[e] \in Modes /\ handler[c] \in Handlers
    BY <1>1, <1>3 DEF TimerTypeOK, Handlers
  <2> QED BY <1>3, <2>1 DEF Handlers, HandlerPcs
<1> HIDE DEF h
<1>5. /\ handler' \in [TimerCpus -> Handlers] /\ handler'[c] = h
      /\ \A d \in TimerCpus : d # c => handler'[d] = handler[d]
  BY <1>1, <1>4, HandlerOne
<1>6. /\ events' \in [TimerCpus -> Seq(Events)] /\ sched_time' \in [Events -> Nat]
      /\ events'[c] = r /\ \A d \in TimerCpus : d # c => events'[d] = events[d]
      /\ \A x \in Events : x # e => sched_time'[x] = sched_time[x]
  BY <1>1, <1>3 DEF TimerTypeOK
<1>7. TimerTypeOK'
  BY <1>1, <1>5, <1>6 DEF TimerTypeOK, Handlers
<1>8. \A d \in TimerCpus : ~Contains(events'[d], e)
  BY <1>1, <1>3, <1>6 DEF ListInv
<1>9. ListInv'
  <2>1. InOrder(r, sched_time')
    <3>1. \A x \in Events : Contains(r, x) => sched_time'[x] = sched_time[x]
      BY <1>3, <1>6
    <3> QED BY <1>3, <3>1, OrderOf
  <2>2. \A x \in Events : Contains(r, x) =>
           /\ Contains(events[c], x) \/ ~Linked(x)
           /\ owner'[x] \in {"set", "cancelling"} /\ sched_time'[x] # 0
    BY <1>1, <1>3, <1>6 DEF ListInv
  <2>3. \A d \in TimerCpus : \A x \in Events : d # c /\ Contains(events[d], x) =>
           sched_time'[x] = sched_time[x] /\ owner'[x] \in {"set", "cancelling"}
    BY <1>1, <1>6, <1>8 DEF ListInv
  <2> QED BY <1>1, <1>3, <2>1, <2>2, <2>3, ListStep
<1>10. SettingInv'
  <2>1. owner[e] # "setting"
    BY <1>1, <1>3 DEF ListInv
  <2> QED BY <1>1, <1>6, <2>1 DEF SettingInv
<1>11. CallInv'
  <2>1. \A x \in Events : Linked(x)' => Linked(x)
    BY <1>3, <1>6 DEF Linked
  <2>2. \A x \in Events : x = e => ~Linked(x)' /\ Linked(x)
    BY <1>3, <1>8 DEF Linked
  <2>3. mode[e].periodic => owner[e] = "set"
    BY <1>1, <1>3 DEF CallInv, ListInv
  <2>4. \A d \in TimerCpus : \A x \in Events : PutsBack(d, x)' =>
           \/ d # c /\ x # e /\ PutsBack(d, x)
           \/ d = c /\ x = e /\ mode[e].periodic
    BY <1>1, <1>3, <1>4, <1>5, <2>2 DEF PutsBack, CallInv
  <2>5. \A d \in TimerCpus : handler'[d].pc = "call" => handler'[d].ev \in Events
    BY <1>1, <1>3, <1>4, <1>5 DEF CallInv
  <2> QED BY <1>1, <1>3, <2>1, <2>2, <2>3, <2>4, <2>5 DEF CallInv
<1>12. CancelInv'
  <2>1. \A d \in TimerCpus : handler'[d].pc \in CancelPcs => handler'[d] = handler[d]
    BY <1>4, <1>5 DEF CancelPcs
  <2>2. \A d \in TimerCpus : \A x \in Events : Cancels(d, x)' => owner'[x] = "cancelling"
    BY <1>1, <2>1 DEF Cancels, CancelInv
  <2>3. \A d \in TimerCpus : \A x \in Events : Contains(events'[d], x) => Contains(events[d], x)
    BY <1>3, <1>6
  <2> QED BY <1>1, <2>1, <2>2, <2>3, CancelSame
<1>13. ArmedInv'
  BY <1>1, <1>4, <1>5, <1>6 DEF ArmedInv
<1> QED BY <1>7, <1>9, <1>10, <1>11, <1>12, <1>13 DEF TimerInductive

(* The callback returns; a periodic event goes back into the list.         *)
LEMMA CalledKeeps ==
    ASSUME TimerInductive, NEW c \in TimerCpus, Called(c)
    PROVE  TimerInductive'
<1> DEFINE e == handler[c].ev
           t == clock + mode[e].period
           r == Added(e, t, events[c])
           h == [handler[c] EXCEPT !.pc = "scan", !.ev = NoEvent, !.mode = OneShot]
<1>1. /\ TimerTypeOK /\ ListInv /\ SettingInv /\ CallInv /\ CancelInv /\ ArmedInv
      /\ handler[c].pc = "call" /\ handler' = [handler EXCEPT ![c] = h]
      /\ UNCHANGED <<mode, armed, clock, owner>>
      /\ IF handler[c].mode.periodic
         THEN /\ sched_time' = [sched_time EXCEPT ![e] = t]
              /\ events' = [events EXCEPT ![c] = r]
         ELSE UNCHANGED <<sched_time, events>>
  BY DEF TimerInductive, Called
<1>2. /\ e \in Events /\ t \in Nat \ {0} /\ sched_time \in [Events -> Nat]
      /\ armed \in SUBSET TimerCpus
  BY <1>1 DEF TimerTypeOK, CallInv, Modes
<1>3. h \in Handlers /\ h.pc = "scan"
  <2>1. handler[c] \in Handlers
    BY <1>1 DEF TimerTypeOK, Handlers
  <2> QED BY <2>1 DEF Handlers, HandlerPcs, OneShot, Modes
<1> HIDE DEF h
<1>4. CASE ~handler[c].mode.periodic
  BY <1>1, <1>2, <1>3, <1>4, ScanStep
<1>5. CASE handler[c].mode.periodic
  <2>1. PutsBack(c, e)
    BY <1>1, <1>5 DEF PutsBack
  <2>2. mode[e].periodic /\ owner[e] = "set" /\ ~Linked(e)
    BY <1>1, <1>2, <2>1 DEF CallInv
  <2> HIDE DEF e, t
  <2>3. /\ events[c] \in Seq(Events) /\ Distinct(events[c]) /\ InOrder(events[c], sched_time)
        /\ ~Contains(events[c], e)
    BY <1>1, <2>2 DEF TimerTypeOK, ListInv, Linked
  <2>4. /\ sched_time' \in [Events -> Nat] /\ sched_time'[e] = t
        /\ \A x \in Events : x # e => sched_time'[x] = sched_time[x]
    BY <1>1, <1>2, <1>5
  <2>5. /\ r \in Seq(Events) /\ Distinct(r) /\ InOrder(r, sched_time')
        /\ \A x : Contains(r, x) <=> Contains(events[c], x) \/ x = e
    <3>1. TimerTypeOK /\ t \in Nat /\ e \in Events
      BY <1>1, <1>2
    <3> QED BY <2>3, <2>4, <3>1, AddedList
  <2> HIDE DEF r
  <2>6. /\ handler' \in [TimerCpus -> Handlers] /\ handler'[c] = h
        /\ \A d \in TimerCpus : d # c => handler'[d] = handler[d]
    BY <1>1, <1>3, HandlerOne
  <2>7. /\ events' \in [TimerCpus -> Seq(Events)]
        /\ events'[c] = r /\ \A d \in TimerCpus : d # c => events'[d] = events[d]
    BY <1>1, <1>5, <2>5 DEF TimerTypeOK
  <2>8. TimerTypeOK'
    BY <1>1, <2>4, <2>6, <2>7 DEF TimerTypeOK, Handlers
  <2>9. ListInv'
    <3>1. \A x \in Events : Contains(r, x) =>
             /\ Contains(events[c], x) \/ ~Linked(x)
             /\ owner'[x] \in {"set", "cancelling"} /\ sched_time'[x] # 0
      BY <1>1, <1>2, <2>2, <2>4, <2>5 DEF ListInv
    <3>2. \A d \in TimerCpus : \A x \in Events : d # c /\ Contains(events[d], x) =>
             sched_time'[x] = sched_time[x] /\ owner'[x] \in {"set", "cancelling"}
      BY <1>1, <2>2, <2>4 DEF ListInv, Linked
    <3> QED BY <1>1, <1>5, <2>5, <3>1, <3>2, ListStep
  <2>10. SettingInv'
    BY <1>1, <2>2, <2>4 DEF SettingInv
  <2>11. CallInv'
    <3>1. \A x \in Events : Linked(x)' => Linked(x) \/ x = e
      BY <2>5, <2>7 DEF Linked
    <3>2. \A d \in TimerCpus : \A x \in Events : PutsBack(d, x)' => x # e /\ PutsBack(d, x)
      BY <1>1, <1>2, <1>3, <2>1, <2>6 DEF PutsBack, CallInv
    <3>3. \A d \in TimerCpus : handler'[d].pc = "call" => handler'[d].ev \in Events
      BY <1>1, <1>3, <2>6 DEF CallInv
    <3> QED BY <1>1, <3>1, <3>2, <3>3 DEF CallInv
  <2>12. CancelInv'
    <3>1. \A d \in TimerCpus : handler'[d].pc \in CancelPcs => handler'[d] = handler[d]
      BY <1>3, <2>6 DEF CancelPcs
    <3>2. \A d \in TimerCpus : \A x \in Events : Cancels(d, x)' => owner'[x] = "cancelling"
      BY <1>1, <3>1 DEF Cancels, CancelInv
    <3>3. \A d \in TimerCpus : \A x \in Events :
             owner[x] = "cancelling" /\ Contains(events'[d], x) => Contains(events[d], x)
      BY <2>2, <2>5, <2>7
    <3> QED BY <1>1, <3>1, <3>2, <3>3, CancelSame
  <2>13. ArmedInv'
    BY <1>1, <1>3, <2>6, <2>7 DEF ArmedInv
  <2> QED BY <2>8, <2>9, <2>10, <2>11, <2>12, <2>13 DEF TimerInductive
<1> QED BY <1>4, <1>5

-----------------------------------------------------------------------------
(* timer_cancel_event.                                                     *)

(* The owner finds its event not scheduled: then no list leads to it.      *)
LEMMA UnscheduledKeeps ==
    ASSUME TimerInductive, PeriodicKept, NEW e \in Events, CancelUnscheduled(e)
    PROVE  TimerInductive'
<1>1. /\ TimerTypeOK /\ ListInv /\ SettingInv /\ CallInv /\ CancelInv /\ ArmedInv
      /\ owner[e] = "set" /\ sched_time[e] = 0 /\ owner' = [owner EXCEPT ![e] = "unset"]
      /\ UNCHANGED <<events, sched_time, mode, armed, clock, handler>>
  BY DEF TimerInductive, CancelUnscheduled
<1>2. /\ owner' \in [Events -> {"unset", "setting", "set", "cancelling"}]
      /\ owner'[e] = "unset" /\ \A x \in Events : x # e => owner'[x] = owner[x]
  BY <1>1 DEF TimerTypeOK
<1>3. TimerTypeOK'
  BY <1>1, <1>2 DEF TimerTypeOK
<1>4. ListInv'
  BY <1>1, <1>2 DEF ListInv
<1>5. SettingInv'
  BY <1>1, <1>2 DEF SettingInv
<1>6. ~mode[e].periodic
  BY <1>1, <1>2 DEF PeriodicKept
<1>7. CallInv'
  <2>1. \A x \in Events : mode[x].periodic => x # e
    BY <1>6
  <2>2. \A x \in Events : mode[x].periodic =>
           owner'[x] \in {"setting", "set"} /\ (owner[x] = "set" => owner'[x] = "set")
    BY <1>1, <1>2, <2>1 DEF CallInv
  <2>3. \A x \in Events : Linked(x)' => Linked(x)
    BY <1>1 DEF Linked
  <2> QED BY <1>1, <2>2, <2>3, CallSame
<1>8. CancelInv'
  <2>1. \A c \in TimerCpus : \A x \in Events : Cancels(c, x)' => owner'[x] = "cancelling"
    BY <1>1, <1>2 DEF Cancels, CancelInv
  <2> QED BY <1>1, <2>1, CancelSame
<1>9. ArmedInv'
  BY <1>1 DEF ArmedInv
<1> QED BY <1>3, <1>4, <1>5, <1>7, <1>8, <1>9 DEF TimerInductive

(* The owner starts to look for its event.                                 *)
LEMMA CancelKeeps ==
    ASSUME TimerInductive, PeriodicKept, NEW e \in Events, NEW c \in TimerCpus,
           timer_cancel_event(e, c)
    PROVE  TimerInductive'
<1> DEFINE h == [NotBusy EXCEPT !.pc = "local", !.ev = e]
<1>1. /\ TimerTypeOK /\ ListInv /\ SettingInv /\ CallInv /\ CancelInv /\ ArmedInv
      /\ owner[e] = "set" /\ owner' = [owner EXCEPT ![e] = "cancelling"]
      /\ handler[c].pc = "no" /\ handler' = [handler EXCEPT ![c] = h]
      /\ UNCHANGED <<events, sched_time, mode, armed, clock>>
  BY DEF TimerInductive, timer_cancel_event
<1>2. h \in Handlers /\ h.pc = "local" /\ h.ev = e /\ h.at = 0
  BY DEF Handlers, NotBusy, OneShot, Modes, HandlerPcs
<1> HIDE DEF h
<1>3. /\ owner' \in [Events -> {"unset", "setting", "set", "cancelling"}]
      /\ owner'[e] = "cancelling" /\ \A x \in Events : x # e => owner'[x] = owner[x]
      /\ handler' \in [TimerCpus -> Handlers] /\ handler'[c] = h
      /\ \A d \in TimerCpus : d # c => handler'[d] = handler[d]
  BY ZenonT(30), <1>1, <1>2, HandlerOne DEF TimerTypeOK
<1>4. TimerTypeOK'
  BY <1>1, <1>3 DEF TimerTypeOK, Handlers
<1>5. ListInv'
  BY <1>1, <1>3 DEF ListInv
<1>6. SettingInv'
  BY <1>1, <1>3 DEF SettingInv
<1>7. CallInv'
  <2>1. \A x \in Events : mode[x].periodic => x # e
    BY <1>1, <1>3 DEF PeriodicKept
  <2>2. \A x \in Events : mode[x].periodic =>
           owner'[x] \in {"setting", "set"} /\ (owner[x] = "set" => owner'[x] = "set")
    BY <1>1, <1>3, <2>1 DEF CallInv
  <2>3. \A x \in Events : Linked(x)' => Linked(x)
    BY <1>1 DEF Linked
  <2>4. \A d \in TimerCpus : handler'[d].pc = "call" => handler'[d] = handler[d]
    BY <1>2, <1>3
  <2> QED BY <1>1, <2>2, <2>3, <2>4, CallSame
<1>8. CancelInv'
  <2>1. \A d \in TimerCpus : \A x \in Events : Cancels(d, x)' =>
           (d = c /\ x = e) \/ (d # c /\ x # e /\ Cancels(d, x))
    <3>1. \A d \in TimerCpus : \A x \in Events : Cancels(d, x)' =>
             (d = c /\ x = e) \/ (d # c /\ Cancels(d, x))
      <4> SUFFICES ASSUME NEW d \in TimerCpus, NEW x \in Events, Cancels(d, x)'
                   PROVE  (d = c /\ x = e) \/ (d # c /\ Cancels(d, x))
        OBVIOUS
      <4>1. handler'[d].pc \in CancelPcs /\ handler'[d].ev = x
        BY DEF Cancels
      <4> QED BY <1>2, <1>3, <4>1 DEF Cancels
    <3>2. \A d \in TimerCpus : ~Cancels(d, e)
      BY <1>1 DEF CancelInv
    <3> QED BY <3>1, <3>2
  <2>2. \A d \in TimerCpus : handler'[d].pc \in CancelPcs => handler'[d].ev \in Events
    BY <1>1, <1>2, <1>3 DEF CancelInv
  <2>3. \A d \in TimerCpus : \A x \in Events : Cancels(d, x)' => owner'[x] = "cancelling"
    BY <1>1, <1>3, <2>1 DEF CancelInv
  <2>4. \A d \in TimerCpus : \A x \in Events : Cancels(d, x)' /\ handler'[d].pc # "local" =>
           ~Contains(events'[d], x)
    BY <1>1, <1>2, <1>3, <2>1 DEF CancelInv
  <2>5. \A d \in TimerCpus : ~(d < 0)
    BY TimerAssumption DEF TimerCpus
  <2>6. \A d, b \in TimerCpus : \A x \in Events :
           Cancels(d, x)' /\ b < handler'[d].at => ~Contains(events'[b], x)
    BY <1>1, <1>2, <1>3, <2>1, <2>5 DEF CancelInv
  <2>7. \A d, b \in TimerCpus : \A x \in Events : Cancels(d, x)' /\ Cancels(b, x)' => d = b
    BY <1>1, <2>1 DEF CancelInv
  <2> QED BY <2>2, <2>3, <2>4, <2>6, <2>7 DEF CancelInv
<1>9. ArmedInv'
  BY <1>1, <1>2, <1>3 DEF ArmedInv
<1> QED BY <1>4, <1>5, <1>6, <1>7, <1>8, <1>9 DEF TimerInductive

(* It goes on to look.                                                     *)
LEMMA CancelStep ==
    ASSUME TimerInductive, NEW c \in TimerCpus, NEW h \in Handlers,
           handler' = [handler EXCEPT ![c] = h],
           handler[c].pc \in CancelPcs, h.pc \in CancelPcs, h.ev = handler[c].ev,
           h.pc # "local" => ~Contains(events[c], h.ev),
           \A d \in TimerCpus : d < h.at => d < handler[c].at \/ ~Contains(events[d], h.ev),
           UNCHANGED <<events, sched_time, mode, clock, owner>>, armed' \in SUBSET TimerCpus,
           \A d \in TimerCpus : d # c => (d \in armed' <=> d \in armed),
           events[c] # <<>> => c \in armed'
    PROVE  TimerInductive'
<1>1. TimerTypeOK /\ ListInv /\ SettingInv /\ CallInv /\ CancelInv /\ ArmedInv
  BY DEF TimerInductive
<1>2. /\ handler' \in [TimerCpus -> Handlers] /\ handler'[c] = h
      /\ \A d \in TimerCpus : d # c => handler'[d] = handler[d]
  BY <1>1, HandlerOne
<1>3. TimerTypeOK'
  BY <1>1, <1>2 DEF TimerTypeOK, Handlers
<1>4. ListInv' /\ SettingInv'
  BY <1>1 DEF ListInv, SettingInv
<1>5. CallInv'
  <2>1. \A d \in TimerCpus : handler'[d].pc = "call" => handler'[d] = handler[d]
    BY <1>2 DEF CancelPcs
  <2>2. \A e \in Events : Linked(e)' => Linked(e)
    BY DEF Linked
  <2>3. \A e \in Events : mode[e].periodic => owner[e] \in {"setting", "set"}
    BY <1>1 DEF CallInv
  <2> QED BY <1>1, <2>1, <2>2, <2>3, CallSame
<1>6. CancelInv'
  <2>1. \A d \in TimerCpus : \A x \in Events : Cancels(d, x)' <=> Cancels(d, x)
    BY <1>2 DEF Cancels
  <2>2. Cancels(c, h.ev)
    BY DEF Cancels
  <2>3. \A d \in TimerCpus : handler'[d].pc \in CancelPcs => handler'[d].ev \in Events
    BY <1>1, <1>2 DEF CancelInv
  <2>4. \A d \in TimerCpus : \A x \in Events : Cancels(d, x)' /\ handler'[d].pc # "local" =>
           ~Contains(events'[d], x)
    BY <1>1, <1>2, <2>1 DEF CancelInv, Cancels
  <2>5. \A d, b \in TimerCpus : \A x \in Events :
           Cancels(d, x)' /\ b < handler'[d].at => ~Contains(events'[b], x)
    BY <1>1, <1>2, <2>1 DEF CancelInv, Cancels
  <2> QED BY <1>1, <2>1, <2>3, <2>4, <2>5 DEF CancelInv
<1>7. ArmedInv'
  BY <1>1, <1>2 DEF ArmedInv, CancelPcs
<1> QED BY <1>3, <1>4, <1>5, <1>6, <1>7 DEF TimerInductive

(* Its own list first, which it looks at again without the lock.           *)
LEMMA LocalKeeps ==
    ASSUME TimerInductive, NEW c \in TimerCpus, LocalMissed(c) \/ LocalHead(c)
    PROVE  TimerInductive'
<1>1. /\ TimerTypeOK /\ CancelInv /\ ArmedInv /\ handler[c] \in Handlers
      /\ armed \in SUBSET TimerCpus
  BY DEF TimerInductive, TimerTypeOK, Handlers
<1>2. /\ UNCHANGED <<events, sched_time, mode, clock, owner>>
      /\ handler[c].pc \in {"local", "head"} /\ ~Contains(events[c], handler[c].ev)
  <2>1. CASE LocalMissed(c)
    BY <2>1 DEF LocalMissed
  <2>2. CASE LocalHead(c)
    <3>1. handler[c].pc \in CancelPcs /\ handler[c].pc # "local"
      BY <2>2 DEF LocalHead, CancelPcs
    <3> QED BY <1>1, <2>2, <3>1 DEF LocalHead, CancelInv, Cancels
  <2> QED BY <2>1, <2>2
<1>3. PICK pc \in {"head", "others", "null"} :
         /\ handler' = [handler EXCEPT ![c] = [handler[c] EXCEPT !.pc = pc]]
         /\ IF events[c] = <<>> THEN armed' \in {armed, armed \ {c}}
                               ELSE armed' = armed \/ armed' = armed \cup {c}
  BY DEF LocalMissed, LocalHead
<1> DEFINE h == [handler[c] EXCEPT !.pc = pc]
<1>4. h \in Handlers /\ h.pc = pc /\ h.ev = handler[c].ev /\ h.at = handler[c].at
  BY <1>1 DEF Handlers, HandlerPcs
<1> HIDE DEF h
<1>5. events[c] # <<>> => c \in armed'
  BY <1>1, <1>2, <1>3 DEF ArmedInv
<1>6. handler[c].pc \in CancelPcs /\ h.pc \in CancelPcs
  BY <1>2, <1>4 DEF CancelPcs
<1>7. /\ armed' \in SUBSET TimerCpus
      /\ \A d \in TimerCpus : d # c => (d \in armed' <=> d \in armed)
  BY <1>1, <1>3
<1>8. handler' = [handler EXCEPT ![c] = h]
  BY <1>3 DEF h
<1> QED BY <1>2, <1>4, <1>5, <1>6, <1>7, <1>8, CancelStep

(* Then the list of another CPU.                                           *)
LEMMA OthersNextKeeps ==
    ASSUME TimerInductive, NEW c \in TimerCpus, OthersNext(c)
    PROVE  TimerInductive'
<1> DEFINE h == [handler[c] EXCEPT !.at = @ + 1]
<1>1. /\ TimerTypeOK /\ CancelInv /\ ArmedInv /\ handler[c] \in Handlers
      /\ armed \in SUBSET TimerCpus /\ handler[c].pc = "others"
      /\ handler[c].at = c \/ ~Contains(events[handler[c].at], handler[c].ev)
      /\ handler' = [handler EXCEPT ![c] = h]
      /\ UNCHANGED <<events, sched_time, mode, armed, clock, owner>>
  BY DEF TimerInductive, TimerTypeOK, Handlers, OthersNext
<1>2. /\ h \in Handlers /\ h.pc = "others" /\ h.ev = handler[c].ev
      /\ h.at = handler[c].at + 1 /\ handler[c].at \in Nat
  BY <1>1 DEF Handlers, HandlerPcs
<1> HIDE DEF h
<1>3. ~Contains(events[c], handler[c].ev)
  BY <1>1 DEF CancelInv, Cancels, CancelPcs
<1>4. \A d \in TimerCpus : d < h.at => d < handler[c].at \/ d = handler[c].at
  BY <1>2, TimerAssumption DEF TimerCpus
<1>5. \A d \in TimerCpus : d < h.at => d < handler[c].at \/ ~Contains(events[d], h.ev)
  BY <1>1, <1>2, <1>3, <1>4
<1>6. handler[c].pc \in CancelPcs /\ h.pc \in CancelPcs
  BY <1>1, <1>2 DEF CancelPcs
<1>7. events[c] # <<>> => c \in armed'
  BY <1>1 DEF ArmedInv
<1> QED BY <1>1, <1>2, <1>3, <1>5, <1>6, <1>7, CancelStep

(* The call returns: no list leads to the event any more.                  *)
LEMMA CancelReturnsKeeps ==
    ASSUME TimerInductive, NEW c \in TimerCpus, handler[c].pc \in CancelPcs,
           CancelReturns(c), UNCHANGED <<sched_time, mode, clock>>,
           \/ UNCHANGED events /\ \A d \in TimerCpus : ~Contains(events[d], handler[c].ev)
           \/ \E d \in TimerCpus : /\ Contains(events[d], handler[c].ev)
                                    /\ events' = [events EXCEPT ![d] = Unlinked(handler[c].ev, @)],
           armed' \in SUBSET TimerCpus,
           \A d \in TimerCpus : d \in armed /\ events'[d] # <<>> => d \in armed'
    PROVE  TimerInductive'
<1>1. PICK e : e = handler[c].ev
  OBVIOUS
<1>2. /\ TimerTypeOK /\ ListInv /\ SettingInv /\ CallInv /\ CancelInv /\ ArmedInv
      /\ handler' = [handler EXCEPT ![c] = NotBusy] /\ owner' = [owner EXCEPT ![e] = "unset"]
      /\ e \in Events /\ Cancels(c, e) /\ owner[e] = "cancelling"
  BY <1>1 DEF TimerInductive, CancelReturns, CancelInv, Cancels
<1>3. NotBusy \in Handlers /\ NotBusy.pc = "no"
  BY DEF Handlers, NotBusy, OneShot, Modes, HandlerPcs
<1>4. /\ owner' \in [Events -> {"unset", "setting", "set", "cancelling"}]
      /\ owner'[e] = "unset" /\ \A x \in Events : x # e => owner'[x] = owner[x]
      /\ handler' \in [TimerCpus -> Handlers] /\ handler'[c] = NotBusy
      /\ \A d \in TimerCpus : d # c => handler'[d] = handler[d]
  BY ZenonT(30), <1>2, <1>3, HandlerOne DEF TimerTypeOK
<1>5. /\ events' \in [TimerCpus -> Seq(Events)] /\ ListInv'
      /\ \A d \in TimerCpus : \A x \in Events : Contains(events'[d], x) => Contains(events[d], x)
      /\ \A d \in TimerCpus : events'[d] # <<>> => events[d] # <<>>
  <2>1. CASE UNCHANGED events /\ \A d \in TimerCpus : ~Contains(events[d], e)
    <3>1. \A d \in TimerCpus : \A x \in Events : Contains(events[d], x) =>
             sched_time'[x] = sched_time[x] /\ owner'[x] \in {"set", "cancelling"}
      BY <1>2, <1>4, <2>1 DEF ListInv
    <3> QED BY <1>2, <2>1, <3>1, ListSame DEF TimerTypeOK
  <2>2. ASSUME NEW d \in TimerCpus, Contains(events[d], e),
               events' = [events EXCEPT ![d] = Unlinked(e, @)]
        PROVE  /\ events' \in [TimerCpus -> Seq(Events)] /\ ListInv'
               /\ \A b \in TimerCpus : \A x \in Events :
                     Contains(events'[b], x) => Contains(events[b], x)
               /\ \A b \in TimerCpus : events'[b] # <<>> => events[b] # <<>>
    <3> DEFINE r == Unlinked(e, events[d])
    <3>1. /\ events[d] \in Seq(Events) /\ Distinct(events[d])
          /\ InOrder(events[d], sched_time) /\ sched_time \in [Events -> Nat]
      BY <1>2 DEF TimerTypeOK, ListInv
    <3>2. /\ r \in Seq(Events) /\ Distinct(r) /\ InOrder(r, sched_time)
          /\ \A x : Contains(r, x) <=> Contains(events[d], x) /\ x # e
      BY <1>2, <2>2, <3>1, UnlinkedList
    <3>3. events' = [events EXCEPT ![d] = r]
      BY <2>2
    <3> HIDE DEF r
    <3>4. /\ events' \in [TimerCpus -> Seq(Events)] /\ events'[d] = r
          /\ \A b \in TimerCpus : b # d => events'[b] = events[b]
      BY <1>2, <3>2, <3>3 DEF TimerTypeOK
    <3>5. \A x \in Events : Contains(r, x) =>
             /\ Contains(events[d], x) \/ ~Linked(x)
             /\ owner'[x] \in {"set", "cancelling"} /\ sched_time'[x] # 0
      BY <1>2, <1>4, <3>2 DEF ListInv
    <3>6. \A b \in TimerCpus : \A x \in Events : b # d /\ Contains(events[b], x) =>
             sched_time'[x] = sched_time[x] /\ owner'[x] \in {"set", "cancelling"}
      BY <1>2, <1>4, <2>2 DEF ListInv
    <3>7. ListInv'
      BY <1>2, <3>2, <3>3, <3>5, <3>6, ListStep
    <3>8. events[d] # <<>>
      BY <2>2, <3>1, EmptySeq DEF Contains
    <3> QED BY <3>2, <3>4, <3>7, <3>8
  <2> QED BY <1>1, <2>1, <2>2
<1>6. TimerTypeOK'
  BY <1>2, <1>4, <1>5 DEF TimerTypeOK, Handlers
<1>7. SettingInv'
  BY <1>2, <1>4 DEF SettingInv
<1>8. CallInv'
  <2>1. \A x \in Events : mode[x].periodic =>
           owner'[x] \in {"setting", "set"} /\ (owner[x] = "set" => owner'[x] = "set")
    BY <1>2, <1>4 DEF CallInv
  <2>2. \A x \in Events : Linked(x)' => Linked(x)
    BY <1>5 DEF Linked
  <2>3. \A d \in TimerCpus : handler'[d].pc = "call" => handler'[d] = handler[d]
    BY <1>3, <1>4
  <2> QED BY <1>2, <2>1, <2>2, <2>3, CallSame
<1>9. CancelInv'
  <2>1. \A d \in TimerCpus : handler'[d].pc \in CancelPcs => d # c /\ handler'[d] = handler[d]
    BY <1>3, <1>4 DEF CancelPcs
  <2>2. \A d \in TimerCpus : \A x \in Events : Cancels(d, x)' => Cancels(d, x) /\ x # e
    BY <1>2, <2>1 DEF Cancels, CancelInv
  <2>3. \A d \in TimerCpus : \A x \in Events : Cancels(d, x)' => owner'[x] = "cancelling"
    BY <1>2, <1>4, <2>2 DEF CancelInv
  <2> QED BY <1>2, <1>5, <2>1, <2>3, CancelSame
<1>10. ArmedInv'
  <2>1. \A d \in TimerCpus : handler'[d].pc \notin {"scan", "call"} =>
           handler[d].pc \notin {"scan", "call"}
    BY <1>4 DEF CancelPcs
  <2> QED BY <1>2, <1>5, <2>1 DEF ArmedInv
<1> QED BY <1>5, <1>6, <1>7, <1>8, <1>9, <1>10 DEF TimerInductive

(* It returns when the event is found, or in none of the lists.            *)
LEMMA FoundKeeps ==
    ASSUME TimerInductive, NEW c \in TimerCpus,
           LocalFound(c) \/ OthersFound(c) \/ OthersEnd(c)
    PROVE  TimerInductive'
<1>1. /\ CancelReturns(c) /\ UNCHANGED <<sched_time, mode, clock>>
      /\ handler[c].pc \in CancelPcs
  BY DEF LocalFound, OthersFound, OthersEnd, CancelPcs
<1>2. armed \in SUBSET TimerCpus /\ CancelInv /\ handler[c] \in Handlers
  BY DEF TimerInductive, TimerTypeOK, Handlers
<1>3. CASE LocalFound(c)
  <2>1. /\ Contains(events[c], handler[c].ev)
        /\ events' = [events EXCEPT ![c] = Unlinked(handler[c].ev, @)]
        /\ armed' = IF events'[c] = <<>> THEN armed \ {c} ELSE armed \cup {c}
    BY <1>3 DEF LocalFound
  <2>2. /\ armed' \in SUBSET TimerCpus
        /\ \A d \in TimerCpus : d \in armed /\ events'[d] # <<>> => d \in armed'
    BY <1>2, <2>1
  <2> QED BY <1>1, <2>1, <2>2, CancelReturnsKeeps
<1>4. CASE OthersFound(c)
  <2>1. /\ handler[c].at \in TimerCpus /\ Contains(events[handler[c].at], handler[c].ev)
        /\ events' = [events EXCEPT ![handler[c].at] = Unlinked(handler[c].ev, @)]
        /\ armed' = armed
    BY <1>4 DEF OthersFound
  <2> QED BY <1>1, <1>2, <2>1, CancelReturnsKeeps
<1>5. CASE OthersEnd(c)
  <2>1. events' = events /\ armed' = armed /\ handler[c].at > LastCpu
    BY <1>5 DEF OthersEnd
  <2>2. \A d \in TimerCpus : d < handler[c].at
    BY <1>2, <2>1, TimerAssumption DEF TimerCpus, Handlers
  <2>3. \A d \in TimerCpus : ~Contains(events[d], handler[c].ev)
    BY <1>1, <1>2, <2>2 DEF CancelInv, Cancels
  <2> QED BY <1>1, <1>2, <2>1, <2>3, CancelReturnsKeeps
<1> QED BY <1>3, <1>4, <1>5

-----------------------------------------------------------------------------
(* No event is scheduled at the start.                                     *)
LEMMA TimerInit ==
    ASSUME timer_init
    PROVE  TimerInductive
<1>1. /\ OneShot \in Modes /\ NotBusy \in Handlers /\ NotBusy.pc = "no"
      /\ <<>> \in Seq(Events) /\ OneShot.periodic = FALSE
  BY DEF OneShot, Modes, NotBusy, Handlers, HandlerPcs
<1>2. TimerTypeOK
  BY <1>1 DEF timer_init, TimerTypeOK, Handlers
<1>3. /\ \A c \in TimerCpus : events[c] = <<>> /\ handler[c] = NotBusy
      /\ \A e \in Events : owner[e] = "unset" /\ mode[e] = OneShot
  BY DEF timer_init
<1>4. \A e : ~Contains(<<>>, e)
  BY DEF Contains
<1>5. ListInv /\ SettingInv
  BY <1>3, <1>4 DEF ListInv, SettingInv, Distinct, InOrder
<1>6. CallInv
  BY <1>1, <1>3 DEF CallInv, PutsBack
<1>7. CancelInv
  BY <1>1, <1>3 DEF CancelInv, Cancels, CancelPcs
<1>8. ArmedInv
  BY <1>3 DEF ArmedInv
<1> QED BY <1>2, <1>5, <1>6, <1>7, <1>8 DEF TimerInductive

(* The inductive invariant holds in every state of the timers.             *)
THEOREM TimerInvariant == TimerSpec => []TimerInductive
<1>1. timer_init => TimerInductive
  BY TimerInit
<1>2. TimerInductive /\ [TimerNext /\ PeriodicKept]_timerVars => TimerInductive'
  <2> SUFFICES ASSUME TimerInductive, [TimerNext /\ PeriodicKept]_timerVars
               PROVE  TimerInductive'
    OBVIOUS
  <2>1. CASE UNCHANGED timerVars
    BY <2>1 DEF timerVars, TimerInductive, TimerTypeOK, ListInv, SettingInv, CallInv, CancelInv,
       ArmedInv, PutsBack, Cancels, Linked
  <2>2. CASE Tick
    BY <2>2, TickKeeps
  <2>3. ASSUME NEW e \in Events, NEW t \in 0 .. MaxTime, NEW p \in BOOLEAN,
               timer_set_event(e, t, p)
        PROVE  TimerInductive'
    BY <2>3, SetEventKeeps, TimerAssumption
  <2>4. ASSUME NEW e \in Events, CancelUnscheduled(e), PeriodicKept
        PROVE  TimerInductive'
    BY <2>4, UnscheduledKeeps
  <2>5. ASSUME NEW e \in Events, NEW c \in TimerCpus, PeriodicKept,
               SetInsert(e, c) \/ timer_cancel_event(e, c)
        PROVE  TimerInductive'
    BY <2>5, SetInsertKeeps, CancelKeeps
  <2>6. ASSUME NEW c \in TimerCpus, timer_interrupt(c) \/ HandlerStep(c)
        PROVE  TimerInductive'
    BY <2>6, InterruptKeeps, ScanDueKeeps, CalledKeeps, ScanEndKeeps, FoundKeeps, LocalKeeps,
       OthersNextKeeps DEF HandlerStep
  <2> QED BY <2>1, <2>2, <2>3, <2>4, <2>5, <2>6 DEF TimerNext
<1> QED BY <1>1, <1>2, PTL DEF TimerSpec

(* The event lists stay sorted and disjoint, a CPU with events has its     *)
(* hardware timer set when it is not busy with them, and no list leads to  *)
(* an event whose owner has given it up, however setting, firing and       *)
(* cancelling interleave on any number of CPUs.                            *)
THEOREM EventListsAlways == TimerSpec => []EventLists
<1>1. TimerInductive => EventLists
  <2> SUFFICES ASSUME TimerInductive PROVE EventLists
    OBVIOUS
  <2>1. TimerTypeOK /\ ListInv /\ ArmedInv
    BY DEF TimerInductive
  <2>2. \A c \in TimerCpus : \A i, j \in 1 .. Len(events[c]) : i < j =>
          /\ events[c][i] # events[c][j]
          /\ sched_time[events[c][i]] <= sched_time[events[c][j]]
    BY <2>1 DEF ListInv, Distinct, InOrder
  <2>3. \A c, d \in TimerCpus : c # d => ToSet(events[c]) \cap ToSet(events[d]) = {}
    <3> SUFFICES ASSUME NEW c \in TimerCpus, NEW d \in TimerCpus,
                        NEW x \in ToSet(events[c]) \cap ToSet(events[d])
                 PROVE  c = d
      OBVIOUS
    <3>1. /\ events[c] \in Seq(Events) /\ events[d] \in Seq(Events)
      BY <2>1 DEF TimerTypeOK
    <3>2. /\ DOMAIN events[c] = 1 .. Len(events[c]) /\ DOMAIN events[d] = 1 .. Len(events[d])
      BY <3>1, LenProperties
    <3>3. Contains(events[c], x) /\ Contains(events[d], x)
      BY <3>2 DEF ToSet, Contains
    <3>4. x \in Events
      BY <3>1, <3>3, ElementOfSeq DEF Contains
    <3> QED BY <2>1, <3>3, <3>4 DEF ListInv
  <2>4. ListsSorted
    BY <2>2, <2>3 DEF ListsSorted
  <2>5. HardwareArmed
    BY <2>1 DEF ArmedInv, HardwareArmed
  <2>6. NotLinkedWhenUnset
    BY <2>1 DEF ListInv, NotLinkedWhenUnset, Linked
  <2> QED BY <2>4, <2>5, <2>6 DEF EventLists
<1> QED BY <1>1, TimerInvariant, PTL
=============================================================================
