---------------------------- MODULE LoggerProofs ----------------------------
(***************************************************************************)
(* How far the logger exceeds its limit, and that it prints every entry    *)
(* once and in order, for any number of threads and entries.               *)
(***************************************************************************)
EXTENDS Logger, FiniteSetTheorems, TLAPS

Places == {"idle", "count", "push", "pushwait", "notify", "notifywait",
           "pred", "block", "waiting", "notifystop", "join"}

(* The limit with the types it needs; it is inductive because it counts    *)
(* the threads that have passed the check and not incremented yet.         *)
LimitInv ==
  /\ pc \in [Clients -> Places]
  /\ g_count \in Int
  /\ LimitOvershoot

(* The threads between check and increment are finitely many.              *)
LEMMA CountingFinite ==
  /\ IsFiniteSet(Counting)
  /\ Cardinality(Counting) \in Nat
  /\ Cardinality(Counting) <= Cardinality(Clients)
  /\ IsFiniteSet(Clients) /\ Cardinality(Clients) \in Nat
<1>1. IsFiniteSet(Clients)
  BY LoggerAssumption
<1>2. Counting \subseteq Clients
  BY DEF Counting
<1> QED
  BY <1>1, <1>2, FS_Subset, FS_CardinalityType

(* Before anything is logged there is room: a thread exists.               *)
LEMMA LimitInit == Init => LimitInv
<1> SUFFICES ASSUME Init PROVE LimitInv
  OBVIOUS
<1>1. Counting = {}
  BY DEF Init, Counting
<1>2. Cardinality(Counting) = 0
  BY <1>1, FS_EmptySet
<1>3. Cardinality(Clients) \in Nat /\ Cardinality(Clients) # 0
  BY LoggerAssumption, FS_EmptySet, FS_CardinalityType
<1>4. pc \in [Clients -> Places] /\ g_count = 0
  BY DEF Init, Places
<1> QED
  BY <1>2, <1>3, <1>4, LoggerAssumption DEF LimitInv, LimitOvershoot

(* A step that leaves g_count alone, and lets nobody in who did not see    *)
(* that fewer than the limit are queued.                                   *)
LEMMA NobodyCounts ==
  ASSUME LimitInv, pc' \in [Clients -> Places], g_count' = g_count, Counting' \subseteq Counting
  PROVE  LimitInv'
<1>1. IsFiniteSet(Counting) /\ Cardinality(Counting) \in Nat /\ Cardinality(Clients) \in Nat
  BY CountingFinite
<1>2. Cardinality(Counting') \in Nat /\ Cardinality(Counting') <= Cardinality(Counting)
  BY <1>1, FS_Subset, FS_CardinalityType
<1> QED
  BY <1>1, <1>2, LoggerAssumption DEF LimitInv, LimitOvershoot

(* The check lets a thread pass that saw fewer entries than the limit.     *)
LEMMA CheckKeepsLimit ==
  ASSUME LimitInv, NEW c \in Clients, CheckLimit(c)
  PROVE  LimitInv'
<1>1. CASE Goto(c, "idle", "pushwait")
  <2>1. pc' \in [Clients -> Places] /\ Counting' \subseteq Counting
    BY <1>1 DEF Goto, LimitInv, Places, Counting
  <2> QED
    BY <2>1, NobodyCounts DEF CheckLimit
<1>2. CASE g_count < Limit /\ Goto(c, "idle", "count")
  <2>1. pc' \in [Clients -> Places]
    BY <1>2 DEF Goto, LimitInv, Places
  <2>2. Cardinality(Counting') \in Nat /\ Cardinality(Counting') <= Cardinality(Clients)
    <3>1. Counting' \subseteq Clients
      BY DEF Counting
    <3> QED
      BY <3>1, LoggerAssumption, FS_Subset, FS_CardinalityType
  <2>3. Cardinality(Clients) \in Nat
    BY CountingFinite
  <2>4. g_count' = g_count
    BY DEF CheckLimit
  <2> QED
    BY <1>2, <2>1, <2>2, <2>3, <2>4, LoggerAssumption DEF LimitInv, LimitOvershoot
<1> QED
  BY <1>1, <1>2 DEF CheckLimit

(* The increment takes a thread off those on their way.                    *)
LEMMA CountKeepsLimit ==
  ASSUME LimitInv, NEW c \in Clients, Count(c)
  PROVE  LimitInv'
<1>1. /\ c \in Counting
      /\ Counting' = Counting \ {c}
      /\ pc' \in [Clients -> Places]
  BY DEF Count, Goto, Counting, LimitInv, Places
<1>2. /\ IsFiniteSet(Counting)
      /\ Cardinality(Counting) \in Nat /\ Cardinality(Clients) \in Nat
  BY CountingFinite
<1>3. Cardinality(Counting') = Cardinality(Counting) - 1
  BY <1>1, <1>2, FS_RemoveElement
<1>4. g_count' = g_count + 1
  BY DEF Count
<1> QED
  BY <1>1, <1>2, <1>3, <1>4, LoggerAssumption DEF LimitInv, LimitOvershoot

(* A printed entry makes room.                                             *)
LEMMA DiscountKeepsLimit ==
  ASSUME LimitInv, Discount
  PROVE  LimitInv'
<1>1. pc' = pc /\ Counting' = Counting /\ g_count' = g_count - 1
  BY DEF Discount, clientVars, Counting
<1>2. Cardinality(Counting) \in Nat /\ Cardinality(Clients) \in Nat
  BY CountingFinite
<1> QED
  BY <1>1, <1>2, LoggerAssumption DEF LimitInv, LimitOvershoot

(* The rest of queue() and stop().                                         *)
LEMMA ClientKeepsLimit ==
  ASSUME LimitInv, NEW c \in Clients,
         Push(c) \/ Posted(c) \/ Predicate(c) \/ Block(c) \/ Stopped(c) \/ Join(c)
           \/ Stop(c) \/ SpuriousWake(c)
  PROVE  LimitInv'
<1>1. g_count' = g_count
  BY DEF Push, Posted, Predicate, Block, Stopped, Join, Stop, SpuriousWake
<1>2. PICK to \in Places \ {"count"} : pc' = [pc EXCEPT ![c] = to]
  <2>1. CASE Push(c)
    BY <2>1 DEF Push, Places
  <2>2. CASE Posted(c)
    BY <2>2 DEF Posted, Goto, Places
  <2>3. CASE Predicate(c) \/ Block(c) \/ SpuriousWake(c)
    BY <2>3 DEF Predicate, Block, SpuriousWake, Goto, Places
  <2>4. CASE Stop(c) \/ Stopped(c) \/ Join(c)
    BY <2>4 DEF Stop, Stopped, Join, Goto, Places
  <2> QED
    BY <2>1, <2>2, <2>3, <2>4
<1>3. pc' \in [Clients -> Places] /\ Counting' \subseteq Counting
  BY <1>2 DEF LimitInv, Counting
<1> QED
  BY <1>1, <1>3, NobodyCounts

(* The thread of the logger, but for the entry it discounts.               *)
LEMMA WorkerKeepsLimit ==
  ASSUME LimitInv, AcquireBatch \/ CheckStop \/ PrintEntry \/ Complete \/ NotifyClient
  PROVE  LimitInv'
<1>1. CASE AcquireBatch \/ CheckStop \/ PrintEntry \/ Complete
  <2>1. pc' = pc /\ g_count' = g_count
    BY <1>1 DEF AcquireBatch, CheckStop, PrintEntry, Complete, clientVars
  <2>2. pc' \in [Clients -> Places] /\ Counting' \subseteq Counting
    BY <2>1 DEF LimitInv, Counting
  <2> QED
    BY <2>1, <2>2, NobodyCounts
<1>2. CASE NotifyClient
  <2>1. /\ g_count' = g_count
        /\ pc' = [pc EXCEPT ![Current.by] = IF @ = "waiting" THEN "pred" ELSE @]
    BY <1>2 DEF NotifyClient
  <2>2. pc' \in [Clients -> Places] /\ Counting' \subseteq Counting
    BY <2>1 DEF LimitInv, Counting, Places
  <2> QED
    BY <2>1, <2>2, NobodyCounts
<1> QED
  BY <1>1, <1>2

(* Every step of the logger keeps the limit.                               *)
LEMMA LimitStep == LimitInv /\ [Next]_vars => LimitInv'
<1> SUFFICES ASSUME LimitInv, [Next]_vars PROVE LimitInv'
  OBVIOUS
<1>1. ASSUME NEW c \in Clients, CheckLimit(c) PROVE LimitInv'
  BY <1>1, CheckKeepsLimit
<1>2. ASSUME NEW c \in Clients, Count(c) PROVE LimitInv'
  BY <1>2, CountKeepsLimit
<1>3. ASSUME NEW c \in Clients,
             Push(c) \/ Posted(c) \/ Predicate(c) \/ Block(c) \/ Stopped(c) \/ Join(c)
               \/ Stop(c) \/ SpuriousWake(c)
      PROVE  LimitInv'
  BY <1>3, ClientKeepsLimit
<1>4. CASE Discount
  BY <1>4, DiscountKeepsLimit
<1>5. CASE AcquireBatch \/ CheckStop \/ PrintEntry \/ Complete \/ NotifyClient
  BY <1>5, WorkerKeepsLimit
<1>6. CASE UNCHANGED vars
  <2>1. pc' = pc /\ g_count' = g_count
    BY <1>6 DEF vars, clientVars
  <2>2. pc' \in [Clients -> Places] /\ Counting' \subseteq Counting
    BY <2>1 DEF LimitInv, Counting
  <2> QED
    BY <2>1, <2>2, NobodyCounts
<1> QED
  BY <1>1, <1>2, <1>3, <1>4, <1>5, <1>6 DEF Next, Client, Worker

(* log::queue() exceeds g_limit by less than the number of threads that    *)
(* log, although it checks g_count before it increments it.                *)
THEOREM LimitHolds == Spec => []LimitOvershoot
<1>1. LimitInv => LimitOvershoot
  BY DEF LimitInv
<1> QED
  BY <1>1, LimitInit, LimitStep, PTL DEF Spec

-----------------------------------------------------------------------------
(* The order of the entries.  They go from the queue to the batch and from *)
(* there to the output, each by itself, so that the order is one of three  *)
(* sequences and of every two of them.                                     *)

\* Entry e was made after those of the same thread in s.
Above(e, s) == \A d \in Range(s) : d.by = e.by => d.no < e.no

Before(s, t) == \A e \in Range(t) : Above(e, s)

Sorted(s) == \A i, j \in 1..Len(s) : i < j /\ s[i].by = s[j].by => s[i].no < s[j].no

OrderShape ==
  /\ Sorted(printed) /\ Sorted(batch) /\ Sorted(queue)
  /\ Before(printed, batch) /\ Before(printed, queue) /\ Before(batch, queue)

WorkerPlaces == {"acquire", "loop", "predicate", "predstop", "sleep", "asleep", "left",
                 "print", "discount", "store", "notify"}

Types ==
  /\ pc \in [Clients -> Places]
  /\ made \in [Clients -> 0..MaxEntries] /\ completed \in [Clients -> BOOLEAN]
  /\ queue \in Seq(Entries) /\ batch \in Seq(Entries) /\ printed \in Seq(Entries)
  /\ worker \in WorkerPlaces
  /\ \A c \in Clients : pc[c] \in {"count", "push", "pushwait"} => made[c] > 0
  /\ worker \in {"store", "notify"} => printed # <<>>
  /\ worker \notin {"print", "discount", "store", "notify"} => batch = <<>>

\* Entry e is one that its thread has queued.
Queued(e) ==
  /\ e.no <= made[e.by]
  /\ pc[e.by] \in {"count", "push", "pushwait"} => e.no < made[e.by]

QueuedShape == \A e \in Range(printed) \cup Range(batch) \cup Range(queue) : Queued(e)

\* The thread of e waits in queue() for e.
Awaited(e) ==
  /\ e.no = made[e.by] /\ ~completed[e.by]
  /\ Waits(e.by) \/ pc[e.by] = "notifywait"

(* An entry with completion is awaited until the flag is set.              *)
AwaitedShape ==
  /\ \A c \in Clients : pc[c] \in {"count", "push", "pushwait"} => ~completed[c]
  /\ \A e \in Range(batch) \cup Range(queue) : e.wait => Awaited(e)
  /\ worker = "store" => Current.wait /\ Awaited(Current)

(* A flag that is set is the one of the last entry of the thread.          *)
CompletedShape == \A c \in Clients :
  completed[c] => [by |-> c, no |-> made[c], wait |-> TRUE] \in Range(printed)

Pushing == {c \in Clients : pc[c] = "push"}
Plain   == {e \in Range(queue) \cup Range(batch) : ~e.wait}

CountShape ==
  /\ IsFiniteSet(Plain)
  /\ g_count = Cardinality(Pushing) + Cardinality(Plain) + (IF worker = "discount" THEN 1 ELSE 0)

OrderInv == Types /\ OrderShape /\ QueuedShape /\ AwaitedShape /\ CompletedShape /\ CountShape

-----------------------------------------------------------------------------
(* An entry is added at the end of a sequence.                             *)
LEMMA AddedLast ==
  ASSUME NEW s \in Seq(Entries), NEW e \in Entries
  PROVE  /\ Append(s, e) \in Seq(Entries)
         /\ Range(Append(s, e)) = Range(s) \cup {e}
         /\ Sorted(s) /\ Above(e, s) => Sorted(Append(s, e))
<1> DEFINE t == Append(s, e)
<1>1. t \in Seq(Entries) /\ Len(t) = Len(s) + 1
  OBVIOUS
<1>2. \A i \in 1..Len(t) : t[i] = IF i = Len(s) + 1 THEN e ELSE s[i]
  OBVIOUS
<1> HIDE DEF t
<1>3. Range(t) = Range(s) \cup {e}
  BY <1>1, <1>2 DEF Range
<1>4. ASSUME Sorted(s), Above(e, s) PROVE Sorted(t)
  BY <1>1, <1>2, <1>4 DEF Sorted, Above, Range
<1> QED
  BY <1>1, <1>3, <1>4 DEF t

(* The first entry of a sequence is taken away.                            *)
LEMMA TakenFirst ==
  ASSUME NEW s \in Seq(Entries), s # <<>>
  PROVE  /\ Head(s) \in Entries /\ Tail(s) \in Seq(Entries)
         /\ Range(s) = Range(Tail(s)) \cup {Head(s)}
         /\ Sorted(s) => /\ Sorted(Tail(s)) /\ Head(s) \notin Range(Tail(s))
                         /\ \A e \in Range(Tail(s)) : e.by = Head(s).by => Head(s).no < e.no
<1> DEFINE t == Tail(s)
           h == Head(s)
<1>1. /\ h \in Entries /\ t \in Seq(Entries) /\ Len(t) = Len(s) - 1 /\ Len(s) > 0
      /\ h = s[1]
  OBVIOUS
<1>2. \A i \in 1..Len(t) : t[i] = s[i + 1]
  OBVIOUS
<1> HIDE DEF t, h
<1>3. Range(s) = Range(t) \cup {h}
  <2>1. \A x \in Range(s) : x \in Range(t) \cup {h}
    <3> TAKE x \in Range(s)
    <3>1. PICK i \in 1..Len(s) : x = s[i]
      BY DEF Range
    <3>2. CASE i = 1
      BY <1>1, <3>1, <3>2
    <3>3. CASE i # 1
      <4>1. i - 1 \in 1..Len(t) /\ t[i - 1] = s[i]
        BY <1>1, <1>2, <3>3
      <4> QED
        BY <1>1, <3>1, <4>1 DEF Range
    <3> QED
      BY <3>2, <3>3
  <2>2. \A x \in Range(t) : x \in Range(s)
    BY <1>1, <1>2 DEF Range
  <2>3. h \in Range(s)
    BY <1>1 DEF Range
  <2> QED
    BY <2>1, <2>2, <2>3
<1>4. ASSUME Sorted(s) PROVE Sorted(t)
  <2>1. ASSUME NEW i \in 1..Len(t), NEW j \in 1..Len(t), i < j, t[i].by = t[j].by PROVE t[i].no < t[j].no
    <3>1. i + 1 \in 1..Len(s) /\ j + 1 \in 1..Len(s) /\ i + 1 < j + 1
      BY <1>1, <2>1
    <3>2. t[i] = s[i + 1] /\ t[j] = s[j + 1]
      BY <1>2
    <3> QED
      BY <1>4, <2>1, <3>1, <3>2 DEF Sorted
  <2> QED
    BY <2>1 DEF Sorted
<1>5. ASSUME Sorted(s), NEW e \in Range(t), e.by = h.by PROVE h.no < e.no
  <2>1. PICK i \in 1..Len(t) : e = s[i + 1]
    BY <1>1, <1>2 DEF Range
  <2> QED
    BY <2>1, <1>1, <1>5 DEF Sorted
<1>6. ASSUME Sorted(s) PROVE h \notin Range(t)
  BY <1>5, <1>6, <1>1 DEF Entries
<1> QED
  BY <1>1, <1>3, <1>4, <1>5, <1>6 DEF t, h

-----------------------------------------------------------------------------
(* Nothing is queued, nobody waits, nothing is printed.                    *)
LEMMA OrderInit == Init => OrderInv
<1> SUFFICES ASSUME Init PROVE OrderInv
  OBVIOUS
<1> USE LoggerAssumption DEF Init
<1>1. Range(printed) = {} /\ Range(batch) = {} /\ Range(queue) = {}
  BY DEF Range
<1>2. Types
  BY DEF Types, Places, WorkerPlaces
<1>3. OrderShape
  BY <1>1 DEF OrderShape, Sorted, Before
<1>4. QueuedShape /\ AwaitedShape /\ CompletedShape
  BY <1>1 DEF QueuedShape, AwaitedShape, CompletedShape
<1>5. Pushing = {} /\ Plain = {}
  BY <1>1 DEF Pushing, Plain
<1>6. CountShape
  BY <1>5, FS_EmptySet DEF CountShape
<1> QED
  BY <1>2, <1>3, <1>4, <1>6 DEF OrderInv

(* Every step keeps the types; the entry that queue() makes is one.        *)
LEMMA TypesStep ==
  ASSUME Types, [Next]_vars
  PROVE  Types'
<1> USE LoggerAssumption DEF Types, Places, WorkerPlaces, clientVars, contextVars, workerVars
<1>1. ASSUME NEW c \in Clients, CheckLimit(c) PROVE Types'
  <2>1. made[c] + 1 \in 0..MaxEntries /\ made[c] + 1 > 0
    BY <1>1 DEF CheckLimit
  <2>2. made' \in [Clients -> 0..MaxEntries] /\ completed' \in [Clients -> BOOLEAN]
    BY <1>1, <2>1 DEF CheckLimit
  <2>3. pc' \in [Clients -> Places]
    BY <1>1 DEF CheckLimit, Goto
  <2>4. \A d \in Clients : pc'[d] \in {"count", "push", "pushwait"} => made'[d] > 0
    BY <1>1, <2>1 DEF CheckLimit, Goto
  <2> QED
    BY <1>1, <2>2, <2>3, <2>4 DEF CheckLimit
<1>2. ASSUME NEW c \in Clients, Count(c) PROVE Types'
  BY <1>2 DEF Count, Goto
<1>3. ASSUME NEW c \in Clients, Push(c) PROVE Types'
  <2>1. [by |-> c, no |-> made[c], wait |-> pc[c] = "pushwait"] \in Entries
    BY <1>3 DEF Push, Entries
  <2>2. queue' \in Seq(Entries)
    BY <1>3, <2>1 DEF Push
  <2> QED
    BY <1>3, <2>2 DEF Push
<1>4. ASSUME NEW c \in Clients, Posted(c) PROVE Types'
  BY <1>4 DEF Posted, Notify, Goto
<1>5. ASSUME NEW c \in Clients, Predicate(c) \/ Block(c) \/ SpuriousWake(c) PROVE Types'
  BY <1>5 DEF Predicate, Block, SpuriousWake, Goto
<1>6. ASSUME NEW c \in Clients, Stop(c) \/ Join(c) PROVE Types'
  BY <1>6 DEF Stop, Join, Goto
<1>7. ASSUME NEW c \in Clients, Stopped(c) PROVE Types'
  BY <1>7 DEF Stopped, Notify, Goto
<1>8. CASE AcquireBatch
  BY <1>8 DEF AcquireBatch
<1>9. CASE CheckStop
  BY <1>9 DEF CheckStop
<1>10. CASE PrintEntry
  <2>1. CASE batch # <<>> /\ printed' = Append(printed, Head(batch)) /\ batch' = Tail(batch)
    <3>1. /\ Head(batch) \in Entries /\ batch' \in Seq(Entries)
          /\ printed' \in Seq(Entries)
      BY <2>1, TakenFirst, AddedLast
    <3>2. printed' # <<>>
      <4>1. Len(printed') = Len(printed) + 1 /\ Len(printed) \in Nat
        BY <2>1, <3>1
      <4> QED
        BY <4>1
    <3> QED
      BY <1>10, <2>1, <3>1, <3>2 DEF PrintEntry
  <2>2. CASE batch = <<>>
    BY <1>10, <2>2 DEF PrintEntry
  <2> QED
    BY <1>10, <2>1, <2>2 DEF PrintEntry
<1>11. CASE Discount
  BY <1>11 DEF Discount
<1>12. CASE Complete
  BY <1>12 DEF Complete
<1>13. CASE NotifyClient
  BY <1>13 DEF NotifyClient
<1>14. CASE UNCHANGED vars
  BY <1>14 DEF vars
<1> QED
  BY <1>1, <1>2, <1>3, <1>4, <1>5, <1>6, <1>7, <1>8, <1>9, <1>10, <1>11, <1>12, <1>13, <1>14
  DEF Next, Client, Worker

(* The entry that queue() makes.                                           *)
LEMMA PushEntry ==
  ASSUME Types, NEW c \in Clients, Push(c)
  PROVE  \E e \in Entries :
           /\ e.by = c /\ e.no = made[c] /\ e.wait = (pc[c] = "pushwait")
           /\ queue' = Append(queue, e) /\ UNCHANGED <<batch, printed, made, completed, worker, g_count>>
<1> DEFINE e == [by |-> c, no |-> made[c], wait |-> pc[c] = "pushwait"]
<1>1. e \in Entries /\ e.by = c /\ e.no = made[c] /\ e.wait = (pc[c] = "pushwait")
  BY DEF Push, Types, Entries
<1>2. queue' = Append(queue, e) /\ UNCHANGED <<batch, printed, made, completed, worker, g_count>>
  BY DEF Push, workerVars
<1> QED
  BY <1>1, <1>2

(* An entry is queued after all others of its thread, and goes from one    *)
(* sequence to the next before those that are behind it.                   *)
LEMMA OrderStep ==
  ASSUME Types, OrderShape, QueuedShape, [Next]_vars
  PROVE  OrderShape'
<1>1. ASSUME NEW c \in Clients, Push(c) PROVE OrderShape'
  <2>1. PICK e \in Entries :
          /\ e.by = c /\ e.no = made[c] /\ e.wait = (pc[c] = "pushwait")
          /\ queue' = Append(queue, e) /\ UNCHANGED <<batch, printed, made, completed, worker, g_count>>
    BY <1>1, PushEntry
  <2>2. queue' = Append(queue, e) /\ UNCHANGED <<batch, printed, made>>
    BY <2>1
  <2>3. Above(e, printed) /\ Above(e, batch) /\ Above(e, queue)
    BY <1>1, <2>1 DEF Push, QueuedShape, Queued, Above
  <2>4. Range(queue') = Range(queue) \cup {e} /\ Sorted(queue')
    BY <2>1, <2>2, <2>3, AddedLast DEF Types, OrderShape
  <2> QED
    BY <2>2, <2>3, <2>4 DEF OrderShape, Before
<1>2. CASE AcquireBatch
  <2>1. CASE queue # <<>>
    <3>1. batch = <<>> /\ batch' = queue /\ queue' = <<>> /\ printed' = printed
      BY <1>2, <2>1 DEF AcquireBatch, Types
    <3>2. Range(queue') = {} /\ Sorted(queue')
      BY <3>1 DEF Range, Sorted
    <3> QED
      BY <3>1, <3>2 DEF OrderShape, Before
  <2>2. CASE queue = <<>>
    BY <1>2, <2>2 DEF AcquireBatch, OrderShape
  <2> QED
    BY <2>1, <2>2
<1>3. CASE PrintEntry
  <2>1. CASE batch # <<>>
    <3>1. printed' = Append(printed, Head(batch)) /\ batch' = Tail(batch) /\ queue' = queue
      BY <1>3, <2>1 DEF PrintEntry, contextVars
    <3>2. /\ Head(batch) \in Entries /\ Range(batch) = Range(batch') \cup {Head(batch)}
          /\ Sorted(batch')
          /\ \A e \in Range(batch') : e.by = Head(batch).by => Head(batch).no < e.no
      BY <2>1, <3>1, TakenFirst DEF Types, OrderShape
    <3>3. Above(Head(batch), printed)
      BY <3>2 DEF OrderShape, Before
    <3>4. Range(printed') = Range(printed) \cup {Head(batch)} /\ Sorted(printed')
      BY <3>1, <3>2, <3>3, AddedLast DEF Types, OrderShape
    <3>5. Before(printed', batch') /\ Before(printed', queue') /\ Before(batch', queue')
      BY <3>1, <3>2, <3>4 DEF OrderShape, Before, Above
    <3> QED
      BY <3>1, <3>2, <3>4, <3>5 DEF OrderShape
  <2>2. CASE batch = <<>>
    BY <1>3, <2>2 DEF PrintEntry, contextVars, workerVars, OrderShape
  <2> QED
    BY <2>1, <2>2
<1>4. CASE UNCHANGED <<queue, batch, printed>>
  BY <1>4 DEF OrderShape
<1> QED
  BY <1>1, <1>2, <1>3, <1>4
  DEF Next, Client, Worker, CheckLimit, Count, Posted, Predicate, Block, SpuriousWake, Stop, Stopped,
      Join, CheckStop, Discount, Complete, NotifyClient, vars, contextVars, workerVars

(* What is in the three sequences, together, changes with Push only.       *)
LEMMA SameEntries ==
  ASSUME Types, [Next]_vars, \A c \in Clients : ~Push(c)
  PROVE  /\ Range(printed') \cup Range(batch') \cup Range(queue') = Range(printed) \cup Range(batch) \cup Range(queue)
         /\ Range(batch') \cup Range(queue') \subseteq Range(batch) \cup Range(queue)
<1>1. CASE AcquireBatch
  <2>1. CASE queue # <<>>
    <3>1. batch = <<>> /\ batch' = queue /\ queue' = <<>> /\ printed' = printed
      BY <1>1, <2>1 DEF AcquireBatch, Types
    <3>2. Range(queue') = {} /\ Range(batch) = {}
      BY <3>1 DEF Range
    <3> QED
      BY <3>1, <3>2
  <2>2. CASE queue = <<>>
    BY <1>1, <2>2 DEF AcquireBatch
  <2> QED
    BY <2>1, <2>2
<1>2. CASE PrintEntry
  <2>1. CASE batch # <<>>
    <3>1. printed' = Append(printed, Head(batch)) /\ batch' = Tail(batch) /\ queue' = queue
      BY <1>2, <2>1 DEF PrintEntry, contextVars
    <3>2. Head(batch) \in Entries /\ Range(batch) = Range(batch') \cup {Head(batch)}
      BY <2>1, <3>1, TakenFirst DEF Types
    <3>3. Range(printed') = Range(printed) \cup {Head(batch)}
      BY <3>1, <3>2, AddedLast DEF Types
    <3> QED
      BY <3>1, <3>2, <3>3
  <2>2. CASE batch = <<>>
    BY <1>2, <2>2 DEF PrintEntry, contextVars, workerVars
  <2> QED
    BY <2>1, <2>2
<1>3. CASE UNCHANGED <<queue, batch, printed>>
  BY <1>3
<1> QED
  BY <1>1, <1>2, <1>3
  DEF Next, Client, Worker, CheckLimit, Count, Posted, Predicate, Block, SpuriousWake, Stop, Stopped,
      Join, CheckStop, Discount, Complete, NotifyClient, vars, contextVars, workerVars

(* The entries are in Entries, whichever sequence they are in.             *)
LEMMA EntriesOf ==
  ASSUME Types
  PROVE  Range(printed) \cup Range(batch) \cup Range(queue) \subseteq Entries
BY DEF Types, Range

(* made counts the entries that are queued, and the one being queued.      *)
LEMMA QueuedStep ==
  ASSUME Types, QueuedShape, [Next]_vars
  PROVE  QueuedShape'
<1> DEFINE all == Range(printed) \cup Range(batch) \cup Range(queue)
<1>1. ASSUME NEW c \in Clients, Push(c) PROVE QueuedShape'
  <2>1. PICK e \in Entries :
          /\ e.by = c /\ e.no = made[c] /\ e.wait = (pc[c] = "pushwait")
          /\ queue' = Append(queue, e) /\ UNCHANGED <<batch, printed, made, completed, worker, g_count>>
    BY <1>1, PushEntry
  <2>2. queue' = Append(queue, e) /\ UNCHANGED <<batch, printed, made>>
    BY <2>1
  <2>3. all' = all \cup {e}
    BY <2>1, <2>2, AddedLast DEF Types
  <2>4. pc'[c] \in {"notify", "notifywait"} /\ \A d \in Clients \ {c} : pc'[d] = pc[d]
    BY <1>1 DEF Push, Types
  <2>5. Queued(e)'
    BY <2>1, <2>2, <2>4 DEF Queued, Types
  <2>6. ASSUME NEW x \in all PROVE Queued(x)'
    <3>1. x.by \in Clients /\ Queued(x)
      BY <2>6, EntriesOf DEF Entries, QueuedShape
    <3> QED
      BY <3>1, <2>2, <2>4 DEF Queued
  <2> QED
    BY <2>3, <2>5, <2>6 DEF QueuedShape
<1>2. ASSUME \A c \in Clients : ~Push(c) PROVE QueuedShape'
  <2>1. all' = all
    BY <1>2, SameEntries
  <2>2. ASSUME NEW x \in all PROVE Queued(x)'
    <3>1. x.by \in Clients /\ x.no \in Nat /\ Queued(x)
      BY <2>2, EntriesOf DEF Entries, QueuedShape
    <3>2. ASSUME NEW c \in Clients, CheckLimit(c) PROVE Queued(x)'
      BY <3>1, <3>2 DEF CheckLimit, Goto, Queued, Types
    <3>3. ASSUME NEW c \in Clients,
                 Count(c) \/ Posted(c) \/ Predicate(c) \/ Block(c) \/ SpuriousWake(c) \/ Stop(c) \/ Stopped(c) \/ Join(c)
          PROVE  Queued(x)'
      BY <3>1, <3>3 DEF Count, Posted, Predicate, Block, SpuriousWake, Stop, Stopped, Join, Goto, Queued, Types
    <3>4. CASE AcquireBatch \/ CheckStop \/ PrintEntry \/ Discount \/ Complete \/ UNCHANGED vars
      BY <3>1, <3>4 DEF AcquireBatch, CheckStop, PrintEntry, Discount, Complete, vars, clientVars, Queued
    <3>5. CASE NotifyClient
      BY <3>1, <3>5 DEF NotifyClient, Queued, Types
    <3> QED
      BY <1>2, <3>2, <3>3, <3>4, <3>5 DEF Next, Client, Worker
  <2> QED
    BY <2>1, <2>2 DEF QueuedShape
<1> QED
  BY <1>1, <1>2

(* While the entry printed last is being answered it is the last of the    *)
(* sequence, hence made before those that wait behind it.                  *)
LEMMA CurrentPrinted ==
  ASSUME Types, worker \in {"store", "notify"}
  PROVE  Current \in Range(printed) /\ Current \in Entries
<1>1. Len(printed) \in 1..Len(printed)
  BY DEF Types
<1> QED
  BY <1>1 DEF Current, Range, Types

(* A thread leaves queue() only with the flag, and the flag is set for the *)
(* entry it waits for.                                                     *)
LEMMA AwaitedStep ==
  ASSUME Types, OrderShape, AwaitedShape, [Next]_vars
  PROVE  AwaitedShape'
<1> DEFINE rest == Range(batch) \cup Range(queue)
           Early(c) == pc[c] \in {"count", "push", "pushwait"} => ~completed[c]
<1>0. rest \subseteq Entries /\ \A e \in Entries : e.by \in Clients /\ e.no \in Nat
  BY EntriesOf DEF Entries
<1> USE DEF AwaitedShape, Awaited, Waits
<1>1. ASSUME NEW c \in Clients, Push(c) PROVE AwaitedShape'
  <2>1. PICK e \in Entries :
          /\ e.by = c /\ e.no = made[c] /\ e.wait = (pc[c] = "pushwait")
          /\ queue' = Append(queue, e) /\ UNCHANGED <<batch, printed, made, completed, worker, g_count>>
    BY <1>1, PushEntry
  <2>2. rest' = rest \cup {e}
    BY <2>1, AddedLast DEF Types
  <2>3. /\ pc[c] \in {"push", "pushwait"} /\ ~completed[c]
        /\ pc' = [pc EXCEPT ![c] = IF pc[c] = "push" THEN "notify" ELSE "notifywait"]
    BY <1>1 DEF Push
  <2>4. worker = "store" => Current \in Entries /\ Current' = Current
    BY <2>1, CurrentPrinted DEF Current
  <2> QED
    BY <1>0, <2>1, <2>2, <2>3, <2>4 DEF Types
<1>2. ASSUME NEW c \in Clients,
             Count(c) \/ CheckLimit(c) \/ Posted(c) \/ Predicate(c) \/ Block(c) \/ SpuriousWake(c)
               \/ Stop(c) \/ Stopped(c) \/ Join(c)
      PROVE  AwaitedShape'
  <2>1. UNCHANGED <<batch, queue, printed>> /\ (worker' = "store" => worker = "store")
    BY <1>2 DEF Count, CheckLimit, Posted, Predicate, Block, SpuriousWake, Stop, Stopped, Join,
                Notify, contextVars, workerVars
  <2>2. worker' = "store" => Current \in Entries /\ Current' = Current
    BY <2>1, CurrentPrinted DEF Current
  <2>3. /\ \A d \in Clients \ {c} : pc'[d] = pc[d] /\ completed'[d] = completed[d] /\ made'[d] = made[d]
        /\ pc'[c] \in {"count", "push", "pushwait"} => ~completed'[c]
        /\ (Waits(c) \/ pc[c] = "notifywait") /\ ~completed[c] =>
             /\ Waits(c)' \/ pc'[c] = "notifywait"
             /\ completed'[c] = completed[c] /\ made'[c] = made[c]
    <3>1. CASE CheckLimit(c)
      BY <3>1 DEF CheckLimit, Goto, Types
    <3>2. CASE Count(c) \/ Posted(c)
      BY <3>2 DEF Count, Posted, Goto, Types
    <3>3. CASE Predicate(c) \/ Block(c) \/ SpuriousWake(c)
      BY <3>3 DEF Predicate, Block, SpuriousWake, Goto, Types
    <3>4. CASE Stop(c) \/ Stopped(c) \/ Join(c)
      BY <3>4 DEF Stop, Stopped, Join, Goto, Types, clientVars
    <3> QED
      BY <1>2, <3>1, <3>2, <3>3, <3>4
  <2>4. \A d \in Clients : Early(d)'
    BY <2>3
  <2>5. \A e \in Entries : Awaited(e) => Awaited(e)'
    BY <1>0, <2>3
  <2> QED
    BY <1>0, <2>1, <2>2, <2>4, <2>5
<1>3. CASE AcquireBatch \/ CheckStop \/ Discount
  <2>1. UNCHANGED clientVars /\ (worker' # "store")
    BY <1>3 DEF AcquireBatch, CheckStop, Discount
  <2>2. rest' \subseteq rest
    BY <1>3, SameEntries DEF AcquireBatch, CheckStop, Discount, Push
  <2> QED
    BY <2>1, <2>2 DEF clientVars
<1>4. CASE PrintEntry
  <2>1. UNCHANGED clientVars
    BY <1>4 DEF PrintEntry
  <2>2. CASE batch = <<>>
    BY <1>4, <2>1, <2>2 DEF PrintEntry, clientVars, contextVars, workerVars
  <2>3. CASE batch # <<>>
    <3>1. /\ printed' = Append(printed, Head(batch)) /\ batch' = Tail(batch) /\ queue' = queue
          /\ worker' = IF Head(batch).wait THEN "store" ELSE "discount"
      BY <1>4, <2>3 DEF PrintEntry, contextVars
    <3>2. Head(batch) \in Entries /\ Range(batch) = Range(batch') \cup {Head(batch)}
      BY <2>3, <3>1, TakenFirst DEF Types
    <3>3. Current' = Head(batch)
      BY <3>1, <3>2 DEF Current, Types
    <3> QED
      BY <2>1, <3>1, <3>2, <3>3 DEF clientVars
  <2> QED
    BY <2>2, <2>3
<1>5. CASE Complete
  <2>1. Current \in Entries /\ Current \in Range(printed) /\ Awaited(Current)
    BY <1>5, CurrentPrinted DEF Complete
  <2>2. /\ completed' = [completed EXCEPT ![Current.by] = TRUE] /\ worker' = "notify"
        /\ UNCHANGED <<pc, made, batch, queue, printed>>
    BY <1>5 DEF Complete, contextVars, workerVars
  <2>3. \A e \in rest : e.by = Current.by => Current.no < e.no
    BY <2>1 DEF OrderShape, Before, Above
  <2>4. \A e \in rest : e.wait => e.by # Current.by
    BY <1>0, <2>1, <2>3
  <2> QED
    BY <1>0, <2>1, <2>2, <2>4 DEF Types
<1>6. CASE NotifyClient
  <2>1. /\ pc' = [pc EXCEPT ![Current.by] = IF @ = "waiting" THEN "pred" ELSE @] /\ worker' = "print"
        /\ UNCHANGED <<made, completed, batch, queue, printed>>
    BY <1>6 DEF NotifyClient, contextVars, workerVars
  <2> QED
    BY <1>0, <2>1 DEF Types
<1>7. CASE UNCHANGED vars
  BY <1>7 DEF vars, clientVars, contextVars, workerVars, Current
<1> QED
  BY <1>1, <1>2, <1>3, <1>4, <1>5, <1>6, <1>7 DEF Next, Client, Worker

(* What is printed stays printed.                                          *)
LEMMA PrintedStays ==
  ASSUME Types, [Next]_vars
  PROVE  Range(printed) \subseteq Range(printed')
<1>1. CASE PrintEntry /\ batch # <<>>
  <2>1. printed' = Append(printed, Head(batch)) /\ Head(batch) \in Entries
    BY <1>1, TakenFirst DEF PrintEntry, Types
  <2> QED
    BY <2>1, AddedLast DEF Types
<1>2. CASE printed' = printed
  BY <1>2
<1> QED
  BY <1>1, <1>2
  DEF Next, Client, Worker, CheckLimit, Count, Push, Posted, Predicate, Block, SpuriousWake, Stop, Stopped,
      Join, AcquireBatch, CheckStop, PrintEntry, Discount, Complete, NotifyClient, vars, workerVars

(* The flag is set after the output, and reset for the next entry.         *)
LEMMA CompletedStep ==
  ASSUME Types, AwaitedShape, CompletedShape, [Next]_vars
  PROVE  CompletedShape'
<1> SUFFICES ASSUME NEW c \in Clients, completed'[c]
             PROVE  [by |-> c, no |-> made'[c], wait |-> TRUE] \in Range(printed')
  BY DEF CompletedShape
<1>1. CASE completed[c] /\ made'[c] = made[c]
  BY <1>1, PrintedStays DEF CompletedShape
<1>2. CASE Complete /\ c = Current.by
  <2>1. Current \in Entries /\ Current \in Range(printed) /\ Current.wait /\ Current.no = made[c]
    BY <1>2, CurrentPrinted DEF Complete, AwaitedShape, Awaited
  <2>2. Current = [by |-> c, no |-> made[c], wait |-> TRUE]
    BY <1>2, <2>1 DEF Entries
  <2> QED
    BY <1>2, <2>1, <2>2 DEF Complete, workerVars
<1>3. ASSUME NEW d \in Clients, CheckLimit(d) PROVE completed[c] /\ made'[c] = made[c]
  BY <1>3 DEF CheckLimit, Types
<1>4. CASE Complete /\ c # Current.by
  <2>1. completed[c] /\ made'[c] = made[c]
    BY <1>4 DEF Complete, Types
  <2> QED
    BY <1>1, <2>1
<1>5. CASE UNCHANGED <<made, completed>>
  BY <1>1, <1>5
<1> QED
  BY <1>1, <1>2, <1>3, <1>4, <1>5
  DEF Next, Client, Worker, Count, Push, Posted, Predicate, Block, SpuriousWake, Stop, Stopped,
      Join, AcquireBatch, CheckStop, PrintEntry, Discount, NotifyClient, vars, clientVars

(* The threads that have counted an entry and not queued it are finitely   *)
(* many, and so are the entries.                                           *)
LEMMA PushingFinite == IsFiniteSet(Pushing) /\ Cardinality(Pushing) \in Nat
<1>1. Pushing \subseteq Clients
  BY DEF Pushing
<1> QED
  BY <1>1, LoggerAssumption, FS_Subset, FS_CardinalityType

(* A step that neither counts an entry nor moves one that counts.          *)
LEMMA SameCount ==
  ASSUME CountShape, Pushing' = Pushing, Plain' = Plain, g_count' = g_count,
         worker' = "discount" <=> worker = "discount"
  PROVE  CountShape'
BY DEF CountShape

(* Incremented before an entry is queued, decremented after it is printed. *)
LEMMA CountStep ==
  ASSUME Types, OrderShape, QueuedShape, CountShape, [Next]_vars
  PROVE  CountShape'
<1>0. Cardinality(Plain) \in Nat /\ IsFiniteSet(Plain)
  BY FS_CardinalityType DEF CountShape
<1>1. ASSUME NEW c \in Clients, Count(c) PROVE CountShape'
  <2>1. /\ c \notin Pushing /\ Pushing' = Pushing \cup {c}
        /\ Plain' = Plain /\ g_count' = g_count + 1 /\ worker' = worker
    BY <1>1 DEF Count, Goto, Pushing, Plain, Types, contextVars, workerVars
  <2>2. Cardinality(Pushing') = Cardinality(Pushing) + 1
    BY <2>1, PushingFinite, FS_AddElement
  <2> QED
    BY <1>0, <2>1, <2>2, PushingFinite DEF CountShape
<1>2. ASSUME NEW c \in Clients, Push(c) PROVE CountShape'
  <2>1. PICK e \in Entries :
          /\ e.by = c /\ e.no = made[c] /\ e.wait = (pc[c] = "pushwait")
          /\ queue' = Append(queue, e) /\ UNCHANGED <<batch, printed, made, completed, worker, g_count>>
    BY <1>2, PushEntry
  <2>2. Range(queue') \cup Range(batch') = Range(queue) \cup Range(batch) \cup {e}
    BY <2>1, AddedLast DEF Types
  <2>3. CASE pc[c] = "push"
    <3>1. c \in Pushing /\ Pushing' = Pushing \ {c}
      BY <1>2, <2>3 DEF Push, Pushing, Types
    <3>2. Plain' = Plain \cup {e}
      BY <2>1, <2>2, <2>3 DEF Plain
    <3>3. e \notin Plain
      BY <2>1, <2>3 DEF Plain, QueuedShape, Queued, Types, Entries
    <3>4. /\ Cardinality(Pushing') = Cardinality(Pushing) - 1
          /\ IsFiniteSet(Plain') /\ Cardinality(Plain') = Cardinality(Plain) + 1
      BY <1>0, <3>1, <3>2, <3>3, PushingFinite, FS_AddElement, FS_RemoveElement
    <3> QED
      BY <1>0, <2>1, <3>4, PushingFinite DEF CountShape
  <2>4. CASE pc[c] = "pushwait"
    <3>1. Pushing' = Pushing
      BY <1>2, <2>4 DEF Push, Pushing, Types
    <3>2. Plain' = Plain
      BY <2>1, <2>2, <2>4 DEF Plain
    <3> QED
      BY <2>1, <3>1, <3>2, SameCount
  <2> QED
    BY <1>2, <2>3, <2>4 DEF Push
<1>3. ASSUME NEW c \in Clients,
             CheckLimit(c) \/ Posted(c) \/ Predicate(c) \/ Block(c) \/ SpuriousWake(c)
               \/ Stop(c) \/ Stopped(c) \/ Join(c)
      PROVE  CountShape'
  <2>1. Plain' = Plain /\ g_count' = g_count /\ (worker' = "discount" <=> worker = "discount")
    BY <1>3 DEF CheckLimit, Posted, Predicate, Block, SpuriousWake, Stop, Stopped, Join,
                Plain, Notify, contextVars, workerVars
  <2>2. Pushing' = Pushing
    <3>1. CASE CheckLimit(c) \/ Posted(c) \/ Predicate(c)
      BY <3>1 DEF CheckLimit, Posted, Predicate, Goto, Pushing, Types
    <3>2. CASE Block(c) \/ SpuriousWake(c) \/ Stop(c) \/ Stopped(c) \/ Join(c)
      BY <3>2 DEF Block, SpuriousWake, Stop, Stopped, Join, Goto, Pushing, Types
    <3> QED
      BY <1>3, <3>1, <3>2
  <2> QED
    BY <2>1, <2>2, SameCount
<1>4. CASE AcquireBatch
  <2>1. pc' = pc /\ g_count' = g_count /\ worker \in {"acquire", "predicate"} /\ worker' # "discount"
    BY <1>4 DEF AcquireBatch, clientVars
  <2>2. Plain' = Plain
    <3>1. CASE queue # <<>>
      <4>1. batch = <<>> /\ batch' = queue /\ queue' = <<>>
        BY <1>4, <3>1 DEF AcquireBatch, Types
      <4>2. Range(queue') = {} /\ Range(batch) = {}
        BY <4>1 DEF Range
      <4> QED
        BY <4>1, <4>2 DEF Plain
    <3>2. CASE queue = <<>>
      BY <1>4, <3>2 DEF AcquireBatch, Plain
    <3> QED
      BY <3>1, <3>2
  <2>3. Pushing' = Pushing
    BY <2>1 DEF Pushing
  <2> QED
    BY <2>1, <2>2, <2>3, SameCount
<1>5. CASE PrintEntry
  <2>1. pc' = pc /\ Pushing' = Pushing /\ g_count' = g_count /\ worker = "print" /\ queue' = queue
    BY <1>5 DEF PrintEntry, clientVars, contextVars, Pushing
  <2>2. CASE batch = <<>>
    BY <1>5, <2>1, <2>2, SameCount DEF PrintEntry, workerVars, Plain
  <2>3. CASE batch # <<>>
    <3> DEFINE h == Head(batch)
    <3>1. batch' = Tail(batch) /\ worker' = IF h.wait THEN "store" ELSE "discount"
      BY <1>5, <2>3 DEF PrintEntry
    <3>2. /\ h \in Entries /\ Range(batch) = Range(batch') \cup {h} /\ h \notin Range(batch')
      BY <2>3, <3>1, TakenFirst DEF Types, OrderShape
    <3> HIDE DEF h
    <3>3. h \notin Range(queue)
      BY <3>2 DEF OrderShape, Before, Above, Entries
    <3>4. CASE h.wait
      <4>1. Plain' = Plain
        BY <2>1, <3>2, <3>4 DEF Plain
      <4> QED
        BY <2>1, <3>1, <3>4, <4>1, SameCount
    <3>5. CASE ~h.wait
      <4>1. h \in Plain /\ Plain' = Plain \ {h}
        BY <2>1, <3>2, <3>3, <3>5 DEF Plain
      <4>2. IsFiniteSet(Plain') /\ Cardinality(Plain') = Cardinality(Plain) - 1
        BY <1>0, <4>1, FS_RemoveElement
      <4> QED
        BY <1>0, <2>1, <3>1, <3>5, <4>2, PushingFinite DEF CountShape
    <3> QED
      BY <3>4, <3>5
  <2> QED
    BY <2>2, <2>3
<1>6. CASE Discount
  <2>1. /\ Pushing' = Pushing /\ Plain' = Plain /\ g_count' = g_count - 1
        /\ worker = "discount" /\ worker' = "print"
    BY <1>6 DEF Discount, Pushing, Plain, clientVars, contextVars, workerVars
  <2> QED
    BY <1>0, <2>1, PushingFinite DEF CountShape
<1>7. CASE CheckStop \/ Complete \/ NotifyClient \/ UNCHANGED vars
  <2>1. /\ Plain' = Plain /\ g_count' = g_count /\ (worker' = "discount" <=> worker = "discount")
    BY <1>7 DEF CheckStop, Complete, NotifyClient, vars, Plain, contextVars, workerVars
  <2>2. Pushing' = Pushing
    BY <1>7 DEF CheckStop, Complete, NotifyClient, vars, clientVars, Pushing, Types
  <2> QED
    BY <2>1, <2>2, SameCount
<1> QED
  BY <1>1, <1>2, <1>3, <1>4, <1>5, <1>6, <1>7 DEF Next, Client, Worker

THEOREM OrderInvariance == Spec => []OrderInv
<1>1. OrderInv /\ [Next]_vars => OrderInv'
  BY TypesStep, OrderStep, QueuedStep, AwaitedStep, CompletedStep, CountStep DEF OrderInv
<1> QED
  BY OrderInit, <1>1, PTL DEF Spec

(* The logger prints every entry once and those of a thread in order;      *)
(* queue() with completion returns after its entry was printed, and the    *)
(* flag on its stack is not written after that; and g_count is, between    *)
(* the steps of any number of threads, the number of entries on their way. *)
THEOREM PrintHolds == Spec => []PrintedInOrder
<1>1. OrderInv => PrintedInOrder
  <2> SUFFICES ASSUME OrderInv PROVE PrintedInOrder
    OBVIOUS
  <2> USE DEF OrderInv
  <2>1. \A i, j \in 1..Len(printed) :
          i < j /\ printed[i].by = printed[j].by => printed[i].no < printed[j].no
    BY DEF OrderShape, Sorted
  <2>2. \A c \in Clients : completed[c] => \E i \in 1..Len(printed) :
          printed[i] = [by |-> c, no |-> made[c], wait |-> TRUE]
    <3> TAKE c \in Clients
    <3> HAVE completed[c]
    <3>1. [by |-> c, no |-> made[c], wait |-> TRUE] \in Range(printed)
      BY DEF CompletedShape
    <3>2. PICK i \in DOMAIN printed : printed[i] = [by |-> c, no |-> made[c], wait |-> TRUE]
      BY <3>1 DEF Range
    <3>3. DOMAIN printed = 1..Len(printed)
      BY DEF Types
    <3> QED
      BY <3>2, <3>3
  <2>3. worker = "store" => Current.no = made[Current.by] /\
          (Waits(Current.by) \/ pc[Current.by] = "notifywait")
    BY DEF AwaitedShape, Awaited
  <2>4. g_count = Cardinality({c \in Clients : pc[c] = "push"})
                    + Cardinality({e \in Range(queue) \cup Range(batch) : ~e.wait})
                    + (IF worker = "discount" THEN 1 ELSE 0)
    BY DEF CountShape, Pushing, Plain
  <2> QED
    BY <2>1, <2>2, <2>3, <2>4 DEF PrintedInOrder
<1> QED
  BY <1>1, OrderInvariance, PTL

=============================================================================
