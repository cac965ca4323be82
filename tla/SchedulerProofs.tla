-------------------------- MODULE SchedulerProofs --------------------------
(***************************************************************************)
(* The run queue of ice/scheduler.hpp for any number of schedulers,        *)
(* threads and coroutines: no node is lost, shared or left dangling, and a *)
(* coroutine resumes on a thread of the scheduler it awaited.              *)
(*                                                                         *)
(* The invariant IInv of module Scheduler is inductive.  One lemma per     *)
(* conjunct shows which of the others it needs, action by action.  On top  *)
(* of it every list ends, and the queue refines the FIFO of RunQueue.      *)
(***************************************************************************)
EXTENDS Scheduler, FiniteSetTheorems, SequenceTheorems, WellFoundedInduction, TLAPS

(* Before anything runs all lists are empty, so IInv holds.                *)
LEMMA InitEstablishesIInv == Init => IInv
BY SchedulerAssumption
   DEF Init, IInv, TypeOK, ThreadShape, NoDangling, NoSharing, NoLoss, ListsOnTarget, Queued, Node

(* Every variable keeps its type: a head_, a link or a local of a thread   *)
(* is always a node or nullptr.                                            *)
LEMMA TypeOKStep ==
  ASSUME TypeOK, ThreadShape, [Next]_schedulerVars
  PROVE  TypeOK'
<1> USE SchedulerAssumption DEF TypeOK, Node
<1>1. ASSUME NEW t \in Threads, NEW s \in Schedulers, Enter(t, s) PROVE TypeOK'
  BY <1>1 DEF Enter, queue, coros
<1>2. ASSUME NEW t \in Threads, Leave(t) PROVE TypeOK'
  BY <1>2 DEF Leave, queue, coros
<1>3. ASSUME NEW t \in Threads, NEW c \in Coros, Launch(t, c) PROVE TypeOK'
  BY <1>3 DEF Launch, queue
<1>4. ASSUME NEW t \in Threads, NEW s \in Schedulers, AwaitReady(t, s) PROVE TypeOK'
  BY <1>4 DEF AwaitReady, CountAwait, IsCurrent, queue, threads, ThreadShape
<1>5. ASSUME NEW t \in Threads, NEW s \in Schedulers, NEW post \in BOOLEAN, AwaitSuspend(t, s, post) PROVE TypeOK'
  BY <1>5 DEF AwaitSuspend, CountAwait, IsCurrent, queue, ThreadShape
<1>6. ASSUME NEW t \in Threads, NEW s \in Schedulers, Suspend(t, s) PROVE TypeOK'
  BY <1>6 DEF Suspend, CountAwait, BackTo, queue, ThreadShape
<1>7. ASSUME NEW t \in Threads, NEW c \in Coros, Complete(t, c) PROVE TypeOK'
  BY <1>7 DEF Complete, queue
<1>8. ASSUME NEW t \in Threads, Finish(t) PROVE TypeOK'
  BY <1>8 DEF Finish, BackTo, queue, ThreadShape
<1>9. ASSUME NEW t \in Threads, PostLoad(t) PROVE TypeOK'
  BY <1>9 DEF PostLoad, queue, coros, ThreadShape
<1>10. ASSUME NEW t \in Threads, PostRetry(t) PROVE TypeOK'
  BY <1>10 DEF PostRetry, queue, coros, ThreadShape
<1>11. ASSUME NEW t \in Threads, PostPublish(t) PROVE TypeOK'
  BY <1>11 DEF PostPublish, BackTo, ThreadShape
<1>12. ASSUME NEW t \in Threads, Acquire(t) PROVE TypeOK'
  BY <1>12 DEF Acquire, coros
<1>13. ASSUME NEW t \in Threads, ReverseOne(t) PROVE TypeOK'
  BY <1>13 DEF ReverseOne, coros
<1>14. ASSUME NEW t \in Threads, Reversed(t) PROVE TypeOK'
  BY <1>14 DEF Reversed, queue, coros
<1>15. ASSUME NEW t \in Threads, Resume(t) PROVE TypeOK'
  BY <1>15 DEF Resume, queue
<1>16. ASSUME NEW t \in Threads, Return(t) PROVE TypeOK'
  BY <1>16 DEF Return, queue, coros
<1>17. CASE UNCHANGED schedulerVars
  BY <1>17 DEF schedulerVars
<1> QED
  BY <1>1, <1>2, <1>3, <1>4, <1>5, <1>6, <1>7, <1>8, <1>9, <1>10, <1>11, <1>12, <1>13, <1>14, <1>15, <1>16, <1>17
  DEF Next, Await, Work

(* The locals of a thread fit its place in post(), acquire() or the resume *)
(* loop; launching and resuming put a coroutine on one stack only.         *)
LEMMA ThreadShapeStep ==
  ASSUME TypeOK, ThreadShape, NoDangling, [Next]_schedulerVars
  PROVE  ThreadShape'
<1> USE SchedulerAssumption DEF ThreadShape, Node
<1>1. ASSUME NEW t \in Threads, NEW s \in Schedulers, Enter(t, s) PROVE ThreadShape'
  BY <1>1 DEF Enter, queue, coros
<1>2. ASSUME NEW t \in Threads, Leave(t) PROVE ThreadShape'
  BY <1>2 DEF Leave, queue, coros
<1>3. ASSUME NEW t \in Threads, NEW c \in Coros, Launch(t, c) PROVE ThreadShape'
  BY <1>3 DEF Launch, queue, TypeOK
<1>4. ASSUME NEW t \in Threads, NEW s \in Schedulers, AwaitReady(t, s) PROVE ThreadShape'
  BY <1>4 DEF AwaitReady, CountAwait, IsCurrent, queue, threads
<1>5. ASSUME NEW t \in Threads, NEW s \in Schedulers, NEW post \in BOOLEAN, AwaitSuspend(t, s, post) PROVE ThreadShape'
  BY <1>5 DEF AwaitSuspend, CountAwait, IsCurrent, queue, TypeOK
<1>6. ASSUME NEW t \in Threads, NEW s \in Schedulers, Suspend(t, s) PROVE ThreadShape'
  BY <1>6 DEF Suspend, CountAwait, BackTo, queue, TypeOK
<1>7. ASSUME NEW t \in Threads, NEW c \in Coros, Complete(t, c) PROVE ThreadShape'
  BY <1>7 DEF Complete, queue, TypeOK
<1>8. ASSUME NEW t \in Threads, Finish(t) PROVE ThreadShape'
  BY <1>8 DEF Finish, BackTo, queue, TypeOK
<1>9. ASSUME NEW t \in Threads, PostLoad(t) PROVE ThreadShape'
  BY <1>9 DEF PostLoad, queue, coros
<1>10. ASSUME NEW t \in Threads, PostRetry(t) PROVE ThreadShape'
  BY <1>10 DEF PostRetry, queue, coros
<1>11. ASSUME NEW t \in Threads, PostPublish(t) PROVE ThreadShape'
  BY <1>11 DEF PostPublish, BackTo, TypeOK
<1>12. ASSUME NEW t \in Threads, Acquire(t) PROVE ThreadShape'
  BY <1>12 DEF Acquire, coros, TypeOK
<1>13. ASSUME NEW t \in Threads, ReverseOne(t) PROVE ThreadShape'
  BY <1>13 DEF ReverseOne, coros
<1>14. ASSUME NEW t \in Threads, Reversed(t) PROVE ThreadShape'
  BY <1>14 DEF Reversed, queue, coros, TypeOK
<1>15. ASSUME NEW t \in Threads, Resume(t) PROVE ThreadShape'
  BY <1>15 DEF Resume, queue, TypeOK, NoDangling, Queued
<1>16. ASSUME NEW t \in Threads, Return(t) PROVE ThreadShape'
  BY <1>16 DEF Return, queue, coros
<1>17. CASE UNCHANGED schedulerVars
  BY <1>17 DEF schedulerVars
<1> QED
  BY <1>1, <1>2, <1>3, <1>4, <1>5, <1>6, <1>7, <1>8, <1>9, <1>10, <1>11, <1>12, <1>13, <1>14, <1>15, <1>16, <1>17
  DEF Next, Await, Work

(* Pointers lead to queued nodes: resume() takes the last pointer to a     *)
(* node along with the node (NoSharing is what makes it the last one).     *)
LEMMA NoDanglingStep ==
  ASSUME TypeOK, ThreadShape, NoDangling, NoSharing, [Next]_schedulerVars
  PROVE  NoDangling'
<1> USE SchedulerAssumption DEF NoDangling, Queued, Node
<1>1. ASSUME NEW t \in Threads, NEW s \in Schedulers, Enter(t, s) PROVE NoDangling'
  BY <1>1 DEF Enter, queue, coros
<1>2. ASSUME NEW t \in Threads, Leave(t) PROVE NoDangling'
  BY <1>2 DEF Leave, queue, coros
<1>3. ASSUME NEW t \in Threads, NEW c \in Coros, Launch(t, c) PROVE NoDangling'
  BY <1>3 DEF Launch, queue
<1>4. ASSUME NEW t \in Threads, NEW s \in Schedulers, AwaitReady(t, s) PROVE NoDangling'
  BY <1>4 DEF AwaitReady, CountAwait, IsCurrent, queue, threads
<1>5. ASSUME NEW t \in Threads, NEW s \in Schedulers, NEW post \in BOOLEAN, AwaitSuspend(t, s, post) PROVE NoDangling'
  BY <1>5 DEF AwaitSuspend, CountAwait, IsCurrent, queue, TypeOK, ThreadShape
<1>6. ASSUME NEW t \in Threads, NEW s \in Schedulers, Suspend(t, s) PROVE NoDangling'
  BY <1>6 DEF Suspend, CountAwait, BackTo, queue, TypeOK, ThreadShape
<1>7. ASSUME NEW t \in Threads, NEW c \in Coros, Complete(t, c) PROVE NoDangling'
  BY <1>7 DEF Complete, queue
<1>8. ASSUME NEW t \in Threads, Finish(t) PROVE NoDangling'
  BY <1>8 DEF Finish, BackTo, queue, TypeOK, ThreadShape
<1>9. ASSUME NEW t \in Threads, PostLoad(t) PROVE NoDangling'
  BY <1>9 DEF PostLoad, queue, coros
<1>10. ASSUME NEW t \in Threads, PostRetry(t) PROVE NoDangling'
  BY <1>10 DEF PostRetry, queue, coros
<1>11. ASSUME NEW t \in Threads, PostPublish(t) PROVE NoDangling'
  BY <1>11 DEF PostPublish, BackTo, TypeOK, ThreadShape
<1>12. ASSUME NEW t \in Threads, Acquire(t) PROVE NoDangling'
  BY <1>12 DEF Acquire, coros, TypeOK
<1>13. ASSUME NEW t \in Threads, ReverseOne(t) PROVE NoDangling'
  BY <1>13 DEF ReverseOne, coros
<1>14. ASSUME NEW t \in Threads, Reversed(t) PROVE NoDangling'
  BY <1>14 DEF Reversed, queue, coros
<1>15. ASSUME NEW t \in Threads, Resume(t) PROVE NoDangling'
  BY <1>15 DEF Resume, queue, TypeOK, ThreadShape, NoSharing
<1>16. ASSUME NEW t \in Threads, Return(t) PROVE NoDangling'
  BY <1>16 DEF Return, queue, coros
<1>17. CASE UNCHANGED schedulerVars
  BY <1>17 DEF schedulerVars
<1> QED
  BY <1>1, <1>2, <1>3, <1>4, <1>5, <1>6, <1>7, <1>8, <1>9, <1>10, <1>11, <1>12, <1>13, <1>14, <1>15, <1>16, <1>17
  DEF Next, Await, Work

(* The push gives the old head to the new node, acquire() moves the head   *)
(* to a local, the reversal permutes three pointers, resume() moves one on.*)
LEMMA NoSharingStep ==
  ASSUME TypeOK, ThreadShape, NoDangling, NoSharing, [Next]_schedulerVars
  PROVE  NoSharing'
<1> USE SchedulerAssumption DEF NoSharing, Queued, Node
<1>1. ASSUME NEW t \in Threads, NEW s \in Schedulers, Enter(t, s) PROVE NoSharing'
  BY <1>1 DEF Enter, queue, coros
<1>2. ASSUME NEW t \in Threads, Leave(t) PROVE NoSharing'
  BY <1>2 DEF Leave, queue, coros
<1>3. ASSUME NEW t \in Threads, NEW c \in Coros, Launch(t, c) PROVE NoSharing'
  BY <1>3 DEF Launch, queue
<1>4. ASSUME NEW t \in Threads, NEW s \in Schedulers, AwaitReady(t, s) PROVE NoSharing'
  BY <1>4 DEF AwaitReady, CountAwait, IsCurrent, queue, threads
<1>5. ASSUME NEW t \in Threads, NEW s \in Schedulers, NEW post \in BOOLEAN, AwaitSuspend(t, s, post) PROVE NoSharing'
  BY <1>5 DEF AwaitSuspend, CountAwait, IsCurrent, queue
<1>6. ASSUME NEW t \in Threads, NEW s \in Schedulers, Suspend(t, s) PROVE NoSharing'
  BY <1>6 DEF Suspend, CountAwait, BackTo, queue
<1>7. ASSUME NEW t \in Threads, NEW c \in Coros, Complete(t, c) PROVE NoSharing'
  BY <1>7 DEF Complete, queue
<1>8. ASSUME NEW t \in Threads, Finish(t) PROVE NoSharing'
  BY <1>8 DEF Finish, BackTo, queue
<1>9. ASSUME NEW t \in Threads, PostLoad(t) PROVE NoSharing'
  BY <1>9 DEF PostLoad, queue, coros
<1>10. ASSUME NEW t \in Threads, PostRetry(t) PROVE NoSharing'
  BY <1>10 DEF PostRetry, queue, coros
<1>11. ASSUME NEW t \in Threads, PostPublish(t) PROVE NoSharing'
  BY <1>11 DEF PostPublish, BackTo, TypeOK, ThreadShape, NoDangling
<1>12. ASSUME NEW t \in Threads, Acquire(t) PROVE NoSharing'
  BY <1>12 DEF Acquire, coros, TypeOK
<1>13. ASSUME NEW t \in Threads, ReverseOne(t) PROVE NoSharing'
  BY <1>13 DEF ReverseOne, coros, TypeOK, NoDangling
<1>14. ASSUME NEW t \in Threads, Reversed(t) PROVE NoSharing'
  BY <1>14 DEF Reversed, queue, coros, TypeOK
<1>15. ASSUME NEW t \in Threads, Resume(t) PROVE NoSharing'
  BY <1>15 DEF Resume, queue, TypeOK, NoDangling
<1>16. ASSUME NEW t \in Threads, Return(t) PROVE NoSharing'
  BY <1>16 DEF Return, queue, coros
<1>17. CASE UNCHANGED schedulerVars
  BY <1>17 DEF schedulerVars
<1> QED
  BY <1>1, <1>2, <1>3, <1>4, <1>5, <1>6, <1>7, <1>8, <1>9, <1>10, <1>11, <1>12, <1>13, <1>14, <1>15, <1>16, <1>17
  DEF Next, Await, Work

(* No step of push, take or reversal drops the only pointer to a node.     *)
LEMMA NoLossStep ==
  ASSUME TypeOK, ThreadShape, NoDangling, NoLoss, [Next]_schedulerVars
  PROVE  NoLoss'
<1> USE SchedulerAssumption DEF NoLoss, Queued, Node
<1>1. ASSUME NEW t \in Threads, NEW s \in Schedulers, Enter(t, s) PROVE NoLoss'
  BY <1>1 DEF Enter, queue, coros
<1>2. ASSUME NEW t \in Threads, Leave(t) PROVE NoLoss'
  BY <1>2 DEF Leave, queue, coros
<1>3. ASSUME NEW t \in Threads, NEW c \in Coros, Launch(t, c) PROVE NoLoss'
  BY <1>3 DEF Launch, queue
<1>4. ASSUME NEW t \in Threads, NEW s \in Schedulers, AwaitReady(t, s) PROVE NoLoss'
  BY <1>4 DEF AwaitReady, CountAwait, IsCurrent, queue, threads
<1>5. ASSUME NEW t \in Threads, NEW s \in Schedulers, NEW post \in BOOLEAN, AwaitSuspend(t, s, post) PROVE NoLoss'
  BY <1>5 DEF AwaitSuspend, CountAwait, IsCurrent, queue, TypeOK, ThreadShape
<1>6. ASSUME NEW t \in Threads, NEW s \in Schedulers, Suspend(t, s) PROVE NoLoss'
  BY <1>6 DEF Suspend, CountAwait, BackTo, queue, TypeOK, ThreadShape
<1>7. ASSUME NEW t \in Threads, NEW c \in Coros, Complete(t, c) PROVE NoLoss'
  BY <1>7 DEF Complete, queue
<1>8. ASSUME NEW t \in Threads, Finish(t) PROVE NoLoss'
  BY <1>8 DEF Finish, BackTo, queue, TypeOK, ThreadShape
<1>9. ASSUME NEW t \in Threads, PostLoad(t) PROVE NoLoss'
  BY <1>9 DEF PostLoad, queue, coros
<1>10. ASSUME NEW t \in Threads, PostRetry(t) PROVE NoLoss'
  BY <1>10 DEF PostRetry, queue, coros
<1>11. ASSUME NEW t \in Threads, PostPublish(t) PROVE NoLoss'
  BY <1>11 DEF PostPublish, BackTo, TypeOK, ThreadShape
<1>12. ASSUME NEW t \in Threads, Acquire(t) PROVE NoLoss'
  BY <1>12 DEF Acquire, coros, TypeOK, ThreadShape
<1>13. ASSUME NEW t \in Threads, ReverseOne(t) PROVE NoLoss'
  BY <1>13 DEF ReverseOne, coros, TypeOK, NoDangling
<1>14. ASSUME NEW t \in Threads, Reversed(t) PROVE NoLoss'
  BY <1>14 DEF Reversed, queue, coros, TypeOK
<1>15. ASSUME NEW t \in Threads, Resume(t) PROVE NoLoss'
  BY <1>15 DEF Resume, queue, TypeOK
<1>16. ASSUME NEW t \in Threads, Return(t) PROVE NoLoss'
  BY <1>16 DEF Return, queue, coros
<1>17. CASE UNCHANGED schedulerVars
  BY <1>17 DEF schedulerVars
<1> QED
  BY <1>1, <1>2, <1>3, <1>4, <1>5, <1>6, <1>7, <1>8, <1>9, <1>10, <1>11, <1>12, <1>13, <1>14, <1>15, <1>16, <1>17
  DEF Next, Await, Work

(* A node is pushed on the scheduler it awaits, and only nodes of that     *)
(* scheduler share its lists; so the loop resumes it on the right thread.  *)
LEMMA ListsOnTargetStep ==
  ASSUME TypeOK, ThreadShape, NoDangling, ListsOnTarget, [Next]_schedulerVars
  PROVE  ListsOnTarget'
<1> USE SchedulerAssumption DEF ListsOnTarget, Queued, Node
<1>1. ASSUME NEW t \in Threads, NEW s \in Schedulers, Enter(t, s) PROVE ListsOnTarget'
  BY <1>1 DEF Enter, queue, coros, TypeOK, ThreadShape
<1>2. ASSUME NEW t \in Threads, Leave(t) PROVE ListsOnTarget'
  BY <1>2 DEF Leave, queue, coros, TypeOK, ThreadShape
<1>3. ASSUME NEW t \in Threads, NEW c \in Coros, Launch(t, c) PROVE ListsOnTarget'
  BY <1>3 DEF Launch, queue, TypeOK
<1>4. ASSUME NEW t \in Threads, NEW s \in Schedulers, AwaitReady(t, s) PROVE ListsOnTarget'
  BY <1>4 DEF AwaitReady, CountAwait, IsCurrent, queue, threads, TypeOK, ThreadShape, NoDangling
<1>5. ASSUME NEW t \in Threads, NEW s \in Schedulers, NEW post \in BOOLEAN, AwaitSuspend(t, s, post) PROVE ListsOnTarget'
  BY <1>5 DEF AwaitSuspend, CountAwait, IsCurrent, queue, TypeOK, ThreadShape, NoDangling
<1>6. ASSUME NEW t \in Threads, NEW s \in Schedulers, Suspend(t, s) PROVE ListsOnTarget'
  BY <1>6 DEF Suspend, CountAwait, BackTo, queue, TypeOK, ThreadShape, NoDangling
<1>7. ASSUME NEW t \in Threads, NEW c \in Coros, Complete(t, c) PROVE ListsOnTarget'
  BY <1>7 DEF Complete, queue, TypeOK
<1>8. ASSUME NEW t \in Threads, Finish(t) PROVE ListsOnTarget'
  BY <1>8 DEF Finish, BackTo, queue, TypeOK
<1>9. ASSUME NEW t \in Threads, PostLoad(t) PROVE ListsOnTarget'
  BY <1>9 DEF PostLoad, queue, coros
<1>10. ASSUME NEW t \in Threads, PostRetry(t) PROVE ListsOnTarget'
  BY <1>10 DEF PostRetry, queue, coros
<1>11. ASSUME NEW t \in Threads, PostPublish(t) PROVE ListsOnTarget'
  BY <1>11 DEF PostPublish, BackTo, TypeOK, ThreadShape
<1>12. ASSUME NEW t \in Threads, Acquire(t) PROVE ListsOnTarget'
  BY <1>12 DEF Acquire, coros, TypeOK
<1>13. ASSUME NEW t \in Threads, ReverseOne(t) PROVE ListsOnTarget'
  BY <1>13 DEF ReverseOne, coros, TypeOK, NoDangling
<1>14. ASSUME NEW t \in Threads, Reversed(t) PROVE ListsOnTarget'
  BY <1>14 DEF Reversed, queue, coros
<1>15. ASSUME NEW t \in Threads, Resume(t) PROVE ListsOnTarget'
  BY <1>15 DEF Resume, queue, TypeOK, NoDangling
<1>16. ASSUME NEW t \in Threads, Return(t) PROVE ListsOnTarget'
  BY <1>16 DEF Return, queue, coros
<1>17. CASE UNCHANGED schedulerVars
  BY <1>17 DEF schedulerVars
<1> QED
  BY <1>1, <1>2, <1>3, <1>4, <1>5, <1>6, <1>7, <1>8, <1>9, <1>10, <1>11, <1>12, <1>13, <1>14, <1>15, <1>16, <1>17
  DEF Next, Await, Work

(* The invariant behind all results of this module.                        *)
THEOREM SchedulerInvariance == Spec => []IInv
<1>1. IInv /\ [Next]_schedulerVars => IInv'
  BY TypeOKStep, ThreadShapeStep, NoDanglingStep, NoSharingStep, NoLossStep, ListsOnTargetStep DEF IInv
<1> QED BY InitEstablishesIInv, <1>1, PTL DEF Spec

(* Type correctness of the run queue and of the locals of its threads.     *)
THEOREM SchedulerTypes == Spec => []TypeOK
<1>1. IInv => TypeOK BY DEF IInv
<1> QED BY SchedulerInvariance, <1>1, PTL

(* Pointers and queued coroutines correspond one to one: acquire() and     *)
(* process() touch no node of a coroutine that runs or is gone, resume     *)
(* nobody twice for one post(), and lose nobody.                           *)
THEOREM QueueStaysIntact == Spec => []QueueIntact
<1>1. IInv => QueueIntact BY DEF IInv, QueueIntact
<1> QED BY SchedulerInvariance, <1>1, PTL

(* After co_await s.schedule() a coroutine is on a thread inside s.run(),  *)
(* and on that thread only.                                                *)
THEOREM ResumedOnTarget == Spec => []RunsOnTarget
<1>1. IInv => RunsOnTarget
  BY DEF IInv, TypeOK, Node, ThreadShape, ListsOnTarget, RunsOnTarget
<1> QED BY SchedulerInvariance, <1>1, PTL

-----------------------------------------------------------------------------
(* Intrusive lists: what Walk of module LinkedList finds.                  *)

(* A set of positions has a first one.                                     *)
LEMMA FirstPosition ==
  ASSUME NEW S \in SUBSET Nat, S # {}
  PROVE  \E i \in S : \A j \in S : i <= j
<1>1. PICK i \in S : \A j \in S : <<j, i>> \notin OpToRel(<, Nat)
  BY NatLessThanWellFounded, WFMin
<1>2. ASSUME NEW j \in S PROVE i <= j
  <2>1. <<j, i>> \notin OpToRel(<, Nat) BY <1>1
  <2>2. <<j, i>> \in Nat \X Nat BY <1>1
  <2>3. ~(j < i) BY <2>1, <2>2 DEF OpToRel
  <2> QED BY <2>3
<1> QED BY <1>2

(* The links from p on decide which list it is.                            *)
LEMMA OneListFrom ==
  ASSUME NEW C, Nil \notin C, NEW link, NEW p,
         NEW q \in Seq(C), NEW r \in Seq(C), Leads(q, p, link), Leads(r, p, link)
  PROVE  q = r
<1> DEFINE D == {i \in Nat : i # 0 /\ NodeAt(q, i) # NodeAt(r, i)}
<1>1. D = {}
  <2> SUFFICES ASSUME D # {} PROVE FALSE OBVIOUS
  <2>1. PICK i \in D : \A j \in D : i <= j
    <3> HIDE DEF D
    <3>1. D \in SUBSET Nat BY DEF D
    <3> QED BY <3>1, FirstPosition
  <2>2. i # 1 BY <2>1 DEF Leads
  <2>3. NodeAt(q, i - 1) = NodeAt(r, i - 1) BY <2>1, <2>2
  <2>4. CASE i - 1 \in 1..Len(q)
    <3>1. i - 1 \in 1..Len(r) /\ q[i - 1] = r[i - 1]
      BY <2>1, <2>3, <2>4 DEF NodeAt
    <3> QED BY <2>1, <2>4, <3>1 DEF Leads
  <2>5. CASE i - 1 \notin 1..Len(q)
    <3>1. i - 1 \notin 1..Len(r)
      BY <2>1, <2>3, <2>5 DEF NodeAt
    <3> QED BY <2>1, <2>2, <2>5, <3>1 DEF NodeAt
  <2> QED BY <2>4, <2>5
<1>2. \A i \in Nat \ {0} : NodeAt(q, i) = NodeAt(r, i) BY <1>1
<1>3. \A i \in 1..Len(q) : i \in 1..Len(r) /\ q[i] = r[i] BY <1>2 DEF NodeAt
<1>4. \A i \in 1..Len(r) : i \in 1..Len(q) BY <1>2 DEF NodeAt
<1>5. Len(q) = Len(r)
  <2>1. Len(q) \in Nat /\ Len(r) \in Nat OBVIOUS
  <2>2. Len(q) <= Len(r) BY <1>3, <2>1
  <2>3. Len(r) <= Len(q) BY <1>4, <2>1
  <2> QED BY <2>1, <2>2, <2>3
<1> QED BY <1>3, <1>5, SeqEqual

(* Where no two links meet, a list passes each node once, ...              *)
LEMMA ListPassesOnce ==
  ASSUME NEW C, Nil \notin C, NEW link, NEW p, NEW q \in Seq(C), Leads(q, p, link),
         \A c, d \in C : link[c] = link[d] /\ link[c] # Nil => c = d,
         \A c \in C : link[c] # Nil => link[c] # p
  PROVE  \A i, j \in 1..Len(q) : i < j => q[i] # q[j]
<1> DEFINE D == {i \in Nat : i \in 1..Len(q) /\ \E j \in 1..Len(q) : i < j /\ q[i] = q[j]}
<1> SUFFICES ASSUME D # {} PROVE FALSE OBVIOUS
<1>1. PICK i \in D : \A k \in D : i <= k
  <2> HIDE DEF D
  <2>1. D \in SUBSET Nat BY DEF D
  <2> QED BY <2>1, FirstPosition
<1>2. PICK j \in 1..Len(q) : i < j /\ q[i] = q[j] BY <1>1
<1>3. j - 1 \in 1..Len(q) /\ q[j - 1] \in C /\ link[q[j - 1]] = q[i] /\ q[i] # Nil
  BY <1>1, <1>2 DEF Leads, NodeAt
<1>4. CASE i = 1
  BY <1>1, <1>3, <1>4 DEF Leads, NodeAt
<1>5. CASE i # 1
  <2>1. i - 1 \in 1..Len(q) /\ q[i - 1] \in C /\ (i - 1) + 1 = i BY <1>1, <1>5
  <2>2. link[q[i - 1]] = q[i] BY <1>1, <2>1 DEF Leads, NodeAt
  <2>3. q[i - 1] = q[j - 1] BY <1>3, <2>1, <2>2
  <2>4. i - 1 \in D BY <1>1, <1>2, <1>3, <2>1, <2>3
  <2> QED BY <1>1, <2>4
<1> QED BY <1>4, <1>5

(* ... so it is no longer than there are nodes, and Walk finds it.         *)
LEMMA WalkFinds ==
  ASSUME NEW C \in SUBSET Coros, NEW link, NEW p, NEW q \in Seq(C), Leads(q, p, link),
         \A c, d \in C : link[c] = link[d] /\ link[c] # Nil => c = d,
         \A c \in C : link[c] # Nil => link[c] # p
  PROVE  Walk(p, link) = q
<1> DEFINE n == Cardinality(Coros)
<1>1. n \in Nat /\ Len(q) \in Nat BY SchedulerAssumption, FS_CardinalityType
<1>2. \A i, j \in 1..Len(q) : i < j => q[i] # q[j] BY ListPassesOnce, SchedulerAssumption
<1>3. q \in [1..Len(q) -> Coros] OBVIOUS
<1>4. Len(q) <= n
  <2> SUFFICES ASSUME n < Len(q) PROVE FALSE BY <1>1
  <2>1. IsFiniteSet(1..Len(q)) /\ Cardinality(1..Len(q)) = Len(q)
    <3>1. 1 \in Int /\ Len(q) \in Int /\ ~(1 > Len(q)) BY <1>1
    <3> QED BY <1>1, <3>1, FS_Interval
  <2>2. \E i, j \in 1..Len(q) : i # j /\ q[i] = q[j]
    BY <1>3, <2>1, FS_PigeonHole, SchedulerAssumption
  <2> QED BY <1>2, <2>2
<1>5. q \in BoundedSeq(Coros, n) BY <1>1, <1>3, <1>4 DEF BoundedSeq, SeqOf
<1>6. \A r \in BoundedSeq(Coros, n) : r \in Seq(Coros) BY <1>1 DEF BoundedSeq, SeqOf
<1>7. \A r \in BoundedSeq(Coros, n) : Leads(r, p, link) => r = q
  BY <1>6, OneListFrom, SchedulerAssumption
<1> QED BY <1>5, <1>7 DEF Walk

(* A list does not change with links that are not its own.                 *)
LEMMA LeadsStill ==
  ASSUME NEW C, NEW link, NEW link2, NEW p, NEW q \in Seq(C), Leads(q, p, link),
         \A c \in C : link2[c] = link[c]
  PROVE  Leads(q, p, link2)
BY DEF Leads

(* A node in front of a list.                                              *)
LEMMA LeadsPushed ==
  ASSUME NEW C, NEW link, NEW p, NEW q \in Seq(C), Leads(q, p, link), NEW c, link[c] = p
  PROVE  Leads(<<c>> \o q, c, link)
<1> DEFINE r == <<c>> \o q
<1>1. Len(q) \in Nat /\ Len(r) = Len(q) + 1 OBVIOUS
<1>2. r[1] = c /\ \A i \in 1..Len(q) : r[i + 1] = q[i] OBVIOUS
<1>3. c = NodeAt(r, 1) BY <1>1, <1>2 DEF NodeAt
<1>4. \A i \in Nat \ {0} : NodeAt(r, i + 1) = NodeAt(q, i) BY <1>1, <1>2 DEF NodeAt
<1>5. ASSUME NEW i \in 1..Len(r) PROVE link[r[i]] = NodeAt(r, i + 1)
  <2>1. CASE i = 1
    BY <1>2, <1>4, <2>1 DEF Leads
  <2>2. CASE i # 1
    <3>1. i - 1 \in 1..Len(q) /\ (i - 1) + 1 = i BY <1>1, <1>5, <2>2
    <3>2. r[i] = q[i - 1] BY <1>2, <3>1
    <3>3. link[q[i - 1]] = NodeAt(q, i) BY <3>1 DEF Leads
    <3>4. i \in Nat \ {0} BY <1>1, <1>5
    <3>5. NodeAt(r, i + 1) = NodeAt(q, i) BY <1>4, <3>4
    <3> QED BY <3>2, <3>3, <3>5
  <2> QED BY <2>1, <2>2
<1> HIDE DEF r
<1>6. Leads(r, c, link) BY <1>3, <1>5 DEF Leads
<1> QED BY <1>6 DEF r

(* A list without its first node.                                          *)
LEMMA LeadsTail ==
  ASSUME NEW C, NEW link, NEW p, p # Nil, NEW q \in Seq(C), Leads(q, p, link)
  PROVE  q # <<>> /\ Head(q) = p /\ Tail(q) \in Seq(C) /\ Leads(Tail(q), link[p], link)
<1>1. Len(q) \in Nat /\ Len(q) # 0 /\ q[1] = p BY DEF Leads, NodeAt
<1>2. q # <<>> /\ Tail(q) \in Seq(C) /\ Len(Tail(q)) = Len(q) - 1 BY <1>1
<1>3. \A i \in 1..(Len(q) - 1) : Tail(q)[i] = q[i + 1] BY <1>1, <1>2
<1>4. \A i \in Nat \ {0} : NodeAt(Tail(q), i) = NodeAt(q, i + 1) BY <1>1, <1>2, <1>3 DEF NodeAt
<1>5. link[p] = NodeAt(Tail(q), 1)
  <2>1. link[q[1]] = NodeAt(q, 1 + 1) BY <1>1 DEF Leads
  <2> QED BY <1>1, <1>4, <2>1
<1>6. ASSUME NEW i \in 1..Len(Tail(q)) PROVE link[Tail(q)[i]] = NodeAt(Tail(q), i + 1)
  <2>1. i + 1 \in 1..Len(q) /\ Tail(q)[i] = q[i + 1] BY <1>1, <1>2, <1>3, <1>6
  <2>2. link[q[i + 1]] = NodeAt(q, (i + 1) + 1) BY <2>1 DEF Leads
  <2>3. i + 1 \in Nat \ {0} BY <1>1, <1>2, <1>6
  <2> QED BY <1>4, <2>1, <2>2, <2>3
<1> QED BY <1>1, <1>2, <1>5, <1>6 DEF Leads

(* A node that nothing on the way leads to is not on the list.             *)
LEMMA LeadsPast ==
  ASSUME NEW C, NEW link, NEW p, NEW q \in Seq(C), Leads(q, p, link),
         NEW c, c # p, c # Nil, \A d \in C : link[d] # c
  PROVE  q \in Seq(C \ {c})
<1>1. \A i \in 1..Len(q) : q[i] # c
  <2> SUFFICES ASSUME NEW i \in 1..Len(q), q[i] = c PROVE FALSE OBVIOUS
  <2>1. i # 1 BY DEF Leads, NodeAt
  <2>2. i - 1 \in 1..Len(q) /\ (i - 1) + 1 = i BY <2>1
  <2>3. link[q[i - 1]] = q[i] BY <2>2 DEF Leads, NodeAt
  <2> QED BY <2>2, <2>3
<1>2. q \in [1..Len(q) -> C \ {c}] BY <1>1
<1> QED BY <1>2

(* Reversed in place: Reverse keeps the length and the elements.           *)
LEMMA ReverseType ==
  ASSUME NEW C, NEW q \in Seq(C)
  PROVE  /\ Reverse(q) \in Seq(C)
         /\ Len(Reverse(q)) = Len(q)
         /\ \A i \in 1..Len(q) : Reverse(q)[i] = q[(Len(q) - i) + 1]
<1>1. \A i \in 1..Len(q) : q[(Len(q) - i) + 1] \in C OBVIOUS
<1>2. Reverse(q) \in [1..Len(q) -> C] BY <1>1 DEF Reverse
<1>3. Reverse(q) \in Seq(C) /\ Len(Reverse(q)) = Len(q) BY <1>2
<1> QED BY <1>3 DEF Reverse

(* A push in front is an append at the back of the reversed list.          *)
LEMMA ReversePushed ==
  ASSUME NEW C, NEW q \in Seq(C), NEW c \in C
  PROVE  Reverse(<<c>> \o q) = Append(Reverse(q), c)
<1> DEFINE r == <<c>> \o q
           n == Len(q)
<1>1. n \in Nat /\ r \in Seq(C) /\ Len(r) = n + 1 OBVIOUS
<1>2. r[1] = c /\ \A i \in 1..n : r[i + 1] = q[i] OBVIOUS
<1>3. Reverse(q) \in Seq(C) /\ Len(Reverse(q)) = n /\ \A i \in 1..n : Reverse(q)[i] = q[(n - i) + 1]
  BY ReverseType
<1>4. Reverse(r) \in Seq(C) /\ Len(Reverse(r)) = n + 1
      /\ \A i \in 1..(n + 1) : Reverse(r)[i] = r[((n + 1) - i) + 1]
  <2> HIDE DEF r, n
  <2> QED BY <1>1, ReverseType
<1>5. Append(Reverse(q), c) \in Seq(C) /\ Len(Append(Reverse(q), c)) = n + 1 BY <1>3
<1>6. ASSUME NEW i \in 1..(n + 1) PROVE Reverse(r)[i] = Append(Reverse(q), c)[i]
  <2> HIDE DEF r, n
  <2>1. CASE i = n + 1
    <3>1. Append(Reverse(q), c)[i] = c BY <1>1, <1>3, <2>1
    <3>2. Reverse(r)[i] = r[1] BY <1>1, <1>4, <2>1
    <3> QED BY <1>2, <3>1, <3>2
  <2>2. CASE i # n + 1
    <3>1. i \in 1..n /\ (n - i) + 1 \in 1..n /\ ((n + 1) - i) + 1 = ((n - i) + 1) + 1
      BY <1>1, <1>6, <2>2
    <3>2. Append(Reverse(q), c)[i] = q[(n - i) + 1] BY <1>3, <3>1
    <3>3. Reverse(r)[i] = q[(n - i) + 1] BY <1>2, <1>4, <1>6, <3>1
    <3> QED BY <3>2, <3>3
  <2> QED BY <2>1, <2>2
<1> HIDE DEF r, n
<1>7. Reverse(r) = Append(Reverse(q), c) BY <1>4, <1>5, <1>6, SeqEqual
<1> QED BY <1>7 DEF r

(* One turn of the reversal: the first node goes in front of the rest.     *)
LEMMA ReverseMoved ==
  ASSUME NEW C, NEW q \in Seq(C), NEW r \in Seq(C), q # <<>>
  PROVE  Reverse(q) \o r = Reverse(Tail(q)) \o (<<Head(q)>> \o r)
<1> DEFINE c == Head(q)
           u == Tail(q)
           a == Reverse(u)
<1>1. c \in C /\ u \in Seq(C) /\ q = <<c>> \o u
  <2>1. c \in C /\ u \in Seq(C) /\ Len(u) = Len(q) - 1 /\ Len(q) \in Nat \ {0} OBVIOUS
  <2>2. Len(<<c>> \o u) = Len(q) BY <2>1
  <2>3. <<c>> \o u \in Seq(C) BY <2>1
  <2>4. \A i \in 1..Len(q) : (<<c>> \o u)[i] = q[i] BY <2>1
  <2> HIDE DEF c, u
  <2> QED BY <2>1, <2>2, <2>3, <2>4, SeqEqual
<1> HIDE DEF c, u
<1>2. a \in Seq(C) BY <1>1, ReverseType
<1>3. Reverse(q) = Append(a, c) BY <1>1, ReversePushed
<1> HIDE DEF a
<1> DEFINE x == Append(a, c) \o r
           y == a \o (<<c>> \o r)
<1>4. Len(a) \in Nat /\ Len(r) \in Nat BY <1>2
<1>5. x \in Seq(C) BY <1>1, <1>2
<1>6. y \in Seq(C) BY <1>1, <1>2
<1>7. Len(x) = Len(a) + 1 + Len(r) BY <1>1, <1>2
<1>8. Len(y) = Len(a) + 1 + Len(r) BY <1>1, <1>2
<1>9. ASSUME NEW i \in 1..Len(x) PROVE x[i] = y[i]
  <2>1. CASE i <= Len(a)
    <3>1. x[i] = a[i] BY <1>1, <1>2, <1>4, <1>7, <1>9, <2>1
    <3>2. y[i] = a[i] BY <1>1, <1>2, <1>4, <1>7, <1>9, <2>1
    <3> QED BY <3>1, <3>2
  <2>2. CASE i = Len(a) + 1
    <3>1. x[i] = c BY <1>1, <1>2, <1>4, <1>7, <1>9, <2>2
    <3>2. y[i] = (<<c>> \o r)[1] BY <1>1, <1>2, <1>4, <1>7, <1>9, <2>2
    <3> QED BY <1>1, <3>1, <3>2
  <2>3. CASE i > Len(a) + 1
    <3>1. x[i] = r[i - (Len(a) + 1)] BY <1>1, <1>2, <1>4, <1>7, <1>9, <2>3
    <3>2. y[i] = (<<c>> \o r)[i - Len(a)] BY <1>1, <1>2, <1>4, <1>7, <1>9, <2>3
    <3>3. (<<c>> \o r)[i - Len(a)] = r[(i - Len(a)) - 1] BY <1>1, <1>2, <1>4, <1>7, <1>9, <2>3
    <3>4. (i - Len(a)) - 1 = i - (Len(a) + 1) BY <1>4, <1>7, <1>9
    <3> QED BY <3>1, <3>2, <3>3, <3>4
  <2> QED BY <1>4, <1>7, <1>9, <2>1, <2>2, <2>3
<1> HIDE DEF x, y
<1>10. x = y BY <1>5, <1>6, <1>7, <1>8, <1>9, SeqEqual
<1> QED BY <1>3, <1>10 DEF x, y, c, u, a

(* Reversing at most one node changes nothing.                             *)
LEMMA ReverseShort ==
  ASSUME NEW C, NEW q \in Seq(C), Len(q) <= 1
  PROVE  Reverse(q) = q
<1>1. Reverse(q) \in Seq(C) /\ Len(Reverse(q)) = Len(q) /\ \A i \in 1..Len(q) : Reverse(q)[i] = q[(Len(q) - i) + 1]
  BY ReverseType
<1>2. \A i \in 1..Len(q) : (Len(q) - i) + 1 = i OBVIOUS
<1>3. \A i \in 1..Len(q) : Reverse(q)[i] = q[i] BY <1>1, <1>2
<1> QED BY <1>1, <1>3, SeqEqual

-----------------------------------------------------------------------------
(* Where a list starts.                                                    *)
Pointers == {head[s] : s \in Schedulers} \cup {list[t] : t \in Threads} \cup {prev[t] : t \in Threads}

(* Every list ends, and holds queued coroutines only.                      *)
ListsEnd == \A p \in Pointers :
  Walk(p, next) \in Seq(Queued) /\ Leads(Walk(p, next), p, next)

(* Before anything runs all lists are empty.                               *)
LEMMA InitListsEnd == Init => ListsEnd
<1> SUFFICES ASSUME Init, NEW p \in Pointers
             PROVE  Walk(p, next) \in Seq(Queued) /\ Leads(Walk(p, next), p, next)
  BY DEF ListsEnd
<1>1. p = Nil /\ <<>> \in Seq(Queued) BY DEF Init, Pointers
<1>2. Leads(<<>>, p, next) BY <1>1 DEF Leads, NodeAt
<1>3. \A c \in Queued : next[c] = Nil BY DEF Init, Queued
<1>4. Walk(p, next) = <<>>
  <2>1. Queued \in SUBSET Coros BY DEF Queued
  <2> QED BY <1>1, <1>2, <1>3, <2>1, WalkFinds, Zenon
<1> QED BY <1>1, <1>2, <1>4

(* NoSharing is what Walk needs to find a list of queued nodes.            *)
LEMMA QueuedWalk ==
  ASSUME NoSharing, NEW p \in Pointers, NEW q \in Seq(Queued), Leads(q, p, next)
  PROVE  Walk(p, next) = q
<1>1. Queued \in SUBSET Coros BY DEF Queued
<1>2. \A c, d \in Queued : next[c] = next[d] /\ next[c] # Nil => c = d BY DEF NoSharing
<1>3. \A c \in Queued : next[c] # Nil => next[c] # p BY DEF NoSharing, Pointers
<1> QED BY <1>1, <1>2, <1>3, WalkFinds

(* The same after a step.                                                  *)
LEMMA QueuedWalkNext ==
  ASSUME NoSharing', NEW p \in Pointers', NEW q \in Seq(Queued'), Leads(q, p, next')
  PROVE  Walk(p, next') = q
<1>1. Queued' \in SUBSET Coros BY DEF Queued
<1>2. \A c, d \in Queued' : next'[c] = next'[d] /\ next'[c] # Nil => c = d BY DEF NoSharing
<1>3. \A c \in Queued' : next'[c] # Nil => next'[c] # p BY DEF NoSharing, Pointers
<1> QED BY <1>1, <1>2, <1>3, WalkFinds

(* A list is the same after a step that leaves its links alone.            *)
LEMMA WalkStays ==
  ASSUME ListsEnd, NoSharing', NEW p \in Pointers, p \in Pointers',
         NEW C \in SUBSET Queued', Walk(p, next) \in Seq(C), \A c \in C : next'[c] = next[c]
  PROVE  /\ Walk(p, next') = Walk(p, next)
         /\ Walk(p, next') \in Seq(Queued') /\ Leads(Walk(p, next'), p, next')
<1> DEFINE q == Walk(p, next)
<1>1. Leads(q, p, next) BY DEF ListsEnd
<1> HIDE DEF q
<1>2. q \in Seq(C) BY DEF q
<1>3. Leads(q, p, next') BY <1>1, <1>2, LeadsStill
<1>4. q \in Seq(Queued') BY <1>2
<1>5. Walk(p, next') = q BY <1>3, <1>4, QueuedWalkNext
<1> QED BY <1>3, <1>4, <1>5 DEF q

(* post(): the node goes in front of the list, so to the back of the queue.*)
LEMMA PostRefines ==
  ASSUME IInv, IInv', ListsEnd, NEW t \in Threads, PostPublish(t)
  PROVE  ListsEnd' /\ Queue!Post(target[cur[t]], cur[t])
<1> DEFINE c == cur[t]
           s == target[c]
           q == Walk(head[s], next)
<1>0. /\ c \in Coros \ Queued /\ s \in Schedulers /\ at[c] = "posting"
      /\ next' = [next EXCEPT ![c] = head[s]]
      /\ head' = [head EXCEPT ![s] = c]
      /\ at' = [at EXCEPT ![c] = "queued"]
      /\ list' = list /\ prev' = prev
      /\ \A u \in Threads : pc'[u] = "reverse" <=> pc[u] = "reverse"
      /\ TypeOK /\ NoSharing /\ NoSharing'
  BY SchedulerAssumption DEF IInv, TypeOK, ThreadShape, Node, Queued, PostPublish, BackTo
<1> HIDE DEF c, s
<1>1. Queued' = Queued \cup {c} BY <1>0 DEF Queued, TypeOK
<1>2. \A d \in Queued : next'[d] = next[d] BY <1>0 DEF Queued, TypeOK
<1>3. next'[c] = head[s] /\ head'[s] = c BY <1>0 DEF TypeOK
<1>4. head[s] \in Pointers /\ c \in Pointers' BY <1>0, <1>3 DEF Pointers
<1>5. q \in Seq(Queued) /\ Leads(q, head[s], next) BY <1>4 DEF ListsEnd
<1> HIDE DEF q
<1>6. Walk(c, next') = <<c>> \o q /\ <<c>> \o q \in Seq(Queued') /\ Leads(<<c>> \o q, c, next')
  <2>1. Leads(q, head[s], next') BY <1>2, <1>5, LeadsStill
  <2>2. Leads(<<c>> \o q, c, next') BY <1>3, <1>5, <2>1, LeadsPushed
  <2>3. <<c>> \o q \in Seq(Queued') BY <1>1, <1>5
  <2> QED BY <1>0, <1>4, <2>2, <2>3, QueuedWalkNext
<1>7. ASSUME NEW p \in Pointers, p \in Pointers'
      PROVE  /\ Walk(p, next') = Walk(p, next)
             /\ Walk(p, next') \in Seq(Queued') /\ Leads(Walk(p, next'), p, next')
  <2>1. Walk(p, next) \in Seq(Queued) BY <1>7 DEF ListsEnd
  <2>2. Queued \in SUBSET Queued' BY <1>1
  <2> QED BY <1>0, <1>2, <1>7, <2>1, <2>2, WalkStays
<1>8. \A p \in Pointers' : p = c \/ p \in Pointers BY <1>0 DEF Pointers, TypeOK
<1>9. ListsEnd' BY <1>6, <1>7, <1>8 DEF ListsEnd
<1>10. Posted' = [Posted EXCEPT ![s] = Append(@, c)]
  <2>1. Reverse(<<c>> \o q) = Append(Reverse(q), c)
    <3>1. q \in Seq(Queued') /\ c \in Queued' BY <1>1, <1>5
    <3> QED BY <3>1, ReversePushed
  <2>2. ASSUME NEW r \in Schedulers, r # s PROVE Walk(head'[r], next') = Walk(head[r], next)
    <3>1. head'[r] = head[r] BY <1>0, <2>2 DEF TypeOK
    <3>2. head[r] \in Pointers /\ head[r] \in Pointers' BY <3>1 DEF Pointers
    <3> QED BY <1>7, <3>1, <3>2
  <2>3. Reverse(Walk(head'[s], next')) = Append(Reverse(Walk(head[s], next)), c)
    BY <1>3, <1>6, <2>1 DEF q
  <2>4. ASSUME NEW r \in Schedulers
        PROVE  Reverse(Walk(head'[r], next')) = [Posted EXCEPT ![s] = Append(@, c)][r]
    <3>1. CASE r = s BY <2>3, <3>1 DEF Posted
    <3>2. CASE r # s BY <2>2, <3>2 DEF Posted
    <3> QED BY <3>1, <3>2
  <2> QED BY <1>0, <2>4, Zenon DEF Posted
<1>11. Batch' = Batch
  <2>1. ASSUME NEW u \in Threads
        PROVE  Walk(list'[u], next') = Walk(list[u], next) /\ Walk(prev'[u], next') = Walk(prev[u], next)
    <3>1. {list[u], prev[u]} \subseteq Pointers /\ {list[u], prev[u]} \subseteq Pointers'
      BY <1>0 DEF Pointers
    <3> QED BY <1>0, <1>7, <3>1
  <2> QED BY <1>0, <2>1 DEF Batch
<1>12. Queue!Becomes(c, "running", "queued")
  BY <1>0 DEF Queue!Becomes, State, TypeOK
<1> QED BY <1>9, <1>10, <1>11, <1>12 DEF Queue!Post, c, s

(* An empty list, and the first node of one that is not empty.             *)
LEMMA EmptyWalk ==
  ASSUME NoSharing, Nil \in Pointers
  PROVE  Walk(Nil, next) = <<>>
<1>1. Leads(<<>>, Nil, next) BY DEF Leads, NodeAt
<1>2. <<>> \in Seq(Queued) OBVIOUS
<1> QED BY <1>1, <1>2, QueuedWalk

LEMMA FirstOfWalk ==
  ASSUME ListsEnd, NEW p \in Pointers, p # Nil
  PROVE  LET q == Walk(p, next)
         IN  /\ q # <<>> /\ Head(q) = p /\ Tail(q) \in Seq(Queued)
             /\ Leads(Tail(q), next[p], next)
<1>1. Walk(p, next) \in Seq(Queued) /\ Leads(Walk(p, next), p, next) BY DEF ListsEnd
<1> QED BY <1>1, LeadsTail

(* A list that does not start at c and that no link connects to c passes c.*)
LEMMA WalkAvoids ==
  ASSUME ListsEnd, NEW p \in Pointers, NEW c, c # p, c # Nil, \A d \in Queued : next[d] # c
  PROVE  Walk(p, next) \in Seq(Queued \ {c})
<1>1. Walk(p, next) \in Seq(Queued) /\ Leads(Walk(p, next), p, next) BY DEF ListsEnd
<1> QED BY <1>1, LeadsPast

(* Steps that move pointers but change no link keep all lists.             *)
LEMMA ListsStay ==
  ASSUME NoSharing', ListsEnd, UNCHANGED next, Queued' = Queued, Pointers' \subseteq Pointers
  PROVE  ListsEnd' /\ \A p \in Pointers' : Walk(p, next') = Walk(p, next)
<1>1. ASSUME NEW p \in Pointers'
      PROVE  /\ Walk(p, next') = Walk(p, next)
             /\ Walk(p, next') \in Seq(Queued') /\ Leads(Walk(p, next'), p, next')
  <2>1. p \in Pointers BY <1>1
  <2>2. Walk(p, next) \in Seq(Queued') BY <2>1 DEF ListsEnd
  <2> QED BY <1>1, <2>1, <2>2, WalkStays
<1> QED BY <1>1 DEF ListsEnd

(* acquire(): the whole queue becomes the batch of the thread.             *)
LEMMA AcquireRefines ==
  ASSUME IInv, IInv', ListsEnd, NEW t \in Threads, Acquire(t)
  PROVE  ListsEnd' /\ Queue!Take(t, index[t])
<1> DEFINE s == index[t]
           node == head[s]
           q == Walk(node, next)
<1>0. /\ s \in Schedulers /\ node # Nil /\ pc[t] = "idle" /\ list[t] = Nil /\ prev[t] = Nil
      /\ head' = [head EXCEPT ![s] = Nil]
      /\ list' = [list EXCEPT ![t] = node]
      /\ pc' = [pc EXCEPT ![t] = IF next[node] = Nil THEN "drain" ELSE "reverse"]
      /\ next' = next /\ at' = at /\ prev' = prev
      /\ TypeOK /\ NoSharing /\ NoSharing'
  BY DEF IInv, TypeOK, ThreadShape, Acquire, coros
<1> HIDE DEF s, node
<1>1. Queued' = Queued BY <1>0 DEF Queued
<1>2. Nil \in Pointers /\ node \in Pointers BY <1>0 DEF Pointers, node
<1>3. Pointers' \subseteq Pointers BY <1>0, <1>2 DEF Pointers, TypeOK
<1>4. ListsEnd' /\ \A p \in Pointers' : Walk(p, next') = Walk(p, next)
  BY <1>0, <1>1, <1>3, ListsStay
<1>5. Walk(Nil, next) = <<>> BY <1>0, <1>2, EmptyWalk
<1>6. q \in Seq(Queued) /\ Leads(q, node, next) /\ q # <<>> /\ Head(q) = node
  BY <1>0, <1>2, FirstOfWalk DEF ListsEnd
<1> HIDE DEF q
<1>7. Reverse(q) \in Seq(Queued) /\ Reverse(q) # <<>> BY <1>6, ReverseType
<1>8. Posted[s] = Reverse(q) BY <1>0 DEF Posted, q, node
<1>9. Batch[t] = <<>> BY <1>0, <1>5 DEF Batch
<1>10. Posted' = [Posted EXCEPT ![s] = <<>>]
  <2>1. Walk(head'[s], next') = <<>> BY <1>0, <1>5 DEF TypeOK
  <2>2. Reverse(<<>>) = <<>> BY DEF Reverse
  <2>3. ASSUME NEW r \in Schedulers
        PROVE  Reverse(Walk(head'[r], next')) = [Posted EXCEPT ![s] = <<>>][r]
    <3>1. CASE r = s BY <2>1, <2>2, <3>1 DEF Posted
    <3>2. CASE r # s BY <1>0, <3>2 DEF Posted, TypeOK
    <3> QED BY <3>1, <3>2
  <2> QED BY <1>0, <2>3, Zenon DEF Posted
<1>11. Batch' = [Batch EXCEPT ![t] = Posted[s]]
  <2>1. Walk(list'[t], next') = q /\ Walk(prev'[t], next') = <<>> BY <1>0, <1>5 DEF TypeOK, q
  <2>2. CASE next[node] = Nil
    <3>1. Len(q) <= 1
      <4> SUFFICES ASSUME Len(q) > 1 PROVE FALSE BY <1>6
      <4>1. 1 \in 1..Len(q) /\ 2 \in 1..Len(q) /\ q[1] = node BY <1>6
      <4>2. next[q[1]] = NodeAt(q, 1 + 1) BY <1>6, <4>1 DEF Leads
      <4>3. q[2] = Nil BY <2>2, <4>1, <4>2 DEF NodeAt
      <4>4. q[2] \in Queued BY <1>6, <4>1
      <4> QED BY <4>3, <4>4, SchedulerAssumption DEF Queued
    <3>2. Reverse(q) = q BY <1>6, <3>1, ReverseShort
    <3>3. pc'[t] # "reverse" BY <1>0, <2>2 DEF TypeOK
    <3> QED BY <1>0, <1>8, <2>1, <3>2, <3>3 DEF Batch, TypeOK
  <2>3. CASE next[node] # Nil
    <3>1. Reverse(q) \o <<>> = Reverse(q) BY <1>7
    <3>2. pc'[t] = "reverse" BY <1>0, <2>3 DEF TypeOK
    <3> QED BY <1>0, <1>8, <2>1, <3>1, <3>2 DEF Batch, TypeOK
  <2> QED BY <2>2, <2>3
<1>12. UNCHANGED State BY <1>0 DEF State
<1> QED BY <1>4, <1>7, <1>8, <1>9, <1>10, <1>11, <1>12 DEF Queue!Take, s

(* The reversal moves a node from one list to the other.                   *)
LEMMA ReverseOneRefines ==
  ASSUME IInv, IInv', ListsEnd, NEW t \in Threads, ReverseOne(t)
  PROVE  ListsEnd' /\ UNCHANGED Queue!vars
<1> DEFINE c == list[t]
           q == Walk(c, next)
           r == Walk(prev[t], next)
<1>0. /\ c \in Queued /\ c # Nil /\ pc[t] = "reverse"
      /\ list' = [list EXCEPT ![t] = next[c]]
      /\ next' = [next EXCEPT ![c] = prev[t]]
      /\ prev' = [prev EXCEPT ![t] = c]
      /\ head' = head /\ at' = at /\ pc' = pc
      /\ TypeOK /\ NoSharing /\ NoSharing'
  BY DEF IInv, NoDangling, ReverseOne, coros
<1>1. Queued' = Queued BY <1>0 DEF Queued
<1>2. /\ c \in Pointers /\ prev[t] \in Pointers /\ next[c] \in Pointers' /\ c \in Pointers'
      /\ list'[t] = next[c] /\ prev'[t] = c /\ next'[c] = prev[t]
      /\ \A d \in Queued \ {c} : next'[d] = next[d]
  BY <1>0 DEF Pointers, TypeOK, Queued
<1>3. /\ \A d \in Queued : next[d] # c
      /\ \A s \in Schedulers : head[s] # c
      /\ \A u \in Threads : prev[u] # c /\ (u # t => list[u] # c)
  BY <1>0 DEF NoSharing
<1> HIDE DEF c
<1>4. /\ q \in Seq(Queued) /\ q # <<>> /\ Head(q) = c
      /\ Tail(q) \in Seq(Queued) /\ Leads(Tail(q), next[c], next)
  BY <1>0, <1>2, FirstOfWalk DEF ListsEnd
<1>5. r \in Seq(Queued \ {c}) /\ Leads(r, prev[t], next)
  BY <1>0, <1>2, <1>3, WalkAvoids DEF ListsEnd
<1> HIDE DEF q, r
<1>6. Walk(next[c], next') = Tail(q) /\ Tail(q) \in Seq(Queued') /\ Leads(Tail(q), next[c], next')
  <2>1. Tail(q) \in Seq(Queued \ {c}) BY <1>0, <1>3, <1>4, LeadsPast
  <2>2. Leads(Tail(q), next[c], next') BY <1>2, <1>4, <2>1, LeadsStill
  <2>3. Tail(q) \in Seq(Queued') BY <1>1, <1>4
  <2> QED BY <1>0, <1>2, <2>2, <2>3, QueuedWalkNext
<1>7. Walk(c, next') = <<c>> \o r /\ <<c>> \o r \in Seq(Queued') /\ Leads(<<c>> \o r, c, next')
  <2>1. Leads(r, prev[t], next') BY <1>2, <1>5, LeadsStill
  <2>2. Leads(<<c>> \o r, c, next') BY <1>2, <1>5, <2>1, LeadsPushed
  <2>3. <<c>> \o r \in Seq(Queued') BY <1>0, <1>1, <1>5
  <2> QED BY <1>0, <1>2, <2>2, <2>3, QueuedWalkNext
<1>8. ASSUME NEW p \in Pointers, p \in Pointers', p # c
      PROVE  /\ Walk(p, next') = Walk(p, next)
             /\ Walk(p, next') \in Seq(Queued') /\ Leads(Walk(p, next'), p, next')
  <2>1. Walk(p, next) \in Seq(Queued \ {c}) BY <1>0, <1>3, <1>8, WalkAvoids
  <2>2. Queued \ {c} \in SUBSET Queued' BY <1>1
  <2> QED BY <1>0, <1>2, <1>8, <2>1, <2>2, WalkStays
<1>9. ASSUME NEW s \in Schedulers PROVE Walk(head'[s], next') = Walk(head[s], next)
  <2>1. head[s] \in Pointers /\ head[s] \in Pointers' /\ head[s] # c BY <1>0, <1>3 DEF Pointers
  <2> QED BY <1>0, <1>8, <2>1
<1>10. ASSUME NEW u \in Threads, u # t
       PROVE  Walk(list'[u], next') = Walk(list[u], next) /\ Walk(prev'[u], next') = Walk(prev[u], next)
  <2>1. list'[u] = list[u] /\ prev'[u] = prev[u] BY <1>0, <1>10 DEF TypeOK
  <2>2. {list[u], prev[u]} \subseteq Pointers /\ {list[u], prev[u]} \subseteq Pointers'
    BY <2>1 DEF Pointers
  <2>3. list[u] # c /\ prev[u] # c BY <1>3, <1>10
  <2> QED BY <1>8, <2>1, <2>2, <2>3
<1>11. ListsEnd'
  <2>1. ASSUME NEW p \in Pointers' PROVE p \in {c, next[c]} \/ (p \in Pointers /\ p # c)
    BY <1>0, <1>2, <1>3 DEF Pointers, TypeOK
  <2> QED BY <1>6, <1>7, <1>8, <2>1 DEF ListsEnd
<1>12. Posted' = Posted BY <1>9 DEF Posted
<1>13. Batch' = Batch
  <2>1. Reverse(q) \o r = Reverse(Tail(q)) \o (<<c>> \o r)
    <3>1. r \in Seq(Queued) BY <1>5
    <3> QED BY <1>4, <3>1, ReverseMoved
  <2>2. ASSUME NEW u \in Threads PROVE Batch[u]' = Batch[u]
    <3>1. CASE u = t BY <1>0, <1>2, <1>6, <1>7, <2>1, <3>1 DEF Batch, q, r, c
    <3>2. CASE u # t
      <4>1. Walk(list'[u], next') = Walk(list[u], next) /\ Walk(prev'[u], next') = Walk(prev[u], next)
        BY <1>10, <3>2
      <4> QED BY <1>0, <4>1 DEF Batch
    <3> QED BY <3>1, <3>2
  <2> QED BY <2>2 DEF Batch
<1>14. State' = State BY <1>0 DEF State
<1> QED BY <1>11, <1>12, <1>13, <1>14 DEF Queue!vars

(* At its end the reversed list is the batch.                              *)
LEMMA ReversedRefines ==
  ASSUME IInv, IInv', ListsEnd, NEW t \in Threads, Reversed(t)
  PROVE  ListsEnd' /\ UNCHANGED Queue!vars
<1>0. /\ list[t] = Nil /\ pc[t] = "reverse"
      /\ list' = [list EXCEPT ![t] = prev[t]]
      /\ prev' = [prev EXCEPT ![t] = Nil]
      /\ pc' = [pc EXCEPT ![t] = "drain"]
      /\ head' = head /\ next' = next /\ at' = at
      /\ TypeOK /\ NoSharing /\ NoSharing'
  BY DEF IInv, Reversed, queue, coros
<1>1. Queued' = Queued BY <1>0 DEF Queued
<1>2. Nil \in Pointers /\ prev[t] \in Pointers BY <1>0 DEF Pointers
<1>3. Pointers' \subseteq Pointers BY <1>0, <1>2 DEF Pointers, TypeOK
<1>4. ListsEnd' BY <1>0, <1>1, <1>3, ListsStay
<1>5. Walk(Nil, next) = <<>> BY <1>0, <1>2, EmptyWalk
<1>6. Posted' = Posted BY <1>0 DEF Posted
<1>7. Batch' = Batch
  <2>1. Reverse(<<>>) = <<>> BY DEF Reverse
  <2>2. Walk(prev[t], next) \in Seq(Queued) BY <1>2 DEF ListsEnd
  <2>3. <<>> \o Walk(prev[t], next) = Walk(prev[t], next) BY <2>2
  <2>4. ASSUME NEW u \in Threads PROVE Batch[u]' = Batch[u]
    <3>1. CASE u = t BY <1>0, <1>5, <2>1, <2>3, <3>1 DEF Batch, TypeOK
    <3>2. CASE u # t BY <1>0, <3>2 DEF Batch, TypeOK
    <3> QED BY <3>1, <3>2
  <2> QED BY <2>4 DEF Batch
<1>8. State' = State BY <1>0 DEF State
<1> QED BY <1>4, <1>6, <1>7, <1>8 DEF Queue!vars

(* The resume loop runs the oldest coroutine of the batch.                 *)
LEMMA ResumeRefines ==
  ASSUME IInv, IInv', ListsEnd, NEW t \in Threads, Resume(t)
  PROVE  ListsEnd' /\ Queue!Run(t)
<1> DEFINE c == list[t]
           q == Walk(c, next)
<1>0. /\ c \in Queued /\ c # Nil /\ pc[t] = "drain"
      /\ list' = [list EXCEPT ![t] = next[c]]
      /\ at' = [at EXCEPT ![c] = "running"]
      /\ pc' = [pc EXCEPT ![t] = "exec"]
      /\ head' = head /\ next' = next /\ prev' = prev
      /\ TypeOK /\ NoSharing /\ NoSharing'
  BY DEF IInv, NoDangling, Resume, queue
<1>1. Queued' = Queued \ {c} BY <1>0 DEF Queued, TypeOK
<1>2. c \in Pointers /\ next[c] \in Pointers' /\ list'[t] = next[c]
  BY <1>0 DEF Pointers, TypeOK
<1>3. /\ \A d \in Queued : next[d] # c
      /\ \A s \in Schedulers : head[s] # c
      /\ \A u \in Threads : prev[u] # c /\ (u # t => list[u] # c)
  BY <1>0 DEF NoSharing
<1> HIDE DEF c
<1>4. /\ q \in Seq(Queued) /\ q # <<>> /\ Head(q) = c
      /\ Tail(q) \in Seq(Queued) /\ Leads(Tail(q), next[c], next)
  BY <1>0, <1>2, FirstOfWalk DEF ListsEnd
<1> HIDE DEF q
<1>6. Walk(next[c], next') = Tail(q) /\ Tail(q) \in Seq(Queued') /\ Leads(Tail(q), next[c], next')
  <2>1. Tail(q) \in Seq(Queued \ {c}) BY <1>0, <1>3, <1>4, LeadsPast
  <2>2. Tail(q) \in Seq(Queued') /\ Leads(Tail(q), next[c], next') BY <1>0, <1>1, <1>4, <2>1
  <2> QED BY <1>0, <1>2, <2>2, QueuedWalkNext
<1>8. ASSUME NEW p \in Pointers, p \in Pointers', p # c
      PROVE  /\ Walk(p, next') = Walk(p, next)
             /\ Walk(p, next') \in Seq(Queued') /\ Leads(Walk(p, next'), p, next')
  <2>1. Walk(p, next) \in Seq(Queued') BY <1>0, <1>1, <1>3, <1>8, WalkAvoids
  <2> QED BY <1>0, <1>8, <2>1, WalkStays
<1>9. ASSUME NEW s \in Schedulers PROVE Walk(head'[s], next') = Walk(head[s], next)
  BY <1>0
<1>10. ListsEnd'
  <2>1. ASSUME NEW p \in Pointers' PROVE p = next[c] \/ (p \in Pointers /\ p # c)
    BY <1>0, <1>2, <1>3 DEF Pointers, TypeOK
  <2> QED BY <1>6, <1>8, <2>1 DEF ListsEnd
<1>11. Posted' = Posted BY <1>9 DEF Posted
<1>12. Batch[t] = q BY <1>0 DEF Batch, q, c
<1>13. Batch' = [Batch EXCEPT ![t] = Tail(q)]
  <2>1. ASSUME NEW u \in Threads PROVE Batch[u]' = [Batch EXCEPT ![t] = Tail(q)][u]
    <3>1. CASE u = t BY <1>0, <1>2, <1>6, <3>1 DEF Batch, TypeOK
    <3>2. CASE u # t BY <1>0, <3>2 DEF Batch, TypeOK
    <3> QED BY <3>1, <3>2
  <2> QED BY <2>1 DEF Batch
<1>14. Queue!Becomes(c, "queued", "running")
  BY <1>0 DEF Queue!Becomes, State, Queued, TypeOK
<1> QED BY <1>4, <1>10, <1>11, <1>12, <1>13, <1>14 DEF Queue!Run

(* All other steps leave links and lists alone.                            *)
LEMMA ElsewhereSame ==
  ASSUME NoSharing', ListsEnd, UNCHANGED <<queue, list, prev>>, Queued' = Queued,
         \A u \in Threads : pc'[u] = "reverse" <=> pc[u] = "reverse"
  PROVE  ListsEnd' /\ UNCHANGED <<Posted, Batch>>
<1>1. head' = head /\ next' = next /\ list' = list /\ prev' = prev BY DEF queue
<1>2. Pointers' \subseteq Pointers BY <1>1 DEF Pointers
<1>3. ListsEnd' BY <1>1, <1>2, ListsStay
<1>4. Posted' = Posted BY <1>1 DEF Posted
<1>5. Batch' = Batch BY <1>1 DEF Batch
<1> QED BY <1>3, <1>4, <1>5

(* Every step of the scheduler is a step of the FIFO run queue, or none.   *)
LEMMA StepRefines ==
  ASSUME IInv, IInv', ListsEnd, [Next]_schedulerVars
  PROVE  ListsEnd' /\ [Queue!Next]_(Queue!vars)
<1> USE SchedulerAssumption DEF TypeOK, Node
<1>0. TypeOK /\ ThreadShape /\ NoSharing' BY DEF IInv
<1>1. ASSUME NEW t \in Threads, NEW s \in Schedulers, Enter(t, s) PROVE ListsEnd' /\ UNCHANGED Queue!vars
  <2>1. ListsEnd' /\ UNCHANGED <<Posted, Batch>> BY <1>0, <1>1, ElsewhereSame DEF Enter, coros, Queued
  <2>2. UNCHANGED State BY <1>1 DEF Enter, coros, State
  <2> QED BY <2>1, <2>2 DEF Queue!vars
<1>2. ASSUME NEW t \in Threads, Leave(t) PROVE ListsEnd' /\ UNCHANGED Queue!vars
  <2>1. ListsEnd' /\ UNCHANGED <<Posted, Batch>> BY <1>0, <1>2, ElsewhereSame DEF Leave, coros, Queued
  <2>2. UNCHANGED State BY <1>2 DEF Leave, coros, State
  <2> QED BY <2>1, <2>2 DEF Queue!vars
<1>3. ASSUME NEW t \in Threads, NEW c \in Coros, Launch(t, c) PROVE ListsEnd' /\ Queue!Start(c)
  <2>1. Queued' = Queued BY <1>0, <1>3 DEF Launch, Queued
  <2>2. ListsEnd' /\ UNCHANGED <<Posted, Batch>> BY <1>0, <1>3, <2>1, ElsewhereSame DEF Launch
  <2>3. Queue!Becomes(c, "new", "running") BY <1>0, <1>3 DEF Launch, State, Queue!Becomes
  <2> QED BY <2>2, <2>3 DEF Queue!Start
<1>4. ASSUME NEW t \in Threads, NEW s \in Schedulers, AwaitReady(t, s) PROVE ListsEnd' /\ UNCHANGED Queue!vars
  <2>1. ListsEnd' /\ UNCHANGED <<Posted, Batch>> BY <1>0, <1>4, ElsewhereSame DEF AwaitReady, threads, Queued
  <2>2. UNCHANGED State BY <1>4 DEF AwaitReady, State
  <2> QED BY <2>1, <2>2 DEF Queue!vars
<1>5. ASSUME NEW t \in Threads, NEW s \in Schedulers, NEW post \in BOOLEAN, AwaitSuspend(t, s, post)
      PROVE  ListsEnd' /\ UNCHANGED Queue!vars
  <2>1. Queued' = Queued BY <1>0, <1>5 DEF AwaitSuspend, Queued, ThreadShape
  <2>2. ListsEnd' /\ UNCHANGED <<Posted, Batch>> BY <1>0, <1>5, <2>1, ElsewhereSame DEF AwaitSuspend
  <2>3. UNCHANGED State BY <1>0, <1>5 DEF AwaitSuspend, State, ThreadShape
  <2> QED BY <2>2, <2>3 DEF Queue!vars
<1>6. ASSUME NEW t \in Threads, NEW s \in Schedulers, Suspend(t, s)
      PROVE  ListsEnd' /\ cur[t] \in Coros /\ Queue!Wait(cur[t])
  <2>1. Queued' = Queued /\ cur[t] \in Coros BY <1>0, <1>6 DEF Suspend, Queued, ThreadShape
  <2>2. ListsEnd' /\ UNCHANGED <<Posted, Batch>> BY <1>0, <1>6, <2>1, ElsewhereSame DEF Suspend, BackTo
  <2>3. Queue!Becomes(cur[t], "running", "waiting")
    BY <1>0, <1>6, <2>1 DEF Suspend, State, Queue!Becomes, ThreadShape
  <2> QED BY <2>1, <2>2, <2>3 DEF Queue!Wait
<1>7. ASSUME NEW t \in Threads, NEW c \in Coros, Complete(t, c) PROVE ListsEnd' /\ Queue!GoOn(c)
  <2>1. Queued' = Queued BY <1>0, <1>7 DEF Complete, Queued
  <2>2. ListsEnd' /\ UNCHANGED <<Posted, Batch>> BY <1>0, <1>7, <2>1, ElsewhereSame DEF Complete
  <2>3. Queue!Becomes(c, "waiting", "running") BY <1>0, <1>7 DEF Complete, State, Queue!Becomes
  <2> QED BY <2>2, <2>3 DEF Queue!GoOn
<1>8. ASSUME NEW t \in Threads, Finish(t) PROVE ListsEnd' /\ cur[t] \in Coros /\ Queue!Finish(cur[t])
  <2>1. Queued' = Queued /\ cur[t] \in Coros BY <1>0, <1>8 DEF Finish, Queued, ThreadShape
  <2>2. ListsEnd' /\ UNCHANGED <<Posted, Batch>> BY <1>0, <1>8, <2>1, ElsewhereSame DEF Finish, BackTo
  <2>3. Queue!Becomes(cur[t], "running", "done")
    BY <1>0, <1>8, <2>1 DEF Finish, State, Queue!Becomes, ThreadShape
  <2> QED BY <2>1, <2>2, <2>3 DEF Queue!Finish
<1>9. ASSUME NEW t \in Threads, PostLoad(t) \/ PostRetry(t) PROVE ListsEnd' /\ UNCHANGED Queue!vars
  <2>1. ListsEnd' /\ UNCHANGED <<Posted, Batch>>
    BY <1>0, <1>9, ElsewhereSame DEF PostLoad, PostRetry, coros, Queued
  <2>2. UNCHANGED State BY <1>9 DEF PostLoad, PostRetry, coros, State
  <2> QED BY <2>1, <2>2 DEF Queue!vars
<1>10. ASSUME NEW t \in Threads, PostPublish(t)
       PROVE  ListsEnd' /\ \E c \in Coros, s \in Schedulers : Queue!Post(s, c)
  <2>1. cur[t] \in Coros /\ target[cur[t]] \in Schedulers BY <1>0, <1>10 DEF PostPublish, ThreadShape
  <2> QED BY <1>10, <2>1, PostRefines
<1>11. ASSUME NEW t \in Threads, Acquire(t)
       PROVE  ListsEnd' /\ \E s \in Schedulers : Queue!Take(t, s)
  <2>1. index[t] \in Schedulers BY <1>0, <1>11 DEF Acquire
  <2> QED BY <1>11, <2>1, AcquireRefines
<1>12. ASSUME NEW t \in Threads, ReverseOne(t) PROVE ListsEnd' /\ UNCHANGED Queue!vars
  BY <1>12, ReverseOneRefines
<1>13. ASSUME NEW t \in Threads, Reversed(t) PROVE ListsEnd' /\ UNCHANGED Queue!vars
  BY <1>13, ReversedRefines
<1>14. ASSUME NEW t \in Threads, Resume(t) PROVE ListsEnd' /\ Queue!Run(t)
  BY <1>14, ResumeRefines
<1>15. ASSUME NEW t \in Threads, Return(t) PROVE ListsEnd' /\ UNCHANGED Queue!vars
  <2>1. ListsEnd' /\ UNCHANGED <<Posted, Batch>> BY <1>0, <1>15, ElsewhereSame DEF Return, coros, Queued
  <2>2. UNCHANGED State BY <1>15 DEF Return, coros, State
  <2> QED BY <2>1, <2>2 DEF Queue!vars
<1>16. CASE UNCHANGED schedulerVars
  <2>1. ListsEnd' /\ UNCHANGED <<Posted, Batch>> BY <1>0, <1>16, ElsewhereSame DEF schedulerVars, queue, Queued
  <2>2. UNCHANGED State BY <1>16 DEF schedulerVars, State
  <2> QED BY <2>1, <2>2 DEF Queue!vars
<1> QED
  BY <1>1, <1>2, <1>3, <1>4, <1>5, <1>6, <1>7, <1>8, <1>9, <1>10, <1>11, <1>12, <1>13, <1>14, <1>15, <1>16
  DEF Next, Await, Work, Queue!Next

(* With all lists empty the abstract queues are.                           *)
LEMMA InitRefines == Init => Queue!Init
<1> SUFFICES ASSUME Init PROVE Queue!Init OBVIOUS
<1>0. ListsEnd /\ NoSharing BY InitListsEnd, InitEstablishesIInv DEF IInv
<1>1. \A s \in Schedulers : Walk(head[s], next) = <<>>
  <2>1. ASSUME NEW s \in Schedulers PROVE Walk(head[s], next) = <<>>
    <3>1. head[s] = Nil /\ head[s] \in Pointers BY DEF Init, Pointers
    <3> QED BY <1>0, <3>1, EmptyWalk
  <2> QED BY <2>1
<1>2. \A t \in Threads : Walk(list[t], next) = <<>>
  <2>1. ASSUME NEW t \in Threads PROVE Walk(list[t], next) = <<>>
    <3>1. list[t] = Nil /\ list[t] \in Pointers BY DEF Init, Pointers
    <3> QED BY <1>0, <3>1, EmptyWalk
  <2> QED BY <2>1
<1>3. Reverse(<<>>) = <<>> BY DEF Reverse
<1>4. Posted = [s \in Schedulers |-> <<>>] BY <1>1, <1>3 DEF Posted
<1>5. Batch = [t \in Threads |-> <<>>] BY <1>2 DEF Batch, Init
<1>6. State = [c \in Coros |-> "new"] BY DEF State, Init
<1> QED BY <1>4, <1>5, <1>6 DEF Queue!Init

(* The lock-free stack, its reversal and the resume loop together are a    *)
(* FIFO: post() appends to the queue of the scheduler, acquire() takes     *)
(* all of it at once, and process() resumes in the order of the posts.     *)
THEOREM SchedulerImplementsRunQueue == Spec => RunQueueSpec
<1>1. Init => ListsEnd /\ Queue!Init
  BY InitListsEnd, InitRefines
<1>2. IInv /\ IInv' /\ ListsEnd /\ [Next]_schedulerVars => ListsEnd' /\ [Queue!Next]_(Queue!vars)
  BY StepRefines
<1> QED BY SchedulerInvariance, <1>1, <1>2, PTL DEF Spec, RunQueueSpec, Queue!Spec

=============================================================================
