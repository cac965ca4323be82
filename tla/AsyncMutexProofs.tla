-------------------------- MODULE AsyncMutexProofs --------------------------
(***************************************************************************)
(* async_mutex of ice/async.hpp for any number of coroutines: mutual       *)
(* exclusion, the assertions of the code, and no lost waiter.              *)
(*                                                                         *)
(* Mutual exclusion is not inductive: unlock() of a second owner could     *)
(* resume a coroutine that is not suspended.  IInv of module AsyncMutex    *)
(* adds what the lists hold.  One lemma per conjunct shows which of the    *)
(* others it needs, action by action.  On top of it every list ends, and   *)
(* the mutex refines FifoLock.                                             *)
(***************************************************************************)
EXTENDS AsyncMutex, FiniteSetTheorems, SequenceTheorems, WellFoundedInduction, TLAPS

(* A fresh mutex is not locked and nobody waits for it.                    *)
LEMMA InitEstablishesIInv == Init => IInv
BY MutexAssumption
   DEF Init, IInv, TypeOK, MutualExclusion, HolderShape, ResumerShape, NoDangling, NoSharing,
       NoLostWaiter, Holders, Suspended, Holding, Node

(* m_state is not_locked, nullptr or an operation, links are operations.   *)
LEMMA TypeOKStep ==
  ASSUME TypeOK, HolderShape, [Next]_vars
  PROVE  TypeOK'
<1> USE MutexAssumption DEF TypeOK, Node, Holding
<1>1. ASSUME NEW c \in Coros, TryLock(c) PROVE TypeOK'
  BY <1>1 DEF TryLock, Goto, local
<1>2. ASSUME NEW c \in Coros, LockAsync(c) PROVE TypeOK'
  BY <1>2 DEF LockAsync, Goto, local
<1>3. ASSUME NEW c \in Coros, AwaitLoad(c) PROVE TypeOK'
  BY <1>3 DEF AwaitLoad, Goto
<1>4. ASSUME NEW c \in Coros, AwaitRetry(c) PROVE TypeOK'
  BY <1>4 DEF AwaitRetry
<1>5. ASSUME NEW c \in Coros, AwaitAcquire(c) PROVE TypeOK'
  BY <1>5 DEF AwaitAcquire, Goto, local
<1>6. ASSUME NEW c \in Coros, AwaitEnqueue(c) PROVE TypeOK'
  BY <1>6 DEF AwaitEnqueue, GiveBack, local
<1>7. ASSUME NEW c \in Coros, Unlock(c) PROVE TypeOK'
  BY <1>7 DEF Unlock, Goto
<1>8. ASSUME NEW c \in Coros, Free(c) PROVE TypeOK'
  BY <1>8 DEF Free, Goto, local
<1>9. ASSUME NEW c \in Coros, Take(c) PROVE TypeOK'
  BY <1>9 DEF Take, Goto, HolderShape, Holders
<1>10. ASSUME NEW c \in Coros, ReverseOne(c) PROVE TypeOK'
  BY <1>10 DEF ReverseOne, Goto, HolderShape, Holders
<1>11. ASSUME NEW c \in Coros, HandOff(c) PROVE TypeOK'
  BY <1>11 DEF HandOff, HolderShape, Holders
<1>12. ASSUME NEW c \in Coros, Finish(c) PROVE TypeOK'
  BY <1>12 DEF Finish, GiveBack, local
<1>13. ASSUME NEW c \in Coros, MoveAway(c) PROVE TypeOK'
  BY <1>13 DEF MoveAway, GiveBack, local
<1>14. CASE UNCHANGED vars
  BY <1>14 DEF vars
<1> QED
  BY <1>1, <1>2, <1>3, <1>4, <1>5, <1>6, <1>7, <1>8, <1>9, <1>10, <1>11, <1>12, <1>13, <1>14
  DEF Next, Step

(* The mutex is acquired when it is not locked, hence without a holder, or *)
(* is handed over by the holder, who stops to be one in the same step.     *)
LEMMA MutualExclusionStep ==
  ASSUME TypeOK, MutualExclusion, HolderShape, [Next]_vars
  PROVE  MutualExclusion'
<1> USE MutexAssumption DEF MutualExclusion, Holders, Holding, Node
<1>1. ASSUME NEW c \in Coros, TryLock(c) PROVE MutualExclusion'
  BY <1>1 DEF TryLock, Goto, local, TypeOK, HolderShape
<1>2. ASSUME NEW c \in Coros, LockAsync(c) PROVE MutualExclusion'
  BY <1>2 DEF LockAsync, Goto, local
<1>3. ASSUME NEW c \in Coros, AwaitLoad(c) PROVE MutualExclusion'
  BY <1>3 DEF AwaitLoad, Goto
<1>4. ASSUME NEW c \in Coros, AwaitRetry(c) PROVE MutualExclusion'
  BY <1>4 DEF AwaitRetry
<1>5. ASSUME NEW c \in Coros, AwaitAcquire(c) PROVE MutualExclusion'
  BY <1>5 DEF AwaitAcquire, Goto, local, TypeOK, HolderShape
<1>6. ASSUME NEW c \in Coros, AwaitEnqueue(c) PROVE MutualExclusion'
  BY <1>6 DEF AwaitEnqueue, GiveBack, local
<1>7. ASSUME NEW c \in Coros, Unlock(c) PROVE MutualExclusion'
  BY <1>7 DEF Unlock, Goto
<1>8. ASSUME NEW c \in Coros, Free(c) PROVE MutualExclusion'
  BY <1>8 DEF Free, Goto, local
<1>9. ASSUME NEW c \in Coros, Take(c) PROVE MutualExclusion'
  BY <1>9 DEF Take, Goto
<1>10. ASSUME NEW c \in Coros, ReverseOne(c) PROVE MutualExclusion'
  BY <1>10 DEF ReverseOne, Goto
<1>11. ASSUME NEW c \in Coros, HandOff(c) PROVE MutualExclusion'
  BY <1>11 DEF HandOff, TypeOK
<1>12. ASSUME NEW c \in Coros, Finish(c) PROVE MutualExclusion'
  BY <1>12 DEF Finish, GiveBack, local
<1>13. ASSUME NEW c \in Coros, MoveAway(c) PROVE MutualExclusion'
  BY <1>13 DEF MoveAway, GiveBack, local
<1>14. CASE UNCHANGED vars
  BY <1>14 DEF vars
<1> QED
  BY <1>1, <1>2, <1>3, <1>4, <1>5, <1>6, <1>7, <1>8, <1>9, <1>10, <1>11, <1>12, <1>13, <1>14
  DEF Next, Step

(* Coroutines that only move outside the critical section keep what the   *)
(* holder relies on.                                                       *)
LEMMA HoldersKept ==
  ASSUME HolderShape,
         UNCHANGED <<m_state, m_waiters, first, rest>>,
         \A d \in Coros : pc'[d] = pc[d] \/ (pc[d] \notin Holding /\ pc'[d] \notin Holding)
  PROVE  HolderShape'
<1>1. Holders' = Holders
  BY DEF Holders
<1>2. ASSUME NEW d \in Coros
      PROVE  /\ pc'[d] \in {"free", "take", "reverse"} => m_waiters' = Nil
             /\ pc'[d] = "handoff" => m_waiters' \in {Nil, first'[d]}
             /\ pc'[d] = "handoff" <=> first'[d] # Nil /\ rest'[d] = Nil
             /\ pc'[d] = "reverse" <=> rest'[d] # Nil
             /\ pc'[d] = "take" => m_state' # Nil
  <2>1. CASE pc'[d] = pc[d]
    BY <2>1 DEF HolderShape
  <2>2. CASE pc[d] \notin Holding /\ pc'[d] \notin Holding
    BY <2>2 DEF HolderShape, Holding
  <2> QED BY <2>1, <2>2
<1> QED BY <1>1, <1>2 DEF HolderShape

(* not_locked means no holder and no list; unlock() takes the stack only   *)
(* when m_waiters is empty and somebody is on the stack.                   *)
LEMMA HolderShapeStep ==
  ASSUME TypeOK, MutualExclusion, HolderShape, ResumerShape, [Next]_vars
  PROVE  HolderShape'
<1> USE MutexAssumption DEF HolderShape, Holders, Holding, Node
<1>1. ASSUME NEW c \in Coros, TryLock(c) PROVE HolderShape'
  BY <1>1 DEF TryLock, Goto, local, TypeOK
<1>2. ASSUME NEW c \in Coros, LockAsync(c) PROVE HolderShape'
  BY <1>2 DEF LockAsync, Goto, local
<1>3. ASSUME NEW c \in Coros, AwaitLoad(c) PROVE HolderShape'
  BY <1>3 DEF AwaitLoad, Goto
<1>4. ASSUME NEW c \in Coros, AwaitRetry(c) PROVE HolderShape'
  BY <1>4 DEF AwaitRetry
<1>5. ASSUME NEW c \in Coros, AwaitAcquire(c) PROVE HolderShape'
  BY <1>5 DEF AwaitAcquire, Goto, local, TypeOK
<1>6. ASSUME NEW c \in Coros, AwaitEnqueue(c) PROVE HolderShape'
  <2>1. m_state # NotLocked /\ m_state' # NotLocked /\ m_state' # Nil /\ UNCHANGED <<m_waiters, first, rest>>
    BY <1>6 DEF AwaitEnqueue, local
  <2>2. \A d \in Coros : pc'[d] = pc[d] \/ (pc[d] \notin Holding /\ pc'[d] \notin Holding)
    BY <1>6 DEF AwaitEnqueue, GiveBack, ResumerShape
  <2>3. Holders' = Holders
    BY <2>2
  <2>4. \A d \in Coros :
          /\ pc'[d] \in {"free", "take", "reverse"} => m_waiters' = Nil
          /\ pc'[d] = "handoff" => m_waiters' \in {Nil, first'[d]}
          /\ pc'[d] = "handoff" <=> first'[d] # Nil /\ rest'[d] = Nil
          /\ pc'[d] = "reverse" <=> rest'[d] # Nil
          /\ pc'[d] = "take" => m_state' # Nil
    BY <2>1, <2>2
  <2> QED BY <2>1, <2>3, <2>4
<1>7. ASSUME NEW c \in Coros, Unlock(c) PROVE HolderShape'
  BY <1>7 DEF Unlock, Goto, TypeOK
<1>8. ASSUME NEW c \in Coros, Free(c) PROVE HolderShape'
  BY <1>8 DEF Free, Goto, local, TypeOK, MutualExclusion
<1>9. ASSUME NEW c \in Coros, Take(c) PROVE HolderShape'
  BY <1>9 DEF Take, Goto, TypeOK, MutualExclusion
<1>10. ASSUME NEW c \in Coros, ReverseOne(c) PROVE HolderShape'
  BY <1>10 DEF ReverseOne, Goto, TypeOK
<1>11. ASSUME NEW c \in Coros, HandOff(c) PROVE HolderShape'
  BY <1>11, SMTT(30) DEF HandOff, TypeOK, MutualExclusion
<1>12. ASSUME NEW c \in Coros, Finish(c) PROVE HolderShape'
  <2>1. UNCHANGED <<m_state, m_waiters, first, rest>>
    BY <1>12 DEF Finish, local
  <2>2. \A d \in Coros : pc'[d] = pc[d] \/ (pc[d] \notin Holding /\ pc'[d] \notin Holding)
    BY <1>12 DEF Finish, GiveBack, ResumerShape
  <2> QED BY <2>1, <2>2, HoldersKept
<1>13. ASSUME NEW c \in Coros, MoveAway(c) PROVE HolderShape'
  <2>1. UNCHANGED <<m_state, m_waiters, first, rest>>
    BY <1>13 DEF MoveAway, local
  <2>2. \A d \in Coros : pc'[d] = pc[d] \/ (pc[d] \notin Holding /\ pc'[d] \notin Holding)
    BY <1>13 DEF MoveAway, GiveBack, ResumerShape, TypeOK
  <2> QED BY <2>1, <2>2, HoldersKept
<1>14. CASE UNCHANGED vars
  BY <1>14 DEF vars
<1> QED
  BY <1>1, <1>2, <1>3, <1>4, <1>5, <1>6, <1>7, <1>8, <1>9, <1>10, <1>11, <1>12, <1>13, <1>14
  DEF Next, Step

(* unlock() resumes a suspended coroutine, so nobody is below itself on a  *)
(* stack, and it returns to whoever called resume().                       *)
LEMMA ResumerShapeStep ==
  ASSUME TypeOK, ResumerShape, NoDangling, [Next]_vars
  PROVE  ResumerShape'
<1> USE MutexAssumption DEF ResumerShape, Node
<1>1. ASSUME NEW c \in Coros, TryLock(c) PROVE ResumerShape'
  BY <1>1 DEF TryLock, Goto, local, Holding
<1>2. ASSUME NEW c \in Coros, LockAsync(c) PROVE ResumerShape'
  BY <1>2 DEF LockAsync, Goto, local, Holding
<1>3. ASSUME NEW c \in Coros, AwaitLoad(c) PROVE ResumerShape'
  BY <1>3 DEF AwaitLoad, Goto, Holding
<1>4. ASSUME NEW c \in Coros, AwaitRetry(c) PROVE ResumerShape'
  BY <1>4 DEF AwaitRetry, Holding
<1>5. ASSUME NEW c \in Coros, AwaitAcquire(c) PROVE ResumerShape'
  BY <1>5 DEF AwaitAcquire, Goto, local, Holding
<1>6. ASSUME NEW c \in Coros, AwaitEnqueue(c) PROVE ResumerShape'
  BY <1>6 DEF AwaitEnqueue, GiveBack, local, TypeOK, Holding
<1>7. ASSUME NEW c \in Coros, Unlock(c) PROVE ResumerShape'
  BY <1>7 DEF Unlock, Goto, Holding
<1>8. ASSUME NEW c \in Coros, Free(c) PROVE ResumerShape'
  BY <1>8 DEF Free, Goto, local, Holding
<1>9. ASSUME NEW c \in Coros, Take(c) PROVE ResumerShape'
  BY <1>9 DEF Take, Goto, Holding
<1>10. ASSUME NEW c \in Coros, ReverseOne(c) PROVE ResumerShape'
  BY <1>10 DEF ReverseOne, Goto, Holding
<1>11. ASSUME NEW c \in Coros, HandOff(c) PROVE ResumerShape'
  BY <1>11 DEF HandOff, TypeOK, Holding, NoDangling, Suspended
<1>12. ASSUME NEW c \in Coros, Finish(c) PROVE ResumerShape'
  BY <1>12 DEF Finish, GiveBack, local, TypeOK, Holding
<1>13. ASSUME NEW c \in Coros, MoveAway(c) PROVE ResumerShape'
  BY <1>13 DEF MoveAway, GiveBack, local, TypeOK, Holding
<1>14. CASE UNCHANGED vars
  BY <1>14 DEF vars
<1> QED
  BY <1>1, <1>2, <1>3, <1>4, <1>5, <1>6, <1>7, <1>8, <1>9, <1>10, <1>11, <1>12, <1>13, <1>14
  DEF Next, Step

(* Only suspended operations are linked: the one resumed is unlinked.      *)
LEMMA NoDanglingStep ==
  ASSUME TypeOK, MutualExclusion, HolderShape, ResumerShape, NoDangling, NoSharing, [Next]_vars
  PROVE  NoDangling'
<1> USE MutexAssumption DEF NoDangling, Suspended, Node
<1>1. ASSUME NEW c \in Coros, TryLock(c) PROVE NoDangling'
  BY <1>1 DEF TryLock, Goto, local
<1>2. ASSUME NEW c \in Coros, LockAsync(c) PROVE NoDangling'
  BY <1>2 DEF LockAsync, Goto, local
<1>3. ASSUME NEW c \in Coros, AwaitLoad(c) PROVE NoDangling'
  BY <1>3 DEF AwaitLoad, Goto
<1>4. ASSUME NEW c \in Coros, AwaitRetry(c) PROVE NoDangling'
  BY <1>4 DEF AwaitRetry
<1>5. ASSUME NEW c \in Coros, AwaitAcquire(c) PROVE NoDangling'
  BY <1>5 DEF AwaitAcquire, Goto, local
<1>6. ASSUME NEW c \in Coros, AwaitEnqueue(c) PROVE NoDangling'
  BY <1>6 DEF AwaitEnqueue, GiveBack, local, TypeOK, Holding, ResumerShape
<1>7. ASSUME NEW c \in Coros, Unlock(c) PROVE NoDangling'
  BY <1>7 DEF Unlock, Goto
<1>8. ASSUME NEW c \in Coros, Free(c) PROVE NoDangling'
  BY <1>8 DEF Free, Goto, local
<1>9. ASSUME NEW c \in Coros, Take(c) PROVE NoDangling'
  BY <1>9 DEF Take, Goto, TypeOK, Holding, HolderShape, Holders
<1>10. ASSUME NEW c \in Coros, ReverseOne(c) PROVE NoDangling'
  BY <1>10 DEF ReverseOne, Goto, TypeOK, Holding, HolderShape, Holders
<1>11. ASSUME NEW c \in Coros, HandOff(c) PROVE NoDangling'
  BY <1>11 DEF HandOff, TypeOK, Holding, MutualExclusion, Holders, HolderShape, NoSharing
<1>12. ASSUME NEW c \in Coros, Finish(c) PROVE NoDangling'
  BY <1>12 DEF Finish, GiveBack, local, TypeOK, Holding, ResumerShape
<1>13. ASSUME NEW c \in Coros, MoveAway(c) PROVE NoDangling'
  BY <1>13 DEF MoveAway, GiveBack, local, TypeOK, Holding, ResumerShape
<1>14. CASE UNCHANGED vars
  BY <1>14 DEF vars
<1> QED
  BY <1>1, <1>2, <1>3, <1>4, <1>5, <1>6, <1>7, <1>8, <1>9, <1>10, <1>11, <1>12, <1>13, <1>14
  DEF Next, Step

(* An operation is on the stack, in the part already reversed, in the part *)
(* that is left or in m_waiters, in one place only.                        *)
LEMMA NoSharingStep ==
  ASSUME TypeOK, MutualExclusion, HolderShape, NoDangling, NoSharing, [Next]_vars
  PROVE  NoSharing'
<1> USE MutexAssumption DEF NoSharing, Suspended, Node
<1>1. ASSUME NEW c \in Coros, TryLock(c) PROVE NoSharing'
  BY <1>1 DEF TryLock, Goto, local
<1>2. ASSUME NEW c \in Coros, LockAsync(c) PROVE NoSharing'
  BY <1>2 DEF LockAsync, Goto, local
<1>3. ASSUME NEW c \in Coros, AwaitLoad(c) PROVE NoSharing'
  BY <1>3 DEF AwaitLoad, Goto
<1>4. ASSUME NEW c \in Coros, AwaitRetry(c) PROVE NoSharing'
  BY <1>4 DEF AwaitRetry
<1>5. ASSUME NEW c \in Coros, AwaitAcquire(c) PROVE NoSharing'
  BY <1>5 DEF AwaitAcquire, Goto, local
<1>6. ASSUME NEW c \in Coros, AwaitEnqueue(c) PROVE NoSharing'
  BY <1>6 DEF AwaitEnqueue, GiveBack, local, TypeOK, Holding, NoDangling
<1>7. ASSUME NEW c \in Coros, Unlock(c) PROVE NoSharing'
  BY <1>7 DEF Unlock, Goto, TypeOK, Holding, HolderShape, Holders
<1>8. ASSUME NEW c \in Coros, Free(c) PROVE NoSharing'
  BY <1>8 DEF Free, Goto, local, TypeOK, Holding
<1>9. ASSUME NEW c \in Coros, Take(c) PROVE NoSharing'
  BY <1>9 DEF Take, Goto, TypeOK, Holding
<1>10. ASSUME NEW c \in Coros, ReverseOne(c) PROVE NoSharing'
  BY <1>10 DEF ReverseOne, Goto, TypeOK, Holding, MutualExclusion, Holders, HolderShape, NoDangling
<1>11. ASSUME NEW c \in Coros, HandOff(c) PROVE NoSharing'
  BY <1>11 DEF HandOff, TypeOK, Holding, HolderShape, Holders, NoDangling
<1>12. ASSUME NEW c \in Coros, Finish(c) PROVE NoSharing'
  BY <1>12 DEF Finish, GiveBack, local
<1>13. ASSUME NEW c \in Coros, MoveAway(c) PROVE NoSharing'
  BY <1>13 DEF MoveAway, GiveBack, local
<1>14. CASE UNCHANGED vars
  BY <1>14 DEF vars
<1> QED
  BY <1>1, <1>2, <1>3, <1>4, <1>5, <1>6, <1>7, <1>8, <1>9, <1>10, <1>11, <1>12, <1>13, <1>14
  DEF Next, Step

(* No step of unlock() drops the only pointer to a waiting operation.      *)
LEMMA NoLostWaiterStep ==
  ASSUME TypeOK, HolderShape, ResumerShape, NoDangling, NoLostWaiter, [Next]_vars
  PROVE  NoLostWaiter'
<1>1. ASSUME NEW c \in Coros, TryLock(c) PROVE NoLostWaiter'
  BY MutexAssumption, <1>1 DEF TryLock, Goto, local, NoLostWaiter, Suspended, Holders, Holding, Node
<1>2. ASSUME NEW c \in Coros, LockAsync(c) PROVE NoLostWaiter'
  BY MutexAssumption, <1>2 DEF LockAsync, Goto, local, NoLostWaiter, Suspended, Holders, Holding, Node
<1>3. ASSUME NEW c \in Coros, AwaitLoad(c) PROVE NoLostWaiter'
  BY MutexAssumption, <1>3 DEF AwaitLoad, Goto, NoLostWaiter, Suspended, Holders, Holding, Node
<1>4. ASSUME NEW c \in Coros, AwaitRetry(c) PROVE NoLostWaiter'
  BY MutexAssumption, <1>4 DEF AwaitRetry, NoLostWaiter, Suspended, Holders, Holding, Node
<1>5. ASSUME NEW c \in Coros, AwaitAcquire(c) PROVE NoLostWaiter'
  BY MutexAssumption, <1>5 DEF AwaitAcquire, Goto, local, NoLostWaiter, Suspended, Holders, Holding, Node
<1>6. ASSUME NEW c \in Coros, AwaitEnqueue(c) PROVE NoLostWaiter'
  <2>1. /\ Suspended' = Suspended \cup {c}
        /\ Holders' = Holders
    BY <1>6, MutexAssumption DEF AwaitEnqueue, GiveBack, TypeOK, ResumerShape, Holding, Suspended, Holders
  <2>2. /\ m_state' = c
        /\ m_next' = [m_next EXCEPT ![c] = m_state]
        /\ m_waiters' = m_waiters /\ first' = first /\ rest' = rest
        /\ c \notin Suspended
    BY <1>6 DEF AwaitEnqueue, GiveBack, local, Suspended
  <2> QED BY <2>1, <2>2 DEF NoLostWaiter, TypeOK, Suspended
<1>7. ASSUME NEW c \in Coros, Unlock(c) PROVE NoLostWaiter'
  BY MutexAssumption, <1>7 DEF Unlock, Goto, TypeOK, HolderShape, NoLostWaiter, Suspended, Holders, Holding, Node
<1>8. ASSUME NEW c \in Coros, Free(c) PROVE NoLostWaiter'
  BY MutexAssumption, <1>8 DEF Free, Goto, local, TypeOK, HolderShape, NoLostWaiter, Suspended, Holders, Holding, Node
<1>9. ASSUME NEW c \in Coros, Take(c) PROVE NoLostWaiter'
  BY MutexAssumption, <1>9 DEF Take, Goto, TypeOK, HolderShape, NoLostWaiter, Suspended, Holders, Holding, Node
<1>10. ASSUME NEW c \in Coros, ReverseOne(c) PROVE NoLostWaiter'
  BY MutexAssumption, <1>10 DEF ReverseOne, Goto, TypeOK, HolderShape, NoDangling, NoLostWaiter, Suspended, Holders, Holding, Node
<1>11. ASSUME NEW c \in Coros, HandOff(c) PROVE NoLostWaiter'
  BY MutexAssumption, <1>11 DEF HandOff, TypeOK, HolderShape, NoLostWaiter, Suspended, Holders, Holding, Node
<1>12. ASSUME NEW c \in Coros, Finish(c) PROVE NoLostWaiter'
  <2>1. Suspended' = Suspended /\ Holders' = Holders
    BY <1>12, MutexAssumption DEF Finish, GiveBack, TypeOK, ResumerShape, Holding, Suspended, Holders
  <2> QED BY <1>12, <2>1 DEF Finish, local, NoLostWaiter
<1>13. ASSUME NEW c \in Coros, MoveAway(c) PROVE NoLostWaiter'
  <2>1. Suspended' = Suspended /\ Holders' = Holders
    BY <1>13, MutexAssumption DEF MoveAway, GiveBack, TypeOK, ResumerShape, Holding, Suspended, Holders
  <2> QED BY <1>13, <2>1 DEF MoveAway, local, NoLostWaiter
<1>14. CASE UNCHANGED vars
  BY <1>14 DEF vars, NoLostWaiter, Suspended, Holders, Holding, Node
<1> QED
  BY <1>1, <1>2, <1>3, <1>4, <1>5, <1>6, <1>7, <1>8, <1>9, <1>10, <1>11, <1>12, <1>13, <1>14
  DEF Next, Step

(* The invariant behind all results of this module.                        *)
THEOREM MutexInvariance == Spec => []IInv
<1>1. IInv /\ [Next]_vars => IInv'
  BY TypeOKStep, MutualExclusionStep, HolderShapeStep, ResumerShapeStep, NoDanglingStep,
     NoSharingStep, NoLostWaiterStep
  DEF IInv
<1> QED BY InitEstablishesIInv, <1>1, PTL DEF Spec

(* Type correctness of the mutex and of its lock operations.               *)
THEOREM MutexTypes == Spec => []TypeOK
<1>1. IInv => TypeOK BY DEF IInv
<1> QED BY MutexInvariance, <1>1, PTL

(* Two coroutines never own the mutex, in their critical sections or in    *)
(* unlock(); so the accesses to the plain field m_waiters do not race.     *)
THEOREM MutexExcludes == Spec => []MutualExclusion
<1>1. IInv => MutualExclusion BY DEF IInv
<1> QED BY MutexInvariance, <1>1, PTL

(* The assert()s of async_mutex hold, and unlock() resumes a coroutine     *)
(* that is suspended in co_await lock_async().                             *)
THEOREM MutexAssertions == Spec => []Assertions
<1>1. IInv => Assertions
  BY MutexAssumption
     DEF IInv, Assertions, TypeOK, HolderShape, NoDangling, Holders, Suspended, Holding, Node
<1> QED BY MutexInvariance, <1>1, PTL

(* Whoever waits is on the stack or on a list of the mutex.                *)
THEOREM MutexKeepsWaiters == Spec => []NoLostWaiter
<1>1. IInv => NoLostWaiter BY DEF IInv
<1> QED BY MutexInvariance, <1>1, PTL

-----------------------------------------------------------------------------
(* Intrusive lists: what Walk of module LinkedList finds, here for lock    *)
(* operations (the facts are those of SchedulerProofs for other nodes).    *)

(* A set of positions has a first one.                                     *)
LEMMA FirstPosition ==
  ASSUME NEW S \in SUBSET Nat, S # {}
  PROVE  \E i \in S : \A j \in S : i <= j
<1>1. PICK i \in S : \A j \in S : <<j, i>> \notin OpToRel(<, Nat)
  BY NatLessThanWellFounded, WFMin
<1>2. ASSUME NEW j \in S PROVE i <= j
  <2>1. <<j, i>> \notin OpToRel(<, Nat) BY <1>1
  <2>2. <<j, i>> \in Nat \X Nat BY <1>1
  <2>3. ~(j < i) BY <2>1, <2>2 DEF OpToRel
  <2> QED BY <2>3
<1> QED BY <1>2

(* The links from p on decide which list it is.                            *)
LEMMA OneListFrom ==
  ASSUME NEW C, Nil \notin C, NEW link, NEW p,
         NEW q \in Seq(C), NEW r \in Seq(C), Leads(q, p, link), Leads(r, p, link)
  PROVE  q = r
<1> DEFINE D == {i \in Nat : i # 0 /\ NodeAt(q, i) # NodeAt(r, i)}
<1>1. D = {}
  <2> SUFFICES ASSUME D # {} PROVE FALSE OBVIOUS
  <2>1. PICK i \in D : \A j \in D : i <= j
    <3> HIDE DEF D
    <3>1. D \in SUBSET Nat BY DEF D
    <3> QED BY <3>1, FirstPosition
  <2>2. i # 1 BY <2>1 DEF Leads
  <2>3. NodeAt(q, i - 1) = NodeAt(r, i - 1) BY <2>1, <2>2
  <2>4. CASE i - 1 \in 1..Len(q)
    <3>1. i - 1 \in 1..Len(r) /\ q[i - 1] = r[i - 1]
      BY <2>1, <2>3, <2>4 DEF NodeAt
    <3> QED BY <2>1, <2>4, <3>1 DEF Leads
  <2>5. CASE i - 1 \notin 1..Len(q)
    <3>1. i - 1 \notin 1..Len(r)
      BY <2>1, <2>3, <2>5 DEF NodeAt
    <3> QED BY <2>1, <2>2, <2>5, <3>1 DEF NodeAt
  <2> QED BY <2>4, <2>5
<1>2. \A i \in Nat \ {0} : NodeAt(q, i) = NodeAt(r, i) BY <1>1
<1>3. \A i \in 1..Len(q) : i \in 1..Len(r) /\ q[i] = r[i] BY <1>2 DEF NodeAt
<1>4. \A i \in 1..Len(r) : i \in 1..Len(q) BY <1>2 DEF NodeAt
<1>5. Len(q) = Len(r)
  <2>1. Len(q) \in Nat /\ Len(r) \in Nat OBVIOUS
  <2>2. Len(q) <= Len(r) BY <1>3, <2>1
  <2>3. Len(r) <= Len(q) BY <1>4, <2>1
  <2> QED BY <2>1, <2>2, <2>3
<1> QED BY <1>3, <1>5, SeqEqual

(* Where no two links meet, a list passes each node once, ...              *)
LEMMA ListPassesOnce ==
  ASSUME NEW C, Nil \notin C, NEW link, NEW p, NEW q \in Seq(C), Leads(q, p, link),
         \A c, d \in C : link[c] = link[d] /\ link[c] # Nil => c = d,
         \A c \in C : link[c] # Nil => link[c] # p
  PROVE  \A i, j \in 1..Len(q) : i < j => q[i] # q[j]
<1> DEFINE D == {i \in Nat : i \in 1..Len(q) /\ \E j \in 1..Len(q) : i < j /\ q[i] = q[j]}
<1> SUFFICES ASSUME D # {} PROVE FALSE OBVIOUS
<1>1. PICK i \in D : \A k \in D : i <= k
  <2> HIDE DEF D
  <2>1. D \in SUBSET Nat BY DEF D
  <2> QED BY <2>1, FirstPosition
<1>2. PICK j \in 1..Len(q) : i < j /\ q[i] = q[j] BY <1>1
<1>3. j - 1 \in 1..Len(q) /\ q[j - 1] \in C /\ link[q[j - 1]] = q[i] /\ q[i] # Nil
  BY <1>1, <1>2 DEF Leads, NodeAt
<1>4. CASE i = 1
  BY <1>1, <1>3, <1>4 DEF Leads, NodeAt
<1>5. CASE i # 1
  <2>1. i - 1 \in 1..Len(q) /\ q[i - 1] \in C /\ (i - 1) + 1 = i BY <1>1, <1>5
  <2>2. link[q[i - 1]] = q[i] BY <1>1, <2>1 DEF Leads, NodeAt
  <2>3. q[i - 1] = q[j - 1] BY <1>3, <2>1, <2>2
  <2>4. i - 1 \in D BY <1>1, <1>2, <1>3, <2>1, <2>3
  <2> QED BY <1>1, <2>4
<1> QED BY <1>4, <1>5

(* ... so it is no longer than there are nodes, and Walk finds it.         *)
LEMMA WalkFinds ==
  ASSUME NEW C \in SUBSET Coros, NEW link, NEW p, NEW q \in Seq(C), Leads(q, p, link),
         \A c, d \in C : link[c] = link[d] /\ link[c] # Nil => c = d,
         \A c \in C : link[c] # Nil => link[c] # p
  PROVE  Walk(p, link) = q
<1> DEFINE n == Cardinality(Coros)
<1>1. n \in Nat /\ Len(q) \in Nat BY MutexAssumption, FS_CardinalityType
<1>2. \A i, j \in 1..Len(q) : i < j => q[i] # q[j] BY ListPassesOnce, MutexAssumption
<1>3. q \in [1..Len(q) -> Coros] OBVIOUS
<1>4. Len(q) <= n
  <2> SUFFICES ASSUME n < Len(q) PROVE FALSE BY <1>1
  <2>1. IsFiniteSet(1..Len(q)) /\ Cardinality(1..Len(q)) = Len(q)
    <3>1. 1 \in Int /\ Len(q) \in Int /\ ~(1 > Len(q)) BY <1>1
    <3> QED BY <1>1, <3>1, FS_Interval
  <2>2. \E i, j \in 1..Len(q) : i # j /\ q[i] = q[j]
    BY <1>3, <2>1, FS_PigeonHole, MutexAssumption
  <2> QED BY <1>2, <2>2
<1>5. q \in BoundedSeq(Coros, n) BY <1>1, <1>3, <1>4 DEF BoundedSeq, SeqOf
<1>6. \A r \in BoundedSeq(Coros, n) : r \in Seq(Coros) BY <1>1 DEF BoundedSeq, SeqOf
<1>7. \A r \in BoundedSeq(Coros, n) : Leads(r, p, link) => r = q
  BY <1>6, OneListFrom, MutexAssumption
<1> QED BY <1>5, <1>7 DEF Walk

(* A list does not change with links that are not its own.                 *)
LEMMA LeadsStill ==
  ASSUME NEW C, NEW link, NEW link2, NEW p, NEW q \in Seq(C), Leads(q, p, link),
         \A c \in C : link2[c] = link[c]
  PROVE  Leads(q, p, link2)
BY DEF Leads

(* A node in front of a list.                                              *)
LEMMA LeadsPushed ==
  ASSUME NEW C, NEW link, NEW p, NEW q \in Seq(C), Leads(q, p, link), NEW c, link[c] = p
  PROVE  Leads(<<c>> \o q, c, link)
<1> DEFINE r == <<c>> \o q
<1>1. Len(q) \in Nat /\ Len(r) = Len(q) + 1 OBVIOUS
<1>2. r[1] = c /\ \A i \in 1..Len(q) : r[i + 1] = q[i] OBVIOUS
<1>3. c = NodeAt(r, 1) BY <1>1, <1>2 DEF NodeAt
<1>4. \A i \in Nat \ {0} : NodeAt(r, i + 1) = NodeAt(q, i) BY <1>1, <1>2 DEF NodeAt
<1>5. ASSUME NEW i \in 1..Len(r) PROVE link[r[i]] = NodeAt(r, i + 1)
  <2>1. CASE i = 1
    BY <1>2, <1>4, <2>1 DEF Leads
  <2>2. CASE i # 1
    <3>1. i - 1 \in 1..Len(q) /\ (i - 1) + 1 = i BY <1>1, <1>5, <2>2
    <3>2. r[i] = q[i - 1] BY <1>2, <3>1
    <3>3. link[q[i - 1]] = NodeAt(q, i) BY <3>1 DEF Leads
    <3>4. i \in Nat \ {0} BY <1>1, <1>5
    <3>5. NodeAt(r, i + 1) = NodeAt(q, i) BY <1>4, <3>4
    <3> QED BY <3>2, <3>3, <3>5
  <2> QED BY <2>1, <2>2
<1> HIDE DEF r
<1>6. Leads(r, c, link) BY <1>3, <1>5 DEF Leads
<1> QED BY <1>6 DEF r

(* A list without its first node.                                          *)
LEMMA LeadsTail ==
  ASSUME NEW C, NEW link, NEW p, p # Nil, NEW q \in Seq(C), Leads(q, p, link)
  PROVE  q # <<>> /\ Head(q) = p /\ Tail(q) \in Seq(C) /\ Leads(Tail(q), link[p], link)
<1>1. Len(q) \in Nat /\ Len(q) # 0 /\ q[1] = p BY DEF Leads, NodeAt
<1>2. q # <<>> /\ Tail(q) \in Seq(C) /\ Len(Tail(q)) = Len(q) - 1 BY <1>1
<1>3. \A i \in 1..(Len(q) - 1) : Tail(q)[i] = q[i + 1] BY <1>1, <1>2
<1>4. \A i \in Nat \ {0} : NodeAt(Tail(q), i) = NodeAt(q, i + 1) BY <1>1, <1>2, <1>3 DEF NodeAt
<1>5. link[p] = NodeAt(Tail(q), 1)
  <2>1. link[q[1]] = NodeAt(q, 1 + 1) BY <1>1 DEF Leads
  <2> QED BY <1>1, <1>4, <2>1
<1>6. ASSUME NEW i \in 1..Len(Tail(q)) PROVE link[Tail(q)[i]] = NodeAt(Tail(q), i + 1)
  <2>1. i + 1 \in 1..Len(q) /\ Tail(q)[i] = q[i + 1] BY <1>1, <1>2, <1>3, <1>6
  <2>2. link[q[i + 1]] = NodeAt(q, (i + 1) + 1) BY <2>1 DEF Leads
  <2>3. i + 1 \in Nat \ {0} BY <1>1, <1>2, <1>6
  <2> QED BY <1>4, <2>1, <2>2, <2>3
<1> QED BY <1>1, <1>2, <1>5, <1>6 DEF Leads

(* A node that nothing on the way leads to is not on the list.             *)
LEMMA LeadsPast ==
  ASSUME NEW C, NEW link, NEW p, NEW q \in Seq(C), Leads(q, p, link),
         NEW c, c # p, c # Nil, \A d \in C : link[d] # c
  PROVE  q \in Seq(C \ {c})
<1>1. \A i \in 1..Len(q) : q[i] # c
  <2> SUFFICES ASSUME NEW i \in 1..Len(q), q[i] = c PROVE FALSE OBVIOUS
  <2>1. i # 1 BY DEF Leads, NodeAt
  <2>2. i - 1 \in 1..Len(q) /\ (i - 1) + 1 = i BY <2>1
  <2>3. link[q[i - 1]] = q[i] BY <2>2 DEF Leads, NodeAt
  <2> QED BY <2>2, <2>3
<1>2. q \in [1..Len(q) -> C \ {c}] BY <1>1
<1> QED BY <1>2

(* Reversed in place: Reverse keeps the length and the elements.           *)
LEMMA ReverseType ==
  ASSUME NEW C, NEW q \in Seq(C)
  PROVE  /\ Reverse(q) \in Seq(C)
         /\ Len(Reverse(q)) = Len(q)
         /\ \A i \in 1..Len(q) : Reverse(q)[i] = q[(Len(q) - i) + 1]
<1>1. \A i \in 1..Len(q) : q[(Len(q) - i) + 1] \in C OBVIOUS
<1>2. Reverse(q) \in [1..Len(q) -> C] BY <1>1 DEF Reverse
<1>3. Reverse(q) \in Seq(C) /\ Len(Reverse(q)) = Len(q) BY <1>2
<1> QED BY <1>3 DEF Reverse

(* A push in front is an append at the back of the reversed list.          *)
LEMMA ReversePushed ==
  ASSUME NEW C, NEW q \in Seq(C), NEW c \in C
  PROVE  Reverse(<<c>> \o q) = Append(Reverse(q), c)
<1> DEFINE r == <<c>> \o q
           n == Len(q)
<1>1. n \in Nat /\ r \in Seq(C) /\ Len(r) = n + 1 OBVIOUS
<1>2. r[1] = c /\ \A i \in 1..n : r[i + 1] = q[i] OBVIOUS
<1>3. Reverse(q) \in Seq(C) /\ Len(Reverse(q)) = n /\ \A i \in 1..n : Reverse(q)[i] = q[(n - i) + 1]
  BY ReverseType
<1>4. Reverse(r) \in Seq(C) /\ Len(Reverse(r)) = n + 1
      /\ \A i \in 1..(n + 1) : Reverse(r)[i] = r[((n + 1) - i) + 1]
  <2> HIDE DEF r, n
  <2> QED BY <1>1, ReverseType
<1>5. Append(Reverse(q), c) \in Seq(C) /\ Len(Append(Reverse(q), c)) = n + 1 BY <1>3
<1>6. ASSUME NEW i \in 1..(n + 1) PROVE Reverse(r)[i] = Append(Reverse(q), c)[i]
  <2> HIDE DEF r, n
  <2>1. CASE i = n + 1
    <3>1. Append(Reverse(q), c)[i] = c BY <1>1, <1>3, <2>1
    <3>2. Reverse(r)[i] = r[1] BY <1>1, <1>4, <2>1
    <3> QED BY <1>2, <3>1, <3>2
  <2>2. CASE i # n + 1
    <3>1. i \in 1..n /\ (n - i) + 1 \in 1..n /\ ((n + 1) - i) + 1 = ((n - i) + 1) + 1
      BY <1>1, <1>6, <2>2
    <3>2. Append(Reverse(q), c)[i] = q[(n - i) + 1] BY <1>3, <3>1
    <3>3. Reverse(r)[i] = q[(n - i) + 1] BY <1>2, <1>4, <1>6, <3>1
    <3> QED BY <3>2, <3>3
  <2> QED BY <2>1, <2>2
<1> HIDE DEF r, n
<1>7. Reverse(r) = Append(Reverse(q), c) BY <1>4, <1>5, <1>6, SeqEqual
<1> QED BY <1>7 DEF r

(* One turn of the reversal: the first node goes in front of the rest.     *)
LEMMA ReverseMoved ==
  ASSUME NEW C, NEW q \in Seq(C), NEW r \in Seq(C), q # <<>>
  PROVE  Reverse(q) \o r = Reverse(Tail(q)) \o (<<Head(q)>> \o r)
<1> DEFINE c == Head(q)
           u == Tail(q)
           a == Reverse(u)
<1>1. c \in C /\ u \in Seq(C) /\ q = <<c>> \o u
  <2>1. c \in C /\ u \in Seq(C) /\ Len(u) = Len(q) - 1 /\ Len(q) \in Nat \ {0} OBVIOUS
  <2>2. Len(<<c>> \o u) = Len(q) BY <2>1
  <2>3. <<c>> \o u \in Seq(C) BY <2>1
  <2>4. \A i \in 1..Len(q) : (<<c>> \o u)[i] = q[i] BY <2>1
  <2> HIDE DEF c, u
  <2> QED BY <2>1, <2>2, <2>3, <2>4, SeqEqual
<1> HIDE DEF c, u
<1>2. a \in Seq(C) BY <1>1, ReverseType
<1>3. Reverse(q) = Append(a, c) BY <1>1, ReversePushed
<1> HIDE DEF a
<1> DEFINE x == Append(a, c) \o r
           y == a \o (<<c>> \o r)
<1>4. Len(a) \in Nat /\ Len(r) \in Nat BY <1>2
<1>5. x \in Seq(C) BY <1>1, <1>2
<1>6. y \in Seq(C) BY <1>1, <1>2
<1>7. Len(x) = Len(a) + 1 + Len(r) BY <1>1, <1>2
<1>8. Len(y) = Len(a) + 1 + Len(r) BY <1>1, <1>2
<1>9. ASSUME NEW i \in 1..Len(x) PROVE x[i] = y[i]
  <2>1. CASE i <= Len(a)
    <3>1. x[i] = a[i] BY <1>1, <1>2, <1>4, <1>7, <1>9, <2>1
    <3>2. y[i] = a[i] BY <1>1, <1>2, <1>4, <1>7, <1>9, <2>1
    <3> QED BY <3>1, <3>2
  <2>2. CASE i = Len(a) + 1
    <3>1. x[i] = c BY <1>1, <1>2, <1>4, <1>7, <1>9, <2>2
    <3>2. y[i] = (<<c>> \o r)[1] BY <1>1, <1>2, <1>4, <1>7, <1>9, <2>2
    <3> QED BY <1>1, <3>1, <3>2
  <2>3. CASE i > Len(a) + 1
    <3>1. x[i] = r[i - (Len(a) + 1)] BY <1>1, <1>2, <1>4, <1>7, <1>9, <2>3
    <3>2. y[i] = (<<c>> \o r)[i - Len(a)] BY <1>1, <1>2, <1>4, <1>7, <1>9, <2>3
    <3>3. (<<c>> \o r)[i - Len(a)] = r[(i - Len(a)) - 1] BY <1>1, <1>2, <1>4, <1>7, <1>9, <2>3
    <3>4. (i - Len(a)) - 1 = i - (Len(a) + 1) BY <1>4, <1>7, <1>9
    <3> QED BY <3>1, <3>2, <3>3, <3>4
  <2> QED BY <1>4, <1>7, <1>9, <2>1, <2>2, <2>3
<1> HIDE DEF x, y
<1>10. x = y BY <1>5, <1>6, <1>7, <1>8, <1>9, SeqEqual
<1> QED BY <1>3, <1>10 DEF x, y, c, u, a

(* Reversing at most one node changes nothing.                             *)
LEMMA ReverseShort ==
  ASSUME NEW C, NEW q \in Seq(C), Len(q) <= 1
  PROVE  Reverse(q) = q
<1>1. Reverse(q) \in Seq(C) /\ Len(Reverse(q)) = Len(q) /\ \A i \in 1..Len(q) : Reverse(q)[i] = q[(Len(q) - i) + 1]
  BY ReverseType
<1>2. \A i \in 1..Len(q) : (Len(q) - i) + 1 = i OBVIOUS
<1>3. \A i \in 1..Len(q) : Reverse(q)[i] = q[i] BY <1>1, <1>2
<1> QED BY <1>1, <1>3, SeqEqual

(* Appending to the second of two lists appends to both together.          *)
LEMMA AppendBehind ==
  ASSUME NEW C, NEW a \in Seq(C), NEW b \in Seq(C), NEW c \in C
  PROVE  a \o Append(b, c) = Append(a \o b, c)
<1> DEFINE x == a \o Append(b, c)
           y == Append(a \o b, c)
<1>1. Len(a) \in Nat /\ Len(b) \in Nat OBVIOUS
<1>2. x \in Seq(C) /\ Len(x) = Len(a) + (Len(b) + 1) OBVIOUS
<1>3. y \in Seq(C) /\ Len(y) = (Len(a) + Len(b)) + 1 OBVIOUS
<1>4. ASSUME NEW i \in 1..Len(x) PROVE x[i] = y[i]
  <2>1. CASE i <= Len(a) BY <1>1, <1>2, <1>4, <2>1
  <2>2. CASE i > Len(a) /\ i <= Len(a) + Len(b)
    <3>1. x[i] = b[i - Len(a)] BY <1>1, <1>2, <1>4, <2>2
    <3>2. y[i] = b[i - Len(a)] BY <1>1, <1>2, <1>4, <2>2
    <3> QED BY <3>1, <3>2
  <2>3. CASE i = (Len(a) + Len(b)) + 1
    <3>1. x[i] = c BY <1>1, <1>2, <1>4, <2>3
    <3>2. y[i] = c BY <1>1, <1>2, <1>4, <2>3
    <3> QED BY <3>1, <3>2
  <2> QED BY <1>1, <1>2, <1>4, <2>1, <2>2, <2>3
<1> HIDE DEF x, y
<1>5. x = y BY <1>1, <1>2, <1>3, <1>4, SeqEqual
<1> QED BY <1>5 DEF x, y

(* What follows the first element follows it in a longer list, too.        *)
LEMMA TailOfBoth ==
  ASSUME NEW C, NEW a \in Seq(C), NEW b \in Seq(C), a # <<>>
  PROVE  Tail(a) \o b = Tail(a \o b)
<1> DEFINE x == Tail(a) \o b
           y == Tail(a \o b)
<1>1. Len(a) \in Nat \ {0} /\ Len(b) \in Nat OBVIOUS
<1>2. Tail(a) \in Seq(C) /\ Len(Tail(a)) = Len(a) - 1 /\ \A i \in 1..(Len(a) - 1) : Tail(a)[i] = a[i + 1]
  BY <1>1
<1>3. x \in Seq(C) /\ Len(x) = (Len(a) - 1) + Len(b) BY <1>1, <1>2
<1>4. a \o b \in Seq(C) /\ a \o b # <<>> /\ Len(a \o b) = Len(a) + Len(b) BY <1>1
<1>5. y \in Seq(C) /\ Len(y) = (Len(a) + Len(b)) - 1 /\ \A i \in 1..Len(y) : y[i] = (a \o b)[i + 1]
  <2> HIDE DEF x
  <2> DEFINE w == a \o b
  <2>1. w \in Seq(C) /\ w # <<>> /\ Len(w) = Len(a) + Len(b) BY <1>4
  <2> HIDE DEF w
  <2>2. Tail(w) \in Seq(C) /\ Len(Tail(w)) = Len(w) - 1 /\ \A i \in 1..Len(Tail(w)) : Tail(w)[i] = w[i + 1]
    BY <2>1
  <2> QED BY <2>1, <2>2 DEF w
<1>6. ASSUME NEW i \in 1..Len(x) PROVE x[i] = y[i]
  <2> HIDE DEF y
  <2>1. CASE i <= Len(a) - 1
    <3>1. x[i] = a[i + 1] BY <1>1, <1>2, <1>3, <1>6, <2>1
    <3>2. (a \o b)[i + 1] = a[i + 1] BY <1>1, <1>6, <2>1
    <3> QED BY <1>1, <1>3, <1>5, <1>6, <3>1, <3>2
  <2>2. CASE i > Len(a) - 1
    <3>1. x[i] = b[i - (Len(a) - 1)] BY <1>1, <1>2, <1>3, <1>6, <2>2
    <3>2. (a \o b)[i + 1] = b[(i + 1) - Len(a)] BY <1>1, <1>3, <1>6, <2>2
    <3>3. (i + 1) - Len(a) = i - (Len(a) - 1) BY <1>1, <1>3, <1>6
    <3> QED BY <1>1, <1>3, <1>5, <1>6, <3>1, <3>2, <3>3
  <2> QED BY <1>1, <1>3, <1>6, <2>1, <2>2
<1> HIDE DEF x, y
<1>7. x = y BY <1>1, <1>3, <1>5, <1>6, SeqEqual
<1> QED BY <1>7 DEF x, y

-----------------------------------------------------------------------------
(* Where a list of waiting lock operations starts.                         *)
Pointers == {Stack, m_waiters} \cup {first[c] : c \in Coros} \cup {rest[c] : c \in Coros}

(* Every list ends, and holds suspended coroutines only.                   *)
ListsEnd == \A p \in Pointers :
  Walk(p, m_next) \in Seq(Suspended) /\ Leads(Walk(p, m_next), p, m_next)

(* Nobody waits for a fresh mutex.                                         *)
LEMMA InitListsEnd == Init => ListsEnd
<1> SUFFICES ASSUME Init, NEW p \in Pointers
             PROVE  Walk(p, m_next) \in Seq(Suspended) /\ Leads(Walk(p, m_next), p, m_next)
  BY DEF ListsEnd
<1>1. p = Nil /\ <<>> \in Seq(Suspended) BY DEF Init, Pointers, Stack
<1>2. Leads(<<>>, p, m_next) BY <1>1 DEF Leads, NodeAt
<1>3. \A c \in Suspended : m_next[c] = Nil BY DEF Init, Suspended
<1>4. Walk(p, m_next) = <<>>
  <2>1. Suspended \in SUBSET Coros BY DEF Suspended
  <2> QED BY <1>1, <1>2, <1>3, <2>1, WalkFinds, Zenon
<1> QED BY <1>1, <1>2, <1>4

(* NoSharing is what Walk needs to find a list of suspended coroutines.    *)
LEMMA SuspendedWalk ==
  ASSUME NoDangling, NoSharing, NEW p \in Pointers, NEW q \in Seq(Suspended), Leads(q, p, m_next)
  PROVE  Walk(p, m_next) = q
<1>1. Suspended \in SUBSET Coros BY DEF Suspended
<1>2. \A c, d \in Suspended : m_next[c] = m_next[d] /\ m_next[c] # Nil => c = d BY DEF NoSharing
<1>3. \A c \in Suspended : m_next[c] # Nil => m_next[c] # p
  BY DEF NoSharing, NoDangling, Pointers, Stack
<1> QED BY <1>1, <1>2, <1>3, WalkFinds

(* The same after a step.                                                  *)
LEMMA SuspendedWalkNext ==
  ASSUME NoDangling', NoSharing', NEW p \in Pointers', NEW q \in Seq(Suspended'), Leads(q, p, m_next')
  PROVE  Walk(p, m_next') = q
<1>1. Suspended' \in SUBSET Coros BY DEF Suspended
<1>2. \A c, d \in Suspended' : m_next'[c] = m_next'[d] /\ m_next'[c] # Nil => c = d BY DEF NoSharing
<1>3. \A c \in Suspended' : m_next'[c] # Nil => m_next'[c] # p
  BY DEF NoSharing, NoDangling, Pointers, Stack
<1> QED BY <1>1, <1>2, <1>3, WalkFinds

(* A list is the same after a step that leaves its links alone.            *)
LEMMA WalkStays ==
  ASSUME ListsEnd, NoDangling', NoSharing', NEW p \in Pointers, p \in Pointers',
         NEW C \in SUBSET Suspended', Walk(p, m_next) \in Seq(C), \A c \in C : m_next'[c] = m_next[c]
  PROVE  /\ Walk(p, m_next') = Walk(p, m_next)
         /\ Walk(p, m_next') \in Seq(Suspended') /\ Leads(Walk(p, m_next'), p, m_next')
<1> DEFINE q == Walk(p, m_next)
<1>1. Leads(q, p, m_next) BY DEF ListsEnd
<1> HIDE DEF q
<1>2. q \in Seq(C) BY DEF q
<1>3. Leads(q, p, m_next') BY <1>1, <1>2, LeadsStill
<1>4. q \in Seq(Suspended') BY <1>2
<1>5. Walk(p, m_next') = q BY <1>3, <1>4, SuspendedWalkNext
<1> QED BY <1>3, <1>4, <1>5 DEF q

(* An empty list, and the first node of one that is not empty.             *)
LEMMA EmptyWalk ==
  ASSUME NoDangling, NoSharing, Nil \in Pointers
  PROVE  Walk(Nil, m_next) = <<>>
<1>1. Leads(<<>>, Nil, m_next) BY DEF Leads, NodeAt
<1>2. <<>> \in Seq(Suspended) OBVIOUS
<1> QED BY <1>1, <1>2, SuspendedWalk

LEMMA FirstOfWalk ==
  ASSUME ListsEnd, NEW p \in Pointers, p # Nil
  PROVE  LET q == Walk(p, m_next)
         IN  /\ q # <<>> /\ Head(q) = p /\ Tail(q) \in Seq(Suspended)
             /\ Leads(Tail(q), m_next[p], m_next)
<1>1. Walk(p, m_next) \in Seq(Suspended) /\ Leads(Walk(p, m_next), p, m_next) BY DEF ListsEnd
<1> QED BY <1>1, LeadsTail

(* A list that does not start at c and that no link connects to c passes c.*)
LEMMA WalkAvoids ==
  ASSUME ListsEnd, NEW p \in Pointers, NEW c, c # p, c # Nil, \A d \in Suspended : m_next[d] # c
  PROVE  Walk(p, m_next) \in Seq(Suspended \ {c})
<1>1. Walk(p, m_next) \in Seq(Suspended) /\ Leads(Walk(p, m_next), p, m_next) BY DEF ListsEnd
<1> QED BY <1>1, LeadsPast

(* Steps that move pointers but change no link keep all lists.             *)
LEMMA ListsStay ==
  ASSUME NoDangling', NoSharing', ListsEnd, UNCHANGED m_next, Suspended' = Suspended,
         Pointers' \subseteq Pointers
  PROVE  ListsEnd'
<1>1. ASSUME NEW p \in Pointers'
      PROVE  Walk(p, m_next') \in Seq(Suspended') /\ Leads(Walk(p, m_next'), p, m_next')
  <2>1. p \in Pointers BY <1>1
  <2>2. Walk(p, m_next) \in Seq(Suspended') BY <2>1 DEF ListsEnd
  <2> QED BY <1>1, <2>1, <2>2, WalkStays
<1> QED BY <1>1 DEF ListsEnd

(* The holder is the owner.                                                *)
LEMMA HolderOwns ==
  ASSUME MutualExclusion, NEW c \in Holders
  PROVE  Owner = c
BY DEF MutualExclusion, Owner

LEMMA HolderOwnsNext ==
  ASSUME MutualExclusion', NEW c \in Holders'
  PROVE  Owner' = c
BY DEF MutualExclusion, Owner

(* An owner that does not reverse has nothing in rest, and only one that   *)
(* hands the mutex on has something in first.                              *)
LEMMA TakenIs ==
  ASSUME MutualExclusion, NEW c \in Holders, c # Nil
  PROVE  /\ pc[c] = "handoff" => Taken = Walk(first[c], m_next)
         /\ pc[c] = "reverse" => Taken = Reverse(Walk(rest[c], m_next)) \o Walk(first[c], m_next)
         /\ pc[c] \notin {"handoff", "reverse"} => Taken = Walk(m_waiters, m_next)
<1>1. Owner = c /\ c # Nil BY HolderOwns
<1> QED BY <1>1 DEF Taken

LEMMA TakenIsNext ==
  ASSUME MutualExclusion', NEW c \in Holders', c # Nil
  PROVE  /\ pc'[c] = "handoff" => Taken' = Walk(first'[c], m_next')
         /\ pc'[c] = "reverse" => Taken' = Reverse(Walk(rest'[c], m_next')) \o Walk(first'[c], m_next')
         /\ pc'[c] \notin {"handoff", "reverse"} => Taken' = Walk(m_waiters', m_next')
<1>1. Owner' = c /\ c # Nil BY HolderOwnsNext
<1> QED BY <1>1 DEF Taken

(* All who wait are suspended.                                             *)
LEMMA WaitersSuspended ==
  ASSUME IInv, ListsEnd
  PROVE  Taken \in Seq(Suspended) /\ Reverse(Walk(Stack, m_next)) \in Seq(Suspended)
<1>1. Walk(Stack, m_next) \in Seq(Suspended) BY DEF ListsEnd, Pointers
<1>2. Taken \in Seq(Suspended)
  <2>1. CASE Holders = {}
    <3>1. Owner = Nil BY <2>1 DEF Owner
    <3> QED BY <3>1 DEF Taken
  <2>2. CASE Holders # {}
    <3>1. PICK c \in Holders : TRUE BY <2>2
    <3>2. c \in Coros /\ c # Nil BY MutexAssumption DEF Holders
    <3>3. {first[c], rest[c], m_waiters} \subseteq Pointers BY <3>2 DEF Pointers
    <3>4. /\ Walk(first[c], m_next) \in Seq(Suspended)
          /\ Walk(rest[c], m_next) \in Seq(Suspended)
          /\ Walk(m_waiters, m_next) \in Seq(Suspended)
      BY <3>3 DEF ListsEnd
    <3>5. Reverse(Walk(rest[c], m_next)) \in Seq(Suspended) BY <3>4, ReverseType
    <3>6. Reverse(Walk(rest[c], m_next)) \o Walk(first[c], m_next) \in Seq(Suspended)
      BY <3>4, <3>5
    <3> QED BY <3>2, <3>4, <3>6, TakenIs DEF IInv
  <2> QED BY <2>1, <2>2
<1> QED BY <1>1, <1>2, ReverseType

(* The mutex is locked when it was not: nobody waits.                      *)
LEMMA AcquireRefines ==
  ASSUME IInv, IInv', ListsEnd, NEW c \in Coros, TryLock(c) \/ AwaitAcquire(c)
  PROVE  ListsEnd' /\ Lock!Acquire(c)
<1>0. /\ m_state = NotLocked /\ m_state' = Nil /\ m_waiters = Nil
      /\ pc[c] \in {"idle", "cas"} /\ pc' = [pc EXCEPT ![c] = "owner"]
      /\ m_waiters' = m_waiters /\ m_next' = m_next /\ first' = first /\ rest' = rest
      /\ Holders = {} /\ c # Nil
      /\ TypeOK /\ NoDangling /\ NoSharing /\ NoDangling' /\ NoSharing' /\ MutualExclusion'
  BY MutexAssumption DEF IInv, HolderShape, TryLock, AwaitAcquire, Goto, local
<1>1. Suspended' = Suspended /\ c \in Holders' BY <1>0 DEF Suspended, Holders, Holding, TypeOK
<1>2. Stack = Nil /\ Stack' = Nil BY <1>0, MutexAssumption DEF Stack
<1>3. Pointers' \subseteq Pointers /\ Nil \in Pointers BY <1>0, <1>2 DEF Pointers
<1>4. ListsEnd' BY <1>0, <1>1, <1>3, ListsStay
<1>5. Walk(Nil, m_next) = <<>> BY <1>0, <1>3, EmptyWalk
<1>6. Owner = Nil /\ Owner' = c BY <1>0, <1>1, HolderOwnsNext DEF Owner
<1>7. Taken = <<>> BY <1>6 DEF Taken
<1>8. Taken' = <<>>
  <2>1. pc'[c] = "owner" BY <1>0 DEF TypeOK
  <2> QED BY <1>0, <1>1, <1>5, <2>1, TakenIsNext
<1>9. Waiting' = Waiting BY <1>0, <1>2, <1>7, <1>8 DEF Waiting
<1> QED BY <1>4, <1>6, <1>9 DEF Lock!Acquire

(* A push on the stack is an append to the queue of those who wait.        *)
LEMMA EnqueueRefines ==
  ASSUME IInv, IInv', ListsEnd, NEW c \in Coros, AwaitEnqueue(c)
  PROVE  ListsEnd' /\ Lock!Enqueue(c)
<1> DEFINE q == Walk(Stack, m_next)
<1>0. /\ m_state # NotLocked /\ m_state' = c /\ m_state \in Node
      /\ m_next' = [m_next EXCEPT ![c] = m_state]
      /\ pc[c] = "cas"
      /\ pc' = [d \in Coros |-> IF d = c THEN "suspended" ELSE IF d = resumer[c] THEN "idle" ELSE pc[d]]
      /\ m_waiters' = m_waiters /\ first' = first /\ rest' = rest
      /\ Holders # {} /\ c # Nil /\ c # NotLocked
      /\ (resumer[c] # Nil => pc[resumer[c]] = "nested")
      /\ TypeOK /\ NoDangling /\ NoSharing /\ NoDangling' /\ NoSharing' /\ MutualExclusion /\ MutualExclusion'
  BY MutexAssumption DEF IInv, HolderShape, ResumerShape, AwaitEnqueue, GiveBack, local, TypeOK
<1>1. Suspended' = Suspended \cup {c} /\ c \notin Suspended
  BY <1>0, MutexAssumption DEF Suspended, TypeOK, Node
<1>2. PICK h \in Holders : TRUE BY <1>0
<1>3. h \in Holders' /\ h # c /\ h # Nil /\ pc'[h] = pc[h] /\ h \in Coros
  BY <1>0, <1>2, MutexAssumption DEF Holders, Holding, TypeOK, Node
<1>4. Owner = h /\ Owner' = h BY <1>0, <1>2, <1>3, HolderOwns, HolderOwnsNext
<1>5. Stack = m_state /\ Stack' = c BY <1>0 DEF Stack
<1>6. Stack \in Pointers /\ c \in Pointers' BY <1>5 DEF Pointers
<1>7. m_next'[c] = Stack /\ \A d \in Suspended : m_next'[d] = m_next[d]
  BY <1>0, <1>1, <1>5 DEF TypeOK, Suspended
<1>8. q \in Seq(Suspended) /\ Leads(q, Stack, m_next) BY <1>6 DEF ListsEnd
<1> HIDE DEF q
<1>9. Walk(c, m_next') = <<c>> \o q /\ <<c>> \o q \in Seq(Suspended') /\ Leads(<<c>> \o q, c, m_next')
  <2>1. Leads(q, Stack, m_next') BY <1>7, <1>8, LeadsStill
  <2>2. Leads(<<c>> \o q, c, m_next') BY <1>7, <1>8, <2>1, LeadsPushed
  <2>3. <<c>> \o q \in Seq(Suspended') BY <1>1, <1>8
  <2> QED BY <1>0, <1>6, <2>2, <2>3, SuspendedWalkNext
<1>10. ASSUME NEW p \in Pointers, p \in Pointers'
       PROVE  /\ Walk(p, m_next') = Walk(p, m_next)
              /\ Walk(p, m_next') \in Seq(Suspended') /\ Leads(Walk(p, m_next'), p, m_next')
  <2>1. Walk(p, m_next) \in Seq(Suspended) BY <1>10 DEF ListsEnd
  <2>2. Suspended \in SUBSET Suspended' BY <1>1
  <2> QED BY <1>0, <1>7, <1>10, <2>1, <2>2, WalkStays
<1>11. ListsEnd'
  <2>1. \A p \in Pointers' : p = c \/ p \in Pointers BY <1>0, <1>5 DEF Pointers
  <2> QED BY <1>9, <1>10, <2>1 DEF ListsEnd
<1>12. Taken' = Taken
  <2>1. {first[h], rest[h], m_waiters} \subseteq Pointers /\ {first[h], rest[h], m_waiters} \subseteq Pointers'
    BY <1>0, <1>3 DEF Pointers
  <2>2. /\ Walk(first[h], m_next') = Walk(first[h], m_next)
        /\ Walk(rest[h], m_next') = Walk(rest[h], m_next)
        /\ Walk(m_waiters, m_next') = Walk(m_waiters, m_next)
    BY <1>10, <2>1
  <2> QED BY <1>0, <1>3, <1>4, <2>2 DEF Taken
<1>13. Taken \in Seq(Suspended) /\ Reverse(q) \in Seq(Suspended) BY WaitersSuspended DEF q
<1>14. Waiting' = Append(Waiting, c)
  <2>1. Reverse(<<c>> \o q) = Append(Reverse(q), c)
    <3>1. q \in Seq(Suspended') /\ c \in Suspended' BY <1>1, <1>8
    <3> QED BY <3>1, ReversePushed
  <2>2. Waiting' = Taken \o Append(Reverse(q), c) BY <1>5, <1>9, <1>12, <2>1 DEF Waiting
  <2>3. Waiting = Taken \o Reverse(q) BY DEF Waiting, q
  <2>4. Taken \in Seq(Suspended') /\ Reverse(q) \in Seq(Suspended') /\ c \in Suspended' BY <1>1, <1>13
  <2> QED BY <2>2, <2>3, <2>4, AppendBehind
<1>15. ~Lock!Waits(c)
  <2>1. Waiting \in Seq(Suspended) BY <1>13 DEF Waiting, q
  <2> QED BY <1>1, <2>1 DEF Lock!Waits
<1> QED BY <1>3, <1>4, <1>11, <1>14, <1>15 DEF Lock!Enqueue

(* unlock() looks for waiters: m_waiters, or nothing.                      *)
LEMMA UnlockRefines ==
  ASSUME IInv, IInv', ListsEnd, NEW c \in Coros, Unlock(c)
  PROVE  ListsEnd' /\ UNCHANGED Lock!vars
<1>0. /\ pc[c] = "owner"
      /\ pc' = [pc EXCEPT ![c] = IF m_waiters = Nil THEN "free" ELSE "handoff"]
      /\ first' = [first EXCEPT ![c] = m_waiters]
      /\ m_state' = m_state /\ m_waiters' = m_waiters /\ m_next' = m_next /\ rest' = rest
      /\ c # Nil
      /\ TypeOK /\ NoDangling' /\ NoSharing' /\ MutualExclusion /\ MutualExclusion'
  BY MutexAssumption DEF IInv, Unlock, Goto
<1>1. Suspended' = Suspended /\ c \in Holders /\ c \in Holders'
  BY <1>0 DEF Suspended, Holders, Holding, TypeOK
<1>2. Stack' = Stack BY <1>0 DEF Stack
<1>3. Pointers' \subseteq Pointers BY <1>0, <1>2 DEF Pointers, TypeOK
<1>4. ListsEnd' BY <1>0, <1>1, <1>3, ListsStay
<1>5. Owner' = Owner BY <1>0, <1>1, HolderOwns, HolderOwnsNext
<1>6. Taken' = Taken
  <2>1. Taken = Walk(m_waiters, m_next) BY <1>0, <1>1, TakenIs
  <2>2. first'[c] = m_waiters /\ pc'[c] \in {"free", "handoff"} BY <1>0 DEF TypeOK
  <2> QED BY <1>0, <1>1, <2>1, <2>2, TakenIsNext
<1>7. Waiting' = Waiting BY <1>0, <1>2, <1>6 DEF Waiting
<1> QED BY <1>4, <1>5, <1>7 DEF Lock!vars

(* unlock() frees the mutex when nobody waits, or else goes for the stack. *)
LEMMA FreeRefines ==
  ASSUME IInv, IInv', ListsEnd, NEW c \in Coros, Free(c)
  PROVE  ListsEnd' /\ [Lock!Release]_(Lock!vars)
<1>0. /\ pc[c] = "free" /\ m_waiters = Nil
      /\ pc' = [pc EXCEPT ![c] = IF m_state = Nil THEN "idle" ELSE "take"]
      /\ m_state' = IF m_state = Nil THEN NotLocked ELSE m_state
      /\ m_waiters' = m_waiters /\ m_next' = m_next /\ first' = first /\ rest' = rest
      /\ c # Nil
      /\ TypeOK /\ NoDangling /\ NoSharing /\ NoDangling' /\ NoSharing' /\ MutualExclusion /\ MutualExclusion'
  BY MutexAssumption DEF IInv, HolderShape, Free, Goto, local
<1>1. Suspended' = Suspended /\ c \in Holders BY <1>0 DEF Suspended, Holders, Holding, TypeOK
<1>2. Stack' = Stack /\ (m_state = Nil => Stack = Nil) BY <1>0, MutexAssumption DEF Stack
<1>3. Pointers' \subseteq Pointers /\ Nil \in Pointers BY <1>0, <1>2 DEF Pointers
<1>4. ListsEnd' BY <1>0, <1>1, <1>3, ListsStay
<1>5. Owner = c /\ Taken = <<>>
  <2>1. Walk(Nil, m_next) = <<>> BY <1>0, <1>3, EmptyWalk
  <2> QED BY <1>0, <1>1, <2>1, HolderOwns, TakenIs
<1>6. CASE m_state = Nil
  <2>1. Holders' = {}
    <3>1. \A d \in Holders : d = c BY <1>0, <1>1 DEF MutualExclusion
    <3> QED BY <1>0, <1>6, <3>1 DEF Holders, Holding, TypeOK
  <2>2. Owner' = Nil /\ Taken' = <<>> BY <2>1 DEF Owner, Taken
  <2>3. Walk(Stack, m_next) = <<>> BY <1>0, <1>2, <1>3, <1>6, EmptyWalk
  <2>4. Waiting = <<>>
    <3>1. Reverse(<<>>) = <<>> /\ <<>> \o <<>> = <<>> BY DEF Reverse
    <3> QED BY <1>5, <2>3, <3>1 DEF Waiting
  <2>5. Waiting' = Waiting BY <1>0, <1>2, <1>5, <2>2 DEF Waiting
  <2> QED BY <1>0, <1>4, <1>5, <2>2, <2>4, <2>5 DEF Lock!Release
<1>7. CASE m_state # Nil
  <2>1. c \in Holders' /\ pc'[c] = "take" BY <1>0, <1>7 DEF Holders, Holding, TypeOK
  <2>2. Owner' = c BY <1>0, <2>1, HolderOwnsNext
  <2>3. Taken' = <<>>
    <3>1. Walk(Nil, m_next) = <<>> BY <1>0, <1>3, EmptyWalk
    <3> QED BY <1>0, <2>1, <3>1, TakenIsNext
  <2>4. Waiting' = Waiting BY <1>0, <1>2, <1>5, <2>3 DEF Waiting
  <2> QED BY <1>4, <1>5, <2>2, <2>4 DEF Lock!vars
<1> QED BY <1>6, <1>7

(* The stack moves into unlock() as a whole.                               *)
LEMMA TakeRefines ==
  ASSUME IInv, IInv', ListsEnd, NEW c \in Coros, Take(c)
  PROVE  ListsEnd' /\ UNCHANGED Lock!vars
<1>0. /\ pc[c] = "take" /\ m_waiters = Nil /\ first[c] = Nil /\ rest[c] = Nil
      /\ m_state # NotLocked
      /\ pc' = [pc EXCEPT ![c] = "reverse"]
      /\ rest' = [rest EXCEPT ![c] = m_state]
      /\ m_state' = Nil
      /\ m_waiters' = m_waiters /\ m_next' = m_next /\ first' = first
      /\ c # Nil
      /\ TypeOK /\ NoDangling /\ NoSharing /\ NoDangling' /\ NoSharing' /\ MutualExclusion /\ MutualExclusion'
  BY MutexAssumption DEF IInv, HolderShape, Holders, Holding, Take, Goto, TypeOK
<1>1. Suspended' = Suspended /\ c \in Holders /\ c \in Holders'
  BY <1>0 DEF Suspended, Holders, Holding, TypeOK
<1>2. Stack = m_state /\ Stack' = Nil BY <1>0, MutexAssumption DEF Stack
<1>3. Pointers' \subseteq Pointers /\ Nil \in Pointers BY <1>0, <1>2 DEF Pointers, TypeOK
<1>4. ListsEnd' BY <1>0, <1>1, <1>3, ListsStay
<1>5. Walk(Nil, m_next) = <<>> BY <1>0, <1>3, EmptyWalk
<1>6. Owner' = Owner BY <1>0, <1>1, HolderOwns, HolderOwnsNext
<1>7. Taken = <<>> BY <1>0, <1>1, <1>5, TakenIs
<1>8. Taken' = Reverse(Walk(Stack, m_next)) \o <<>>
  <2>1. rest'[c] = Stack /\ pc'[c] = "reverse" BY <1>0, <1>2 DEF TypeOK
  <2> QED BY <1>0, <1>1, <1>5, <2>1, TakenIsNext
<1>9. Waiting' = Waiting
  <2>1. Reverse(Walk(Stack, m_next)) \in Seq(Suspended) BY WaitersSuspended
  <2>2. Reverse(<<>>) = <<>> BY DEF Reverse
  <2> QED BY <1>0, <1>2, <1>5, <1>7, <1>8, <2>1, <2>2 DEF Waiting
<1> QED BY <1>4, <1>6, <1>9 DEF Lock!vars

(* The reversal moves an operation from one list of unlock() to the other. *)
LEMMA ReverseOneRefines ==
  ASSUME IInv, IInv', ListsEnd, NEW c \in Coros, ReverseOne(c)
  PROVE  ListsEnd' /\ UNCHANGED Lock!vars
<1> DEFINE n == rest[c]
           f == first[c]
           q == Walk(n, m_next)
           r == Walk(f, m_next)
<1>0. /\ pc[c] = "reverse" /\ n \in Suspended /\ n # Nil /\ m_waiters = Nil
      /\ pc' = [pc EXCEPT ![c] = IF m_next[n] = Nil THEN "handoff" ELSE "reverse"]
      /\ rest' = [rest EXCEPT ![c] = m_next[n]]
      /\ m_next' = [m_next EXCEPT ![n] = f]
      /\ first' = [first EXCEPT ![c] = n]
      /\ m_state' = m_state /\ m_waiters' = m_waiters
      /\ c # Nil
      /\ TypeOK /\ NoDangling /\ NoSharing /\ NoDangling' /\ NoSharing' /\ MutualExclusion /\ MutualExclusion'
  BY MutexAssumption DEF IInv, HolderShape, NoDangling, ReverseOne, Goto
<1>1. Suspended' = Suspended /\ c \in Holders /\ c \in Holders'
  BY <1>0 DEF Suspended, Holders, Holding, TypeOK
<1>2. Stack' = Stack BY <1>0 DEF Stack
<1>3. /\ n \in Pointers /\ f \in Pointers /\ m_next[n] \in Pointers' /\ n \in Pointers'
      /\ rest'[c] = m_next[n] /\ first'[c] = n /\ m_next'[n] = f
      /\ \A d \in Suspended \ {n} : m_next'[d] = m_next[d]
  BY <1>0 DEF Pointers, TypeOK, Suspended
<1>4. \A d \in Coros : d # c => first[d] = Nil /\ rest[d] = Nil
  <2>1. \A d \in Coros : d # c => d \notin Holders BY <1>1 DEF MutualExclusion, IInv
  <2> QED BY <2>1 DEF IInv, HolderShape, Holders, Holding
<1>5. /\ \A d \in Suspended : m_next[d] # n
      /\ Stack # n /\ m_waiters # n /\ f # n
  BY <1>0 DEF NoSharing, Suspended, Stack
<1> HIDE DEF n, f
<1>6. /\ q \in Seq(Suspended) /\ q # <<>> /\ Head(q) = n
      /\ Tail(q) \in Seq(Suspended) /\ Leads(Tail(q), m_next[n], m_next)
  BY <1>0, <1>3, FirstOfWalk DEF ListsEnd
<1>7. r \in Seq(Suspended \ {n}) /\ Leads(r, f, m_next)
  BY <1>0, <1>3, <1>5, WalkAvoids DEF ListsEnd
<1> HIDE DEF q, r
<1>8. Walk(m_next[n], m_next') = Tail(q) /\ Tail(q) \in Seq(Suspended') /\ Leads(Tail(q), m_next[n], m_next')
  <2>1. Tail(q) \in Seq(Suspended \ {n}) BY <1>0, <1>5, <1>6, LeadsPast
  <2>2. Leads(Tail(q), m_next[n], m_next') BY <1>3, <1>6, <2>1, LeadsStill
  <2>3. Tail(q) \in Seq(Suspended') BY <1>1, <1>6
  <2> QED BY <1>0, <1>3, <2>2, <2>3, SuspendedWalkNext
<1>9. Walk(n, m_next') = <<n>> \o r /\ <<n>> \o r \in Seq(Suspended') /\ Leads(<<n>> \o r, n, m_next')
  <2>1. Leads(r, f, m_next') BY <1>3, <1>7, LeadsStill
  <2>2. Leads(<<n>> \o r, n, m_next') BY <1>3, <1>7, <2>1, LeadsPushed
  <2>3. <<n>> \o r \in Seq(Suspended') BY <1>0, <1>1, <1>7
  <2> QED BY <1>0, <1>3, <2>2, <2>3, SuspendedWalkNext
<1>10. ASSUME NEW p \in Pointers, p \in Pointers', p # n
       PROVE  /\ Walk(p, m_next') = Walk(p, m_next)
              /\ Walk(p, m_next') \in Seq(Suspended') /\ Leads(Walk(p, m_next'), p, m_next')
  <2>1. Walk(p, m_next) \in Seq(Suspended \ {n}) BY <1>0, <1>5, <1>10, WalkAvoids
  <2>2. Suspended \ {n} \in SUBSET Suspended' BY <1>1
  <2> QED BY <1>0, <1>3, <1>10, <2>1, <2>2, WalkStays
<1>11. ListsEnd'
  <2>1. ASSUME NEW p \in Pointers' PROVE p \in {n, m_next[n]} \/ (p \in Pointers /\ p # n)
    <3>1. Nil \in Pointers /\ Nil # n BY <1>0 DEF Pointers
    <3>2. ASSUME NEW d \in Coros, d # c PROVE first'[d] = Nil /\ rest'[d] = Nil
      BY <1>0, <1>4, <3>2 DEF TypeOK
    <3>3. p \in {Stack, m_waiters} \/ \E d \in Coros : p \in {first'[d], rest'[d]}
      BY <1>0, <1>2, <2>1 DEF Pointers
    <3>4. CASE p \in {Stack, m_waiters} BY <1>5, <3>4 DEF Pointers
    <3>5. ASSUME NEW d \in Coros, p \in {first'[d], rest'[d]}
          PROVE  p \in {n, m_next[n]} \/ (p \in Pointers /\ p # n)
      BY <1>3, <3>1, <3>2, <3>5
    <3> QED BY <3>3, <3>4, <3>5
  <2> QED BY <1>8, <1>9, <1>10, <2>1 DEF ListsEnd
<1>12. Owner' = Owner BY <1>0, <1>1, HolderOwns, HolderOwnsNext
<1>13. Taken = Reverse(q) \o r BY <1>0, <1>1, TakenIs DEF q, r, n, f
<1>14. Reverse(q) \o r = Reverse(Tail(q)) \o (<<n>> \o r)
  <2>1. r \in Seq(Suspended) BY <1>7
  <2> QED BY <1>6, <2>1, ReverseMoved
<1>15. Taken' = Taken
  <2>1. CASE m_next[n] = Nil
    <3>1. Nil \in Pointers' BY <1>3, <2>1
    <3>2. Leads(<<>>, Nil, m_next') /\ <<>> \in Seq(Suspended') BY DEF Leads, NodeAt
    <3>3. Tail(q) = <<>> BY <1>0, <1>8, <2>1, <3>1, <3>2, SuspendedWalkNext
    <3>4. Reverse(<<>>) = <<>> BY DEF Reverse
    <3>5. <<>> \o (<<n>> \o r) = <<n>> \o r BY <1>9
    <3>6. pc'[c] = "handoff" BY <1>0, <2>1 DEF TypeOK
    <3> QED BY <1>0, <1>1, <1>3, <1>9, <1>13, <1>14, <3>3, <3>4, <3>5, <3>6, TakenIsNext
  <2>2. CASE m_next[n] # Nil
    <3>1. pc'[c] = "reverse" BY <1>0, <2>2 DEF TypeOK
    <3> QED BY <1>0, <1>1, <1>3, <1>8, <1>9, <1>13, <1>14, <3>1, TakenIsNext
  <2> QED BY <2>1, <2>2
<1>16. Walk(Stack, m_next') = Walk(Stack, m_next)
  <2>1. Stack \in Pointers /\ Stack \in Pointers' BY <1>2 DEF Pointers
  <2> QED BY <1>5, <1>10, <2>1
<1>17. Waiting' = Waiting BY <1>2, <1>15, <1>16 DEF Waiting
<1> QED BY <1>11, <1>12, <1>17 DEF Lock!vars

(* unlock() resumes the one that waited longest as the next owner.         *)
LEMMA HandOffRefines ==
  ASSUME IInv, IInv', ListsEnd, NEW c \in Coros, HandOff(c)
  PROVE  ListsEnd' /\ Lock!HandOff
<1> DEFINE f == first[c]
           q == Walk(f, m_next)
           z == Reverse(Walk(Stack, m_next))
<1>0. /\ pc[c] = "handoff" /\ f \in Suspended /\ f # Nil /\ f # c
      /\ m_waiters' = m_next[f]
      /\ pc' = [pc EXCEPT ![c] = "nested", ![f] = "owner"]
      /\ first' = [first EXCEPT ![c] = Nil]
      /\ m_state' = m_state /\ m_next' = m_next /\ rest' = rest
      /\ c # Nil
      /\ TypeOK /\ NoDangling /\ NoSharing /\ NoDangling' /\ NoSharing' /\ MutualExclusion /\ MutualExclusion'
  BY MutexAssumption DEF IInv, HolderShape, NoDangling, HandOff, Suspended
<1>1. Suspended' = Suspended \ {f} /\ c \in Holders /\ f \in Holders' /\ pc'[f] = "owner"
  BY <1>0 DEF Suspended, Holders, Holding, TypeOK
<1>2. Stack' = Stack BY <1>0 DEF Stack
<1>3. f \in Pointers /\ m_next[f] \in Pointers' BY <1>0 DEF Pointers
<1>4. rest[c] = Nil /\ \A d \in Coros : d # c => first[d] = Nil /\ rest[d] = Nil
  <2>1. \A d \in Coros : d # c => d \notin Holders BY <1>1 DEF MutualExclusion, IInv
  <2> QED BY <1>0, <2>1 DEF IInv, HolderShape, Holders, Holding
<1>5. (\A d \in Suspended : m_next[d] # f) /\ Stack # f
  BY <1>0 DEF NoSharing, Suspended, Stack
<1> HIDE DEF f
<1>6. /\ q \in Seq(Suspended) /\ q # <<>> /\ Head(q) = f
      /\ Tail(q) \in Seq(Suspended) /\ Leads(Tail(q), m_next[f], m_next)
  BY <1>0, <1>3, FirstOfWalk DEF ListsEnd
<1> HIDE DEF q
<1>7. Walk(m_next[f], m_next') = Tail(q) /\ Tail(q) \in Seq(Suspended') /\ Leads(Tail(q), m_next[f], m_next')
  <2>1. Tail(q) \in Seq(Suspended \ {f}) BY <1>0, <1>5, <1>6, LeadsPast
  <2>2. Tail(q) \in Seq(Suspended') /\ Leads(Tail(q), m_next[f], m_next') BY <1>0, <1>1, <1>6, <2>1
  <2> QED BY <1>0, <1>3, <2>2, SuspendedWalkNext
<1>8. ASSUME NEW p \in Pointers, p \in Pointers', p # f
      PROVE  /\ Walk(p, m_next') = Walk(p, m_next)
             /\ Walk(p, m_next') \in Seq(Suspended') /\ Leads(Walk(p, m_next'), p, m_next')
  <2>1. Walk(p, m_next) \in Seq(Suspended') BY <1>0, <1>1, <1>5, <1>8, WalkAvoids
  <2> QED BY <1>0, <1>8, <2>1, WalkStays
<1>9. ListsEnd'
  <2>1. ASSUME NEW p \in Pointers' PROVE p = m_next[f] \/ (p \in Pointers /\ p # f)
    <3>1. Nil \in Pointers /\ Nil # f BY <1>0, <1>4 DEF Pointers
    <3>2. \A d \in Coros : first'[d] = Nil /\ rest'[d] = Nil BY <1>0, <1>4 DEF TypeOK
    <3>3. p \in {Stack, m_next[f]} \/ \E d \in Coros : p \in {first'[d], rest'[d]}
      BY <1>0, <1>2, <2>1 DEF Pointers
    <3>4. CASE p \in {Stack, m_next[f]} BY <1>5, <3>4 DEF Pointers
    <3> QED BY <3>1, <3>2, <3>3, <3>4
  <2> QED BY <1>7, <1>8, <2>1 DEF ListsEnd
<1>10. Owner = c /\ Taken = q BY <1>0, <1>1, HolderOwns, TakenIs DEF q, f
<1>11. Owner' = f /\ Taken' = Tail(q) BY <1>0, <1>1, <1>7, HolderOwnsNext, TakenIsNext
<1>12. Walk(Stack, m_next') = Walk(Stack, m_next) BY <1>0
<1>13. z \in Seq(Suspended) BY WaitersSuspended
<1>14. Waiting = q \o z /\ Waiting' = Tail(q) \o z BY <1>2, <1>10, <1>11, <1>12 DEF Waiting
<1> HIDE DEF z
<1>15. q \o z # <<>> /\ Head(q \o z) = Head(q) BY <1>6, <1>13
<1>16. Tail(q) \o z = Tail(q \o z) BY <1>6, <1>13, TailOfBoth
<1> QED BY <1>0, <1>6, <1>9, <1>10, <1>11, <1>14, <1>15, <1>16 DEF Lock!HandOff

(* All other steps are of coroutines that neither own the mutex nor wait.  *)
LEMMA ElsewhereSame ==
  ASSUME IInv, NoDangling', NoSharing', ListsEnd, UNCHANGED <<m_state, m_waiters, m_next, first, rest>>,
         \A d \in Coros : \/ pc'[d] = pc[d]
                          \/ {pc[d], pc'[d]} \cap (Holding \cup {"suspended"}) = {}
  PROVE  ListsEnd' /\ UNCHANGED Lock!vars
<1>1. Suspended' = Suspended BY DEF Suspended
<1>2. Holders' = Holders BY DEF Holders
<1>3. Stack' = Stack BY DEF Stack
<1>4. Pointers' = Pointers BY <1>3 DEF Pointers
<1>5. ListsEnd' BY <1>1, <1>4, ListsStay
<1>6. Owner' = Owner BY <1>2 DEF Owner
<1>7. Taken' = Taken
  <2>1. CASE Owner = Nil BY <1>6, <2>1 DEF Taken
  <2>2. CASE Owner # Nil
    <3>1. Owner \in Holders BY <2>2 DEF Owner
    <3>2. pc'[Owner] = pc[Owner] BY <3>1 DEF Holders
    <3> QED BY <1>6, <3>2 DEF Taken
  <2> QED BY <2>1, <2>2
<1>8. Waiting' = Waiting BY <1>3, <1>7 DEF Waiting
<1> QED BY <1>5, <1>6, <1>8 DEF Lock!vars

(* Every step is a step of the FIFO lock, or none.                         *)
LEMMA StepRefines ==
  ASSUME IInv, IInv', ListsEnd, [Next]_vars
  PROVE  ListsEnd' /\ [Lock!Next]_(Lock!vars)
<1>0. TypeOK /\ ResumerShape /\ NoDangling' /\ NoSharing' BY DEF IInv
<1>1. ASSUME NEW c \in Coros, TryLock(c) \/ AwaitAcquire(c) PROVE ListsEnd' /\ Lock!Acquire(c)
  BY <1>1, AcquireRefines
<1>2. ASSUME NEW c \in Coros, LockAsync(c) \/ AwaitLoad(c) \/ AwaitRetry(c)
      PROVE  ListsEnd' /\ UNCHANGED Lock!vars
  <2>1. UNCHANGED <<m_state, m_waiters, m_next, first, rest>>
    BY <1>2 DEF LockAsync, AwaitLoad, AwaitRetry, local
  <2>2. \A d \in Coros : \/ pc'[d] = pc[d]
                         \/ {pc[d], pc'[d]} \cap (Holding \cup {"suspended"}) = {}
    BY <1>0, <1>2 DEF LockAsync, AwaitLoad, AwaitRetry, Goto, Holding, TypeOK
  <2> QED BY <1>0, <2>1, <2>2, ElsewhereSame
<1>3. ASSUME NEW c \in Coros, AwaitEnqueue(c) PROVE ListsEnd' /\ Lock!Enqueue(c)
  BY <1>3, EnqueueRefines
<1>4. ASSUME NEW c \in Coros, Unlock(c) PROVE ListsEnd' /\ UNCHANGED Lock!vars
  BY <1>4, UnlockRefines
<1>5. ASSUME NEW c \in Coros, Free(c) PROVE ListsEnd' /\ [Lock!Release]_(Lock!vars)
  BY <1>5, FreeRefines
<1>6. ASSUME NEW c \in Coros, Take(c) PROVE ListsEnd' /\ UNCHANGED Lock!vars
  BY <1>6, TakeRefines
<1>7. ASSUME NEW c \in Coros, ReverseOne(c) PROVE ListsEnd' /\ UNCHANGED Lock!vars
  BY <1>7, ReverseOneRefines
<1>8. ASSUME NEW c \in Coros, HandOff(c) PROVE ListsEnd' /\ Lock!HandOff
  BY <1>8, HandOffRefines
<1>9. ASSUME NEW c \in Coros, Finish(c) \/ MoveAway(c) PROVE ListsEnd' /\ UNCHANGED Lock!vars
  <2>1. UNCHANGED <<m_state, m_waiters, m_next, first, rest>>
    BY <1>9 DEF Finish, MoveAway, local
  <2>2. \A d \in Coros : \/ pc'[d] = pc[d]
                         \/ {pc[d], pc'[d]} \cap (Holding \cup {"suspended"}) = {}
    BY <1>0, <1>9, MutexAssumption DEF Finish, MoveAway, GiveBack, Holding, TypeOK, ResumerShape, Node
  <2> QED BY <1>0, <2>1, <2>2, ElsewhereSame
<1>10. CASE UNCHANGED vars
  BY <1>0, <1>10, ElsewhereSame DEF vars, local
<1> QED
  BY <1>1, <1>2, <1>3, <1>4, <1>5, <1>6, <1>7, <1>8, <1>9, <1>10 DEF Next, Step, Lock!Next

(* Nobody owns a fresh mutex and nobody waits for it.                      *)
LEMMA InitRefines == Init => Lock!Init
<1> SUFFICES ASSUME Init PROVE Lock!Init OBVIOUS
<1>0. ListsEnd /\ NoDangling /\ NoSharing BY InitListsEnd, InitEstablishesIInv DEF IInv
<1>1. Holders = {} BY DEF Init, Holders, Holding
<1>2. Owner = Nil /\ Taken = <<>> BY <1>1 DEF Owner, Taken
<1>3. Stack = Nil /\ Nil \in Pointers BY DEF Init, Stack, Pointers
<1>4. Walk(Stack, m_next) = <<>> BY <1>0, <1>3, EmptyWalk
<1>5. Reverse(<<>>) = <<>> /\ <<>> \o <<>> = <<>> BY DEF Reverse
<1> QED BY <1>2, <1>4, <1>5 DEF Lock!Init, Waiting

(* async_mutex is a FIFO lock: lock_async() of a locked mutex appends, and *)
(* unlock() hands the mutex to the one that has waited longest.            *)
THEOREM MutexImplementsFifoLock == Spec => FifoLockSpec
<1>1. Init => ListsEnd /\ Lock!Init
  BY InitListsEnd, InitRefines
<1>2. IInv /\ IInv' /\ ListsEnd /\ [Next]_vars => ListsEnd' /\ [Lock!Next]_(Lock!vars)
  BY StepRefines
<1> QED BY MutexInvariance, <1>1, <1>2, PTL DEF Spec, FifoLockSpec, Lock!Spec

=============================================================================
