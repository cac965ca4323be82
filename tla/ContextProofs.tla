--------------------------- MODULE ContextProofs ---------------------------
(***************************************************************************)
(* A context is a scheduler, whatever its condition variable does, so the  *)
(* results of SchedulerProofs hold for it; and run() keeps its lock        *)
(* discipline for any number of contexts and worker threads.               *)
(***************************************************************************)
EXTENDS Context, SchedulerProofs

(* Every step of run(), post() or stop() is a step of the run queue or     *)
(* leaves the queue alone.                                                 *)
LEMMA ContextStepSimulates == [ContextNext]_allVars => [Next]_schedulerVars
<1> SUFFICES ASSUME ContextNext PROVE [Next]_schedulerVars
  BY DEF allVars, schedulerVars
<1> USE ContextAssumption DEF Next, Work
<1>1. PICK t \in Threads :
        \/ Run(t) \/ EnterLock(t) \/ Lock(t) \/ RunLoop(t) \/ SpuriousWake(t)
        \/ \E c \in Coros : LaunchTask(t, c)
        \/ Coroutine(t) \/ Post(t) \/ Notify(t)
        \/ \E s \in Schedulers, b \in StopArgs : Stop(t, s, b)
  BY DEF ContextNext
<1>2. CASE Run(t)
  BY <1>2 DEF Run
<1>3. CASE EnterLock(t) \/ Lock(t) \/ SpuriousWake(t) \/ Notify(t)
  BY <1>3 DEF EnterLock, Lock, SpuriousWake, Notify
<1>4. CASE RunLoop(t)
  BY <1>4 DEF RunLoop, TakeBatch, FoundNothing, ReverseBatch, Unlock, CheckStop, PredStop, Block, Drain
<1>5. CASE \E c \in Coros : LaunchTask(t, c)
  BY <1>5 DEF LaunchTask
<1>6. CASE Coroutine(t)
  BY <1>6 DEF Coroutine
<1>7. CASE Post(t)
  BY <1>7 DEF Post
<1>8. CASE \E s \in Schedulers, b \in StopArgs : Stop(t, s, b)
  BY <1>8 DEF Stop
<1> QED BY <1>1, <1>2, <1>3, <1>4, <1>5, <1>6, <1>7, <1>8

(* ice::context implements the run queue it derives from.                  *)
THEOREM ContextImplementsScheduler == ContextSpec => Spec
<1>1. ContextInit => Init BY DEF ContextInit
<1> QED BY <1>1, ContextStepSimulates, PTL DEF ContextSpec, Spec

(* tests/context.cpp, for any number of contexts and threads: after        *)
(* co_await c.schedule() a coroutine is on a thread inside c.run().        *)
THEOREM ContextRunsOnTarget == ContextSpec => []RunsOnTarget
BY ContextImplementsScheduler, ResumedOnTarget, PTL

-----------------------------------------------------------------------------
(* index[t] is set exactly while t is inside run().                        *)
IndexSet == \A t \in Threads : index[t] = Nil <=> loc[t] \in Outside

LockInv == ContextTypeOK /\ IndexSet /\ MutexHeld

(* Nothing is locked and nobody is in run() at the start.                  *)
LEMMA InitEstablishesLockInv == ContextInit => LockInv
BY SchedulerAssumption, ContextAssumption
   DEF ContextInit, Init, LockInv, ContextTypeOK, TypeOK, Node, Locations, Outside, IndexSet, MutexHeld

(* The scheduler steps that neither enter nor leave run() keep index.      *)
LEMMA WorkKeepsIndex ==
  ASSUME NEW t \in Threads,
         Await(t) \/ Finish(t) \/ Acquire(t) \/ Work(t) \/ \E c \in Coros : Launch(t, c)
  PROVE  index' = index
BY DEF Await, AwaitReady, AwaitSuspend, Finish, Acquire, Work, PostLoad, PostRetry, PostPublish,
       ReverseOne, Reversed, Resume, Return, Launch, threads

(* The mutex is taken by whoever waited for it, given back before a batch  *)
(* is resumed, before the sleep and before run() returns.  (TypeOK' comes  *)
(* from the run queue.)                                                    *)
LEMMA LockStep ==
  ASSUME LockInv, TypeOK', [ContextNext]_allVars
  PROVE  LockInv'
<1> USE SchedulerAssumption, ContextAssumption
    DEF LockInv, ContextTypeOK, IndexSet, MutexHeld, Locations, Outside
<1>1. ASSUME NEW t \in Threads, Run(t) PROVE LockInv'
  BY <1>1 DEF Run, Enter, TypeOK
<1>2. ASSUME NEW t \in Threads, EnterLock(t) PROVE LockInv'
  BY <1>2 DEF EnterLock, Goto, schedulerVars
<1>3. ASSUME NEW t \in Threads, Lock(t) PROVE LockInv'
  BY <1>3, SMTT(30) DEF Lock, Goto, schedulerVars, TypeOK
<1>4. ASSUME NEW t \in Threads, TakeBatch(t) PROVE LockInv'
  BY <1>4, WorkKeepsIndex DEF TakeBatch, contextVars
<1>5. ASSUME NEW t \in Threads, FoundNothing(t) PROVE LockInv'
  BY <1>5 DEF FoundNothing, Goto, schedulerVars
<1>6. ASSUME NEW t \in Threads, ReverseBatch(t) PROVE LockInv'
  BY <1>6, WorkKeepsIndex DEF ReverseBatch, Work, contextVars
<1>7. ASSUME NEW t \in Threads, Unlock(t) PROVE LockInv'
  BY <1>7 DEF Unlock, Goto, schedulerVars, TypeOK
<1>8. ASSUME NEW t \in Threads, CheckStop(t) PROVE LockInv'
  <2>1. CASE UNCHANGED schedulerVars
    BY <1>8, <2>1 DEF CheckStop, Goto, Leave, schedulerVars, TypeOK
  <2>2. CASE Leave(t)
    <3>1. /\ loc[t] = "check" /\ loc' = [loc EXCEPT ![t] = "left"]
          /\ mutex' = [mutex EXCEPT ![index[t]] = Nil]
          /\ index' = [index EXCEPT ![t] = Nil]
          /\ UNCHANGED <<stop, wake, stops>>
      BY <1>8, <2>2 DEF CheckStop, Goto, Leave, schedulerVars, TypeOK
    <3>2. index[t] \in Schedulers /\ mutex[index[t]] = t
      BY <3>1, SMTT(30) DEF TypeOK
    <3>3. ContextTypeOK' /\ IndexSet'
      BY <3>1, <3>2 DEF TypeOK
    <3>4. MutexHeld'
      BY <3>1, <3>2 DEF TypeOK
    <3> QED BY <3>3, <3>4
  <2> QED BY <1>8, <2>1, <2>2 DEF CheckStop
<1>9. ASSUME NEW t \in Threads, PredStop(t) PROVE LockInv'
  BY <1>9 DEF PredStop, Goto, schedulerVars
<1>10. ASSUME NEW t \in Threads, Block(t) PROVE LockInv'
  BY <1>10 DEF Block, Goto, schedulerVars, TypeOK
<1>11. ASSUME NEW t \in Threads, SpuriousWake(t) PROVE LockInv'
  BY <1>11 DEF SpuriousWake, Goto, schedulerVars
<1>12. ASSUME NEW t \in Threads, Drain(t) PROVE LockInv'
  BY <1>12, WorkKeepsIndex DEF Drain, Work
<1>13. ASSUME NEW t \in Threads, NEW c \in Coros, LaunchTask(t, c) PROVE LockInv'
  BY <1>13, WorkKeepsIndex DEF LaunchTask, contextVars
<1>14. ASSUME NEW t \in Threads, Coroutine(t) PROVE LockInv'
  BY <1>14, WorkKeepsIndex DEF Coroutine, Work, contextVars
<1>15. ASSUME NEW t \in Threads, Post(t) PROVE LockInv'
  <2>1. target[cur[t]] \in Schedulers
    BY <1>15 DEF Post, PostPublish, TypeOK
  <2> QED BY <1>15, <2>1, WorkKeepsIndex DEF Post, Work
<1>16. ASSUME NEW t \in Threads, NEW s \in Schedulers, NEW b \in StopArgs, Stop(t, s, b)
       PROVE  LockInv'
  BY <1>16 DEF Stop, schedulerVars
<1>17. ASSUME NEW t \in Threads, Notify(t) PROVE LockInv'
  BY <1>17 DEF Notify, Sleepers, schedulerVars
<1>18. CASE UNCHANGED allVars
  BY <1>18 DEF allVars, schedulerVars, contextVars
<1> QED
  BY <1>1, <1>2, <1>3, <1>4, <1>5, <1>6, <1>7, <1>8, <1>9, <1>10, <1>11, <1>12, <1>13, <1>14,
     <1>15, <1>16, <1>17, <1>18
  DEF ContextNext, RunLoop

(* The types of a context, and its lock discipline.                        *)
THEOREM ContextInvariance == ContextSpec => []LockInv
<1>1. ContextSpec => []TypeOK
  BY ContextImplementsScheduler, SchedulerTypes
<1>2. LockInv /\ TypeOK' /\ [ContextNext]_allVars => LockInv'
  BY LockStep
<1> QED BY <1>1, <1>2, InitEstablishesLockInv, PTL DEF ContextSpec

(* Type correctness of a context, its queue included.                      *)
THEOREM ContextTypes == ContextSpec => []ContextTypeOK
<1>1. LockInv => ContextTypeOK BY DEF LockInv
<1> QED BY ContextInvariance, <1>1, PTL

(* The queue and stop_ are read under the mutex, nobody resumes or sleeps  *)
(* with it, and run() does not keep it when it returns.                    *)
THEOREM ContextLockDiscipline == ContextSpec => []MutexHeld
<1>1. LockInv => MutexHeld BY DEF LockInv
<1> QED BY ContextInvariance, <1>1, PTL

(* With any number of workers, stop() and lost notifications, a context    *)
(* takes and resumes coroutines in the order in which they were posted.    *)
THEOREM ContextImplementsRunQueue == ContextSpec => RunQueueSpec
BY ContextImplementsScheduler, SchedulerImplementsRunQueue, PTL

=============================================================================
