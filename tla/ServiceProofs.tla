--------------------------- MODULE ServiceProofs ---------------------------
(***************************************************************************)
(* A service is a scheduler, whatever epoll delivers and when, so the      *)
(* results of SchedulerProofs hold for it; and the pointers the kernel     *)
(* keeps and hands out lead to events that wait.                           *)
(***************************************************************************)
EXTENDS Service, SchedulerProofs

\* index[t] is set while t is inside run(), so entries come from its service,
\* and a batch is finished before the next one.
LoopShape == \A t \in Threads :
  /\ loc[t] \notin Outside => index[t] # Nil
  /\ loc[t] \notin {"batch", "interrupted"} => todo[t] = {}

EventInv == IInv /\ ServiceTypeOK /\ LoopShape /\ EventsWaiting

(* Nobody waits, nothing is delivered and nobody is in run() at the start. *)
LEMMA InitEstablishesEventInv == ServiceInit => EventInv
<1> SUFFICES ASSUME ServiceInit PROVE EventInv
  OBVIOUS
<1>1. Init /\ IInv
  BY InitEstablishesIInv DEF ServiceInit
<1>2. ServiceTypeOK /\ LoopShape
  BY <1>1, SchedulerAssumption, ServiceAssumption
     DEF ServiceInit, ServiceTypeOK, LoopShape, IInv, Outside, Node
<1>3. EventsWaiting
  BY <1>1 DEF ServiceInit, Init, EventsWaiting
<1> QED BY <1>1, <1>2, <1>3 DEF EventInv

(* Every step of run(), post(), stop() or of an event is a step of the run *)
(* queue or leaves the queue alone.                                        *)
LEMMA ServiceStepSimulates ==
  ASSUME EventInv, [ServiceNext]_allVars
  PROVE  [Next]_schedulerVars
<1> USE ServiceAssumption DEF Next, Work
<1>1. ASSUME NEW t \in Threads, Run(t) PROVE Next
  BY <1>1, SchedulerAssumption DEF Run, Outside
<1>2. ASSUME NEW t \in Threads, RunLoop(t) PROVE [Next]_schedulerVars
  <2>1. CASE LoadStop(t) \/ Wait(t) \/ HandleInterrupt(t) \/ EndOfBatch(t)
    BY <2>1 DEF LoadStop, Wait, HandleInterrupt, EndOfBatch
  <2>2. CASE Timeout(t)
    BY <2>2 DEF Timeout, WaitAgainOrReturn
  <2>3. CASE HandleEvent(t)
    <3>1. PICK f \in todo[t] \cap Fds : Complete(t, waiter[f])
      BY <2>3 DEF HandleEvent
    <3>2. waiter[f] \in Coros
      BY <3>1 DEF EventInv, ServiceTypeOK, EventsWaiting, Node
    <3> QED BY <3>1, <3>2
  <2>4. CASE EventReturns(t)
    BY <2>4 DEF EventReturns
  <2>5. CASE Process(t)
    BY <2>5 DEF Process
  <2> QED BY <1>2, <2>1, <2>2, <2>3, <2>4, <2>5 DEF RunLoop
<1>3. ASSUME NEW t \in Threads, Signal(t) PROVE [Next]_schedulerVars
  BY <1>3 DEF Signal, WaitAgainOrReturn
<1>4. ASSUME NEW t \in Threads, NEW c \in Coros, LaunchTask(t, c) PROVE Next
  BY <1>4 DEF LaunchTask
<1>5. ASSUME NEW t \in Threads, NEW f \in Fds, AwaitEvent(t, f) PROVE Next
  BY <1>5 DEF AwaitEvent
<1>6. ASSUME NEW t \in Threads, Coroutine(t) \/ Post(t) PROVE Next
  BY <1>6 DEF Coroutine, Post
<1>7. ASSUME NEW t \in Threads, Interrupt(t) \/ \E s \in Schedulers, b \in StopArgs : Stop(t, s, b)
      PROVE  UNCHANGED schedulerVars
  BY <1>7 DEF Interrupt, Stop
<1>8. ASSUME NEW f \in Fds, PeerActs(f) PROVE UNCHANGED schedulerVars
  BY <1>8 DEF PeerActs
<1>9. CASE UNCHANGED allVars
  BY <1>9 DEF allVars, schedulerVars
<1> QED BY <1>1, <1>2, <1>3, <1>4, <1>5, <1>6, <1>7, <1>8, <1>9 DEF ServiceNext

-----------------------------------------------------------------------------
(* The scheduler steps that neither enter nor leave run(), nor have to do  *)
(* with events, keep index, who waits and for whom.                        *)
LEMMA WorkKeepsWaiters ==
  ASSUME IInv, NEW t \in Threads,
         Await(t) \/ Finish(t) \/ Acquire(t) \/ Work(t) \/ \E c \in Coros : Launch(t, c)
  PROVE  /\ index' = index
         /\ \A c \in Coros : at'[c] = "waiting" <=> at[c] = "waiting"
         /\ \A c \in Coros : at[c] = "waiting" => target'[c] = target[c]
<1> USE SchedulerAssumption DEF IInv, TypeOK, ThreadShape, NoDangling, Queued, Node, threads, coros, queue
<1>1. CASE Await(t)
  BY <1>1 DEF Await, AwaitReady, AwaitSuspend, CountAwait
<1>2. CASE Finish(t) \/ Acquire(t)
  BY <1>2 DEF Finish, Acquire
<1>3. CASE PostLoad(t) \/ PostRetry(t) \/ PostPublish(t)
  BY <1>3 DEF PostLoad, PostRetry, PostPublish
<1>4. CASE ReverseOne(t) \/ Reversed(t) \/ Resume(t) \/ Return(t)
  BY <1>4 DEF ReverseOne, Reversed, Resume, Return
<1>5. ASSUME NEW c \in Coros, Launch(t, c)
      PROVE  /\ index' = index
             /\ \A d \in Coros : at'[d] = "waiting" <=> at[d] = "waiting"
             /\ \A d \in Coros : at[d] = "waiting" => target'[d] = target[d]
  BY <1>5 DEF Launch
<1> QED BY <1>1, <1>2, <1>3, <1>4, <1>5 DEF Work

(* What EventsWaiting reads, and what keeps it.                            *)
LEMMA WaitersKept ==
  ASSUME EventsWaiting, ServiceTypeOK,
         UNCHANGED <<waiter, fired, todo>>,
         \A c \in Coros : at'[c] = "waiting" <=> at[c] = "waiting",
         \A c \in Coros : at[c] = "waiting" => target'[c] = target[c]
  PROVE  EventsWaiting'
BY DEF EventsWaiting, ServiceTypeOK, Node

-----------------------------------------------------------------------------
(* The types, and where the threads are in run(), after each step.         *)
LEMMA ServiceTypesStep ==
  ASSUME EventInv, TypeOK', [ServiceNext]_allVars
  PROVE  ServiceTypeOK' /\ LoopShape'
<1> DEFINE Typed == ServiceTypeOK /\ LoopShape
<1> USE SchedulerAssumption, ServiceAssumption
    DEF EventInv, IInv, ServiceTypeOK, LoopShape, Outside, loopVars, ioVars
<1>1. ASSUME NEW t \in Threads, Run(t) PROVE Typed'
  BY <1>1 DEF Run, Enter, TypeOK
<1>2. ASSUME NEW t \in Threads, LoadStop(t) PROVE Typed'
  BY <1>2 DEF LoadStop, Goto, schedulerVars, TypeOK
<1>3. ASSUME NEW t \in Threads, Wait(t) PROVE Typed'
  <2>0. index[t] \in Schedulers
    BY <1>3 DEF Wait, Goto, TypeOK
  <2>1. PICK entries \in SUBSET (Fds \cup Schedulers) : todo' = [todo EXCEPT ![t] = entries]
    <3>1. Pending(index[t]) \subseteq Fds \cup Schedulers
      BY <2>0 DEF Pending
    <3> QED BY <1>3, <3>1 DEF Wait
  <2>2. armed' \in [Schedulers -> BOOLEAN] /\ fired' \in [Fds -> BOOLEAN]
    BY <1>3 DEF Wait
  <2>3. index' = index /\ loc' = [loc EXCEPT ![t] = "batch"] /\ loc[t] = "wait"
    BY <1>3 DEF Wait, Goto, schedulerVars
  <2> QED BY <1>3, <2>1, <2>2, <2>3 DEF Wait
<1>4. ASSUME NEW t \in Threads, Timeout(t) PROVE Typed'
  <2>1. UNCHANGED <<stop, ioVars, local, todo, wake, budget>>
    BY <1>4 DEF Timeout
  <2>2. CASE UNCHANGED <<schedulerVars, loc>>
    BY <2>1, <2>2 DEF schedulerVars
  <2>3. CASE loc' = [loc EXCEPT ![t] = "left"] /\ Leave(t)
    <3>1. index' = [index EXCEPT ![t] = Nil]
      BY <2>3 DEF Leave
    <3>2. ServiceTypeOK'
      BY <2>1, <2>3
    <3>3. LoopShape'
      <4> SUFFICES ASSUME NEW u \in Threads
                   PROVE  /\ loc'[u] \notin Outside => index'[u] # Nil
                          /\ loc'[u] \notin {"batch", "interrupted"} => todo'[u] = {}
        OBVIOUS
      <4>1. loc[t] = "wait"
        BY <1>4 DEF Timeout
      <4>2. CASE u = t
        BY <2>1, <2>3, <3>1, <4>1, <4>2
      <4>3. CASE u # t
        BY <2>1, <2>3, <3>1, <4>3 DEF TypeOK
      <4> QED BY <4>2, <4>3
    <3> QED BY <3>2, <3>3
  <2> QED BY <1>4, <2>2, <2>3 DEF Timeout, WaitAgainOrReturn
<1>5. ASSUME NEW t \in Threads, Signal(t) PROVE Typed'
  <2>1. budget' \in [stops : 0..MaxStops, signals : 0..MaxSignals]
    BY <1>5 DEF Signal
  <2>2. CASE UNCHANGED <<schedulerVars, loc>>
    BY <1>5, <2>1, <2>2 DEF Signal, schedulerVars
  <2>3. CASE loc' = [loc EXCEPT ![t] = "left"] /\ Leave(t)
    BY <1>5, <2>1, <2>3 DEF Signal, Leave, TypeOK
  <2> QED BY <1>5, <2>2, <2>3 DEF Signal, WaitAgainOrReturn
<1>6. ASSUME NEW t \in Threads, HandleEvent(t) PROVE Typed'
  <2>1. PICK f \in todo[t] \cap Fds :
          /\ waiter' = [waiter EXCEPT ![f] = Nil] /\ fired' = [fired EXCEPT ![f] = FALSE]
          /\ ready' = [ready EXCEPT ![f] = FALSE] /\ todo' = [todo EXCEPT ![t] = @ \ {f}]
          /\ UNCHANGED <<stop, armed, loc, local, wake, budget, index>>
    BY <1>6 DEF HandleEvent, Complete
  <2> QED BY <2>1 DEF Node
<1>7. ASSUME NEW t \in Threads, HandleInterrupt(t) PROVE Typed'
  BY <1>7 DEF HandleInterrupt, Goto, schedulerVars, TypeOK
<1>8. ASSUME NEW t \in Threads, EndOfBatch(t) PROVE Typed'
  BY <1>8 DEF EndOfBatch, Goto, schedulerVars
<1>9. ASSUME NEW t \in Threads, EventReturns(t) PROVE Typed'
  BY <1>9, WorkKeepsWaiters DEF EventReturns, Work, serviceVars
<1>10. ASSUME NEW t \in Threads, Process(t) PROVE Typed'
  <2>1. index' = index
    BY <1>10, WorkKeepsWaiters DEF Process, Work, schedulerVars
  <2>2. loc' = loc \/ (loc[t] = "process" /\ loc' = [loc EXCEPT ![t] = "wait"])
    BY <1>10 DEF Process
  <2> QED BY <1>10, <2>1, <2>2 DEF Process
<1>11. ASSUME NEW t \in Threads, NEW c \in Coros, LaunchTask(t, c) PROVE Typed'
  BY <1>11, WorkKeepsWaiters DEF LaunchTask, serviceVars
<1>12. ASSUME NEW t \in Threads, Coroutine(t) PROVE Typed'
  BY <1>12, WorkKeepsWaiters DEF Coroutine, Work, serviceVars
<1>13. ASSUME NEW t \in Threads, NEW f \in Fds, AwaitEvent(t, f) PROVE Typed'
  BY <1>13 DEF AwaitEvent, Suspend, TypeOK, ThreadShape
<1>14. ASSUME NEW t \in Threads, Post(t) PROVE Typed'
  <2>1. target[cur[t]] \in Schedulers
    BY <1>14 DEF Post, PostPublish, TypeOK, ThreadShape, Node
  <2> QED BY <1>14, <2>1, WorkKeepsWaiters DEF Post, Work
<1>15. ASSUME NEW t \in Threads, NEW s \in Schedulers, NEW b \in StopArgs, Stop(t, s, b)
       PROVE  Typed'
  BY <1>15 DEF Stop, schedulerVars
<1>16. ASSUME NEW t \in Threads, Interrupt(t) PROVE Typed'
  BY <1>16 DEF Interrupt, schedulerVars
<1>17. ASSUME NEW f \in Fds, PeerActs(f) PROVE Typed'
  BY <1>17 DEF PeerActs, schedulerVars
<1>18. CASE UNCHANGED allVars
  BY <1>18 DEF allVars, serviceVars, schedulerVars
<1> QED
  BY <1>1, <1>2, <1>3, <1>4, <1>5, <1>6, <1>7, <1>8, <1>9, <1>10, <1>11, <1>12, <1>13, <1>14,
     <1>15, <1>16, <1>17, <1>18
  DEF ServiceNext, RunLoop

(* epoll_wait delivers an entry to one thread, event::resume removes the   *)
(* registration before the coroutine goes on, and only a free descriptor   *)
(* is registered again.                                                    *)
LEMMA EventsWaitingStep ==
  ASSUME EventInv, [ServiceNext]_allVars
  PROVE  EventsWaiting'
<1> USE SchedulerAssumption, ServiceAssumption DEF EventInv
<1>1. ASSUME NEW t \in Threads, Wait(t) PROVE EventsWaiting'
  <2> DEFINE s == index[t]
  <2>1. PICK entries \in SUBSET Pending(s) :
          /\ todo' = [todo EXCEPT ![t] = entries]
          /\ fired' = [f \in Fds |-> fired[f] \/ f \in entries]
    BY <1>1, Zenon DEF Wait
  <2>2. UNCHANGED <<waiter, at, target>>
    BY <1>1 DEF Wait, schedulerVars, coros
  <2>3. s \notin Fds /\ loc[t] = "wait"
    BY <1>1 DEF Wait, Goto, ServiceTypeOK, LoopShape, Outside, IInv, TypeOK
  <2>4. \A f \in entries \cap Fds : waiter[f] # Nil /\ ~fired[f]
    BY <2>3 DEF Pending
  <2>5. todo[t] = {}
    BY <2>3 DEF LoopShape
  <2>6. \A f \in Fds : fired'[f] <=> \E u \in Threads : f \in todo'[u]
    <3> TAKE f \in Fds
    <3>1. fired[f] <=> \E u \in Threads : f \in todo[u]
      BY DEF EventsWaiting
    <3>2. todo'[t] = entries /\ \A u \in Threads \ {t} : todo'[u] = todo[u]
      BY <2>1 DEF ServiceTypeOK
    <3>3. fired'[f] <=> fired[f] \/ f \in entries
      BY <2>1
    <3> QED BY <2>5, <3>1, <3>2, <3>3
  <2>7. \A u, v \in Threads : u # v => todo'[u] \cap todo'[v] \cap Fds = {}
    <3>1. \A u \in Threads : u # t => entries \cap todo'[u] \cap Fds = {}
      BY <2>1, <2>4 DEF EventsWaiting, ServiceTypeOK
    <3> QED BY <2>1, <3>1 DEF EventsWaiting, ServiceTypeOK
  <2>8. \A f \in Fds : fired'[f] => waiter'[f] # Nil
    BY <2>1, <2>2, <2>4 DEF EventsWaiting
  <2> QED BY <2>2, <2>6, <2>7, <2>8 DEF EventsWaiting
<1>2. ASSUME NEW t \in Threads, HandleEvent(t) PROVE EventsWaiting'
  <2>1. PICK f \in todo[t] \cap Fds :
          /\ Complete(t, waiter[f])
          /\ waiter' = [waiter EXCEPT ![f] = Nil] /\ fired' = [fired EXCEPT ![f] = FALSE]
          /\ todo' = [todo EXCEPT ![t] = @ \ {f}]
    BY <1>2 DEF HandleEvent
  <2> DEFINE c == waiter[f]
  <2>2. c \in Coros /\ at[c] = "waiting" /\ \A g \in Fds \ {f} : waiter[g] # c
    BY <2>1 DEF Complete, EventsWaiting, ServiceTypeOK, Node
  <2>3. /\ target' = target
        /\ \A d \in Coros : at'[d] = "waiting" <=> at[d] = "waiting" /\ d # c
    BY <2>1, <2>2 DEF Complete, IInv, TypeOK
  <2>4. \A g \in Fds : waiter'[g] = IF g = f THEN Nil ELSE waiter[g]
    BY <2>1 DEF ServiceTypeOK
  <2>5. \A g \in Fds : fired'[g] <=> g # f /\ fired[g]
    BY <2>1 DEF ServiceTypeOK
  <2>6. \A u \in Threads : todo'[u] = IF u = t THEN todo[t] \ {f} ELSE todo[u]
    BY <2>1 DEF ServiceTypeOK
  <2>7. ASSUME NEW g \in Fds, waiter'[g] # Nil
        PROVE  at'[waiter'[g]] = "waiting" /\ target'[waiter'[g]] = Owner[g]
    <3>1. g # f /\ waiter'[g] = waiter[g] /\ waiter[g] \in Coros /\ waiter[g] # c
      BY <2>2, <2>4, <2>7 DEF ServiceTypeOK, Node
    <3> QED BY <2>3, <2>7, <3>1 DEF EventsWaiting
  <2>9. ASSUME NEW d \in Coros, at'[d] = "waiting"
        PROVE  \E g \in Fds : waiter'[g] = d /\ \A h \in Fds \ {g} : waiter'[h] # d
    <3>1. at[d] = "waiting" /\ d # c /\ d # Nil
      BY <2>3, <2>9, SchedulerAssumption
    <3>2. PICK g \in Fds : waiter[g] = d /\ \A h \in Fds \ {g} : waiter[h] # d
      BY <3>1 DEF EventsWaiting
    <3>3. g # f
      BY <3>1, <3>2
    <3> QED BY <2>4, <3>1, <3>2, <3>3
  <2>8. /\ \A g \in Fds : fired'[g] <=> \E u \in Threads : g \in todo'[u]
        /\ \A u, v \in Threads : u # v => todo'[u] \cap todo'[v] \cap Fds = {}
        /\ \A g \in Fds : fired'[g] => waiter'[g] # Nil
    BY <2>4, <2>5, <2>6 DEF EventsWaiting
  <2> QED BY <2>7, <2>8, <2>9 DEF EventsWaiting
<1>3. ASSUME NEW t \in Threads, HandleInterrupt(t) PROVE EventsWaiting'
  <2>1. UNCHANGED <<waiter, fired, at, target>>
    BY <1>3 DEF HandleInterrupt, ioVars, schedulerVars, coros
  <2>2. index[t] \in Schedulers /\ todo' = [todo EXCEPT ![t] = @ \ {index[t]}]
    BY <1>3 DEF HandleInterrupt, Goto, LoopShape, Outside, IInv, TypeOK
  <2>3. \A u \in Threads : todo'[u] \cap Fds = todo[u] \cap Fds
    BY <2>2 DEF ServiceTypeOK
  <2>4. \A f \in Fds, u \in Threads : f \in todo'[u] <=> f \in todo[u]
    BY <2>3
  <2> QED BY <2>1, <2>3, <2>4 DEF EventsWaiting
<1>4. ASSUME NEW t \in Threads, NEW f \in Fds, AwaitEvent(t, f) PROVE EventsWaiting'
  <2> DEFINE c == cur[t]
  <2>1. /\ waiter[f] = Nil /\ waiter' = [waiter EXCEPT ![f] = c]
        /\ UNCHANGED <<fired, todo>>
    BY <1>4 DEF AwaitEvent, loopVars
  <2>2. c \in Coros /\ at[c] # "waiting"
    BY <1>4 DEF AwaitEvent, Suspend, IInv, TypeOK, ThreadShape, Node
  <2>3. /\ \A d \in Coros : at'[d] = "waiting" <=> at[d] = "waiting" \/ d = c
        /\ \A d \in Coros : target'[d] = IF d = c THEN Owner[f] ELSE target[d]
    BY <1>4, <2>2 DEF AwaitEvent, Suspend, CountAwait, IInv, TypeOK
  <2>4. \A g \in Fds : waiter'[g] = IF g = f THEN c ELSE waiter[g]
    BY <2>1 DEF ServiceTypeOK
  <2>5. \A g \in Fds : waiter[g] # c
    BY <2>2, SchedulerAssumption DEF EventsWaiting
  <2>6. ASSUME NEW g \in Fds, waiter'[g] # Nil
        PROVE  at'[waiter'[g]] = "waiting" /\ target'[waiter'[g]] = Owner[g]
    <3>1. CASE g = f
      BY <2>2, <2>3, <2>4, <3>1
    <3>2. CASE g # f
      <4>1. waiter'[g] = waiter[g] /\ waiter[g] \in Coros /\ waiter[g] # c
        BY <2>4, <2>5, <2>6, <3>2 DEF ServiceTypeOK, Node
      <4> QED BY <2>3, <2>6, <4>1 DEF EventsWaiting
    <3> QED BY <3>1, <3>2
  <2>7. ASSUME NEW d \in Coros, at'[d] = "waiting"
        PROVE  \E g \in Fds : waiter'[g] = d /\ \A h \in Fds \ {g} : waiter'[h] # d
    <3>1. CASE d = c
      BY <2>4, <2>5, <3>1
    <3>2. CASE d # c
      <4>1. PICK g \in Fds : waiter[g] = d /\ \A h \in Fds \ {g} : waiter[h] # d
        BY <2>3, <2>7, <3>2 DEF EventsWaiting
      <4>2. g # f
        BY <2>1, <4>1, SchedulerAssumption
      <4> QED BY <2>4, <3>2, <4>1, <4>2
    <3> QED BY <3>1, <3>2
  <2>8. /\ \A g \in Fds : fired'[g] <=> \E u \in Threads : g \in todo'[u]
        /\ \A u, v \in Threads : u # v => todo'[u] \cap todo'[v] \cap Fds = {}
    BY <2>1 DEF EventsWaiting
  <2>9. \A g \in Fds : fired'[g] => waiter'[g] # Nil
    BY <2>1, <2>4 DEF EventsWaiting
  <2> QED BY <2>6, <2>7, <2>8, <2>9 DEF EventsWaiting
<1>5. ASSUME NEW t \in Threads, Run(t) \/ Timeout(t) \/ Signal(t) PROVE EventsWaiting'
  BY <1>5, WaitersKept DEF Run, Enter, Timeout, Signal, WaitAgainOrReturn, Leave, ioVars, schedulerVars, coros
<1>6. ASSUME NEW t \in Threads, LoadStop(t) \/ EndOfBatch(t) \/ Interrupt(t) PROVE EventsWaiting'
  BY <1>6, WaitersKept DEF LoadStop, EndOfBatch, Interrupt, ioVars, loopVars, schedulerVars
<1>7. ASSUME NEW t \in Threads, EventReturns(t) \/ Process(t) \/ Coroutine(t) \/ Post(t)
      PROVE  EventsWaiting'
  BY <1>7, WorkKeepsWaiters, WaitersKept
     DEF EventReturns, Process, Coroutine, Post, Work, ioVars, loopVars, serviceVars, schedulerVars
<1>8. ASSUME NEW t \in Threads, NEW c \in Coros, LaunchTask(t, c) PROVE EventsWaiting'
  BY <1>8, WorkKeepsWaiters, WaitersKept DEF LaunchTask, serviceVars, ioVars, loopVars
<1>9. ASSUME NEW t \in Threads, NEW s \in Schedulers, NEW b \in StopArgs, Stop(t, s, b)
      PROVE  EventsWaiting'
  BY <1>9, WaitersKept DEF Stop, ioVars, loopVars, schedulerVars
<1>10. ASSUME NEW f \in Fds, PeerActs(f) PROVE EventsWaiting'
  BY <1>10, WaitersKept DEF PeerActs, loopVars, schedulerVars
<1>11. CASE UNCHANGED allVars
  BY <1>11, WaitersKept DEF allVars, serviceVars, schedulerVars, ioVars, loopVars
<1> QED
  BY <1>1, <1>2, <1>3, <1>4, <1>5, <1>6, <1>7, <1>8, <1>9, <1>10, <1>11 DEF ServiceNext, RunLoop

-----------------------------------------------------------------------------
(* Types, queue and registrations of a service, together.                  *)
THEOREM ServiceInvariance == ServiceSpec => []EventInv
<1>1. ASSUME EventInv, [ServiceNext]_allVars PROVE EventInv'
  <2>1. [Next]_schedulerVars
    BY <1>1, ServiceStepSimulates
  <2>2. IInv'
    BY <1>1, <2>1, TypeOKStep, ThreadShapeStep, NoDanglingStep, NoSharingStep, NoLossStep,
       ListsOnTargetStep DEF IInv, EventInv
  <2> QED BY <1>1, <2>2, ServiceTypesStep, EventsWaitingStep DEF EventInv, IInv
<1>2. EventInv /\ [ServiceNext]_allVars => EventInv' BY <1>1
<1> QED BY <1>2, InitEstablishesEventInv, PTL DEF ServiceSpec

(* The types of a service, its events and its epoll set.                   *)
THEOREM ServiceTypes == ServiceSpec => []ServiceTypeOK
<1>1. EventInv => ServiceTypeOK BY DEF EventInv
<1> QED BY ServiceInvariance, <1>1, PTL

(* A registration leads to a coroutine that is still suspended in that     *)
(* event, and a delivered entry is in one batch: run() dereferences live   *)
(* events and resumes each once.                                           *)
THEOREM ServiceEventsWait == ServiceSpec => []EventsWaiting
<1>1. EventInv => EventsWaiting BY DEF EventInv
<1> QED BY ServiceInvariance, <1>1, PTL

(* ice::service implements the run queue it derives from.                  *)
THEOREM ServiceImplementsScheduler == ServiceSpec => Spec
<1>1. ServiceInit => Init BY DEF ServiceInit
<1>2. EventInv /\ [ServiceNext]_allVars => [Next]_schedulerVars
  BY ServiceStepSimulates
<1> QED BY <1>1, <1>2, ServiceInvariance, PTL DEF ServiceSpec, Spec

(* tests/service.cpp, for any number of services, threads and sockets:     *)
(* after co_await s.schedule() a coroutine is on a thread inside s.run().  *)
THEOREM ServiceRunsOnTarget == ServiceSpec => []RunsOnTarget
BY ServiceImplementsScheduler, ResumedOnTarget, PTL

(* Events, signals and interrupt() do not change the order: a service      *)
(* resumes posted coroutines in the order in which they were posted.       *)
THEOREM ServiceImplementsRunQueue == ServiceSpec => RunQueueSpec
BY ServiceImplementsScheduler, SchedulerImplementsRunQueue, PTL

=============================================================================
