------------------------------ MODULE Context ------------------------------
(***************************************************************************)
(* ice::context (ice/context.hpp): a scheduler whose run() sleeps on a     *)
(* condition variable.  The queue itself is module Scheduler; this module  *)
(* adds stop_, the mutex, the wait set of cv_ and the place of every       *)
(* thread in run().  post() and stop() change what the wait predicate      *)
(* reads and notify WITHOUT taking the mutex, in two separate steps.       *)
(***************************************************************************)
EXTENDS Scheduler

CONSTANTS Home,      \* Home[t]: the context whose run() thread t calls, or Nil
          StopArgs,  \* the arguments stop() is called with
          MaxStops   \* bound: calls of stop()

ASSUME ContextAssumption ==
  /\ Nil \notin Threads
  /\ Home \in [Threads -> Schedulers \cup {Nil}]
  /\ StopArgs \subseteq BOOLEAN
  /\ MaxStops \in Nat

VARIABLES
  stop,   \* stop[s]: stop_
  mutex,  \* mutex[s]: the thread that holds mutex_, or Nil
  loc,    \* loc[t]: where t is in run(); "waiting" is the wait set of cv_
  wake,   \* wake[t]: the notification t has still to send, or Nil
  stops   \* number of calls of stop() so far

contextVars == <<stop, mutex, loc, wake, stops>>
allVars == <<schedulerVars, contextVars>>

Outside == {"out", "left"}
Locations == Outside \cup {"enter", "lock", "acquire", "check", "pred",
                           "predstop", "block", "waiting", "relock", "drain"}

ContextTypeOK ==
  /\ TypeOK
  /\ stop \in [Schedulers -> BOOLEAN]
  /\ mutex \in [Schedulers -> Threads \cup {Nil}]
  /\ loc \in [Threads -> Locations]
  /\ wake \in [Threads -> ({"one", "all"} \X Schedulers) \cup {Nil}]
  /\ stops \in 0..MaxStops

ContextInit ==
  /\ Init
  /\ stop = [s \in Schedulers |-> FALSE]
  /\ mutex = [s \in Schedulers |-> Nil]
  /\ loc = [t \in Threads |-> "out"]
  /\ wake = [t \in Threads |-> Nil]
  /\ stops = 0

Goto(t, from, to) == loc[t] = from /\ loc' = [loc EXCEPT ![t] = to]

-----------------------------------------------------------------------------
(* run()                                                                   *)

Run(t) ==
  /\ loc[t] \in Outside /\ wake[t] = Nil /\ Home[t] # Nil
  /\ Enter(t, Home[t])
  /\ loc' = [loc EXCEPT ![t] = "enter"]
  /\ UNCHANGED <<stop, mutex, wake, stops>>

\* The first lock is released at once: all run() gets from it is the wait.
EnterLock(t) ==
  /\ Goto(t, "enter", "lock")
  /\ mutex[index[t]] = Nil
  /\ UNCHANGED <<schedulerVars, stop, mutex, wake, stops>>

\* lock() at the top of the loop, and inside cv_.wait once it is woken up.
Lock(t) ==
  /\ Goto(t, "lock", "acquire") \/ Goto(t, "relock", "pred")
  /\ mutex[index[t]] = Nil
  /\ mutex' = [mutex EXCEPT ![index[t]] = t]
  /\ UNCHANGED <<schedulerVars, stop, wake, stops>>

\* acquire() with the mutex held, in the loop and in the wait predicate.
TakeBatch(t) ==
  /\ loc[t] \in {"acquire", "pred"}
  /\ Acquire(t)
  /\ UNCHANGED contextVars

FoundNothing(t) ==
  /\ Goto(t, "acquire", "check") \/ Goto(t, "pred", "predstop")
  /\ pc[t] = "idle" /\ head[index[t]] = Nil
  /\ UNCHANGED <<schedulerVars, stop, mutex, wake, stops>>

ReverseBatch(t) == (ReverseOne(t) \/ Reversed(t)) /\ UNCHANGED contextVars

Unlock(t) ==
  /\ pc[t] = "drain"
  /\ Goto(t, "acquire", "drain") \/ Goto(t, "pred", "drain")
  /\ mutex' = [mutex EXCEPT ![index[t]] = Nil]
  /\ UNCHANGED <<schedulerVars, stop, wake, stops>>

\* Faulty variants: the loop does not check stop_, and return keeps the mutex.
CheckNothing(t) ==
  /\ Goto(t, "check", "pred")
  /\ UNCHANGED <<schedulerVars, stop, mutex, wake, stops>>

CheckStopKeepsMutex(t) ==
  \/ /\ Goto(t, "check", "left")
     /\ stop[index[t]]
     /\ Leave(t)
     /\ UNCHANGED <<stop, mutex, wake, stops>>
  \/ /\ Goto(t, "check", "pred")
     /\ ~stop[index[t]]
     /\ UNCHANGED <<schedulerVars, stop, mutex, wake, stops>>

CheckStop(t) ==
  \/ /\ Goto(t, "check", "left")
     /\ stop[index[t]]
     /\ mutex' = [mutex EXCEPT ![index[t]] = Nil]
     /\ Leave(t)
     /\ UNCHANGED <<stop, wake, stops>>
  \/ /\ Goto(t, "check", "pred")
     /\ ~stop[index[t]]
     /\ UNCHANGED <<schedulerVars, stop, mutex, wake, stops>>

\* The second half of the wait predicate.
PredStop(t) ==
  /\ Goto(t, "predstop", IF stop[index[t]] THEN "check" ELSE "block")
  /\ UNCHANGED <<schedulerVars, stop, mutex, wake, stops>>

\* Faulty variant: the wait does not give the mutex back.
BlockWithMutex(t) ==
  /\ Goto(t, "block", "waiting")
  /\ UNCHANGED <<schedulerVars, stop, mutex, wake, stops>>

\* The wait proper: unlock and join the wait set in one step.
Block(t) ==
  /\ Goto(t, "block", "waiting")
  /\ mutex' = [mutex EXCEPT ![index[t]] = Nil]
  /\ UNCHANGED <<schedulerVars, stop, wake, stops>>

SpuriousWake(t) ==
  /\ Goto(t, "waiting", "relock")
  /\ UNCHANGED <<schedulerVars, stop, mutex, wake, stops>>

Drain(t) ==
  /\ loc[t] = "drain" /\ wake[t] = Nil
  /\ \/ Resume(t) /\ UNCHANGED loc
     \/ Return(t) /\ loc' = [loc EXCEPT ![t] = "lock"]
  /\ UNCHANGED <<stop, mutex, wake, stops>>

-----------------------------------------------------------------------------
(* What coroutines do, on a thread that drains or outside run().           *)

LaunchTask(t, c) ==
  /\ loc[t] \in Outside /\ wake[t] = Nil
  /\ Launch(t, c)
  /\ UNCHANGED contextVars

Coroutine(t) ==
  /\ wake[t] = Nil
  /\ Await(t) \/ Finish(t) \/ PostLoad(t) \/ PostRetry(t)
  /\ UNCHANGED contextVars

\* post() owes cv_ a notify_one once the push is done.
Post(t) ==
  /\ PostPublish(t)
  /\ wake' = [wake EXCEPT ![t] = <<"one", target[cur[t]]>>]
  /\ UNCHANGED <<stop, mutex, loc, stops>>

\* stop() owes cv_ a notify_all once the store is done.
Stop(t, s, b) ==
  /\ wake[t] = Nil
  /\ pc[t] = "exec" \/ (pc[t] = "idle" /\ loc[t] \in Outside)
  /\ stops < MaxStops /\ stops' = stops + 1
  /\ stop' = [stop EXCEPT ![s] = b]
  /\ wake' = [wake EXCEPT ![t] = <<"all", s>>]
  /\ UNCHANGED <<schedulerVars, mutex, loc>>

Sleepers(s) == {t \in Threads : loc[t] = "waiting" /\ index[t] = s}

Notify(t) ==
  /\ wake[t] # Nil
  /\ LET sleepers == Sleepers(wake[t][2]) IN
       \E woken \in SUBSET sleepers :
         /\ IF wake[t][1] = "all" THEN woken = sleepers
            ELSE Cardinality(woken) = IF sleepers = {} THEN 0 ELSE 1
         /\ loc' = [u \in Threads |-> IF u \in woken THEN "relock" ELSE loc[u]]
  /\ wake' = [wake EXCEPT ![t] = Nil]
  /\ UNCHANGED <<schedulerVars, stop, mutex, stops>>

-----------------------------------------------------------------------------
RunLoop(t) ==
  \/ TakeBatch(t) \/ FoundNothing(t) \/ ReverseBatch(t) \/ Unlock(t)
  \/ CheckStop(t) \/ PredStop(t) \/ Block(t) \/ Drain(t)

ContextNext == \E t \in Threads :
  \/ Run(t) \/ EnterLock(t) \/ Lock(t) \/ RunLoop(t) \/ SpuriousWake(t)
  \/ \E c \in Coros : LaunchTask(t, c)
  \/ Coroutine(t) \/ Post(t) \/ Notify(t)
  \/ \E s \in Schedulers, b \in StopArgs : Stop(t, s, b)

(* A thread that can take a step of the code takes it; run() is entered    *)
(* at least once; a mutex that is free again and again is obtained; a      *)
(* coroutine does not keep its thread.  Nobody has to launch, to stop or   *)
(* to call run() again, and a spurious wakeup need not happen.             *)
ContextFairness == \A t \in Threads :
  /\ WF_allVars(RunLoop(t) \/ Coroutine(t) \/ Post(t) \/ Notify(t))
  /\ WF_allVars(loc[t] = "out" /\ cur[t] = Nil /\ Run(t))
  /\ SF_allVars(EnterLock(t) \/ Lock(t))

ContextSpec == ContextInit /\ [][ContextNext]_allVars
FairContextSpec == ContextSpec /\ ContextFairness

-----------------------------------------------------------------------------
(* Properties                                                              *)

(* The lock discipline of run(): whoever looks at the queue or at stop_    *)
(* from the loop or the predicate holds the mutex, nobody resumes a        *)
(* coroutine or sleeps with it, and it is never left behind by return.     *)
MutexHeld == \A t \in Threads, s \in Schedulers :
  mutex[s] = t <=> index[t] = s /\ loc[t] \in {"acquire", "check", "pred", "predstop", "block"}

(* A posted coroutine is resumed while its context runs.                   *)
PostedResumes == \A c \in Coros :
  (at[c] = "queued" /\ \A t \in Threads : loc[t] # "left") ~> at[c] # "queued"

(* The only way a post is stranded is that all workers of its context end  *)
(* up asleep in cv_ or gone for good: a worker that is awake, or wakes up  *)
(* for any reason, gets to every node, and none blocks on the mutex.       *)
OnlySleepStrands == \A c \in Coros :
  \/ []<>(at[c] # "queued")
  \/ <>[](\A t \in Threads : Home[t] = target[c] => loc[t] \in {"waiting", "left"})

(* Nor does anything else than sleeping through the notification outlive   *)
(* stop(): a worker that is awake, or wakes up for any reason, returns,    *)
(* unless stop(false) revokes the call.                                    *)
OnlySleepOutlivesStop == \A t \in Threads : Home[t] # Nil =>
  \/ []<>(loc[t] = "left" \/ ~stop[Home[t]])
  \/ <>[](loc[t] = "waiting")

=============================================================================
