------------------------------ MODULE Service ------------------------------
(***************************************************************************)
(* net::service (ice/net/service.cpp) on Linux, with the net::event of     *)
(* ice/net/event.hpp: a scheduler whose run() sleeps in epoll_wait.        *)
(*                                                                         *)
(* post() and stop() re-arm a one-shot registration of an eventfd that is  *)
(* always writable, so an interrupt is remembered until some thread        *)
(* receives it; interrupts sent before that are merged.  A coroutine that  *)
(* awaits an event registers its descriptor, which can be registered once; *)
(* run() removes the registration and resumes the coroutine.               *)
(***************************************************************************)
EXTENDS Scheduler

CONSTANTS Home,        \* Home[t]: the service whose run() thread t calls, or Nil
          Fds,         \* descriptors (sockets)
          Owner,       \* Owner[f]: the service of f's socket
          BufferSize,  \* event_buffer_size of run()
          StopArgs,    \* the arguments stop() is called with
          MaxStops,    \* bound: calls of stop()
          MaxSignals   \* bound: epoll_wait interrupted by a signal (EINTR)

ASSUME ServiceAssumption ==
  /\ Nil \notin Threads
  /\ Home \in [Threads -> Schedulers \cup {Nil}]
  /\ Owner \in [Fds -> Schedulers]
  /\ Fds \cap Schedulers = {}
  /\ BufferSize \in Nat \ {0}
  /\ StopArgs \subseteq BOOLEAN
  /\ MaxStops \in Nat /\ MaxSignals \in Nat

VARIABLES
  stop,     \* stop[s]: stop_
  armed,    \* armed[s]: the registration of events_ is armed
  waiter,   \* waiter[f]: the coroutine whose event is registered for f, or Nil
  fired,    \* fired[f]: that event was delivered, the registration is disabled
  ready,    \* ready[f]: the awaited I/O is possible on f
  loc,      \* loc[t]: where t is in run()
  local,    \* local[t]: the variable `stop` of run()
  todo,     \* todo[t]: entries of events_data not handled yet
  wake,     \* wake[t]: the service t has still to interrupt, or Nil
  budget    \* [stops, signals]: how often the environment did what is bounded

loopVars == <<loc, local, todo>>
ioVars == <<armed, waiter, fired, ready>>
serviceVars == <<stop, ioVars, loopVars, wake, budget>>
allVars == <<schedulerVars, serviceVars>>

Outside == {"out", "left"}

ServiceTypeOK ==
  /\ TypeOK
  /\ stop \in [Schedulers -> BOOLEAN]
  /\ armed \in [Schedulers -> BOOLEAN]
  /\ waiter \in [Fds -> Node]
  /\ fired \in [Fds -> BOOLEAN]
  /\ ready \in [Fds -> BOOLEAN]
  /\ loc \in [Threads -> Outside \cup {"start", "wait", "batch", "interrupted", "process"}]
  /\ local \in [Threads -> BOOLEAN]
  /\ todo \in [Threads -> SUBSET (Fds \cup Schedulers)]
  /\ wake \in [Threads -> Schedulers \cup {Nil}]
  /\ budget \in [stops : 0..MaxStops, signals : 0..MaxSignals]

\* create() ends with an interrupt.
ServiceInit ==
  /\ Init
  /\ stop = [s \in Schedulers |-> FALSE]
  /\ armed = [s \in Schedulers |-> TRUE]
  /\ waiter = [f \in Fds |-> Nil]
  /\ fired = [f \in Fds |-> FALSE]
  /\ ready = [f \in Fds |-> FALSE]
  /\ loc = [t \in Threads |-> "out"]
  /\ local = [t \in Threads |-> FALSE]
  /\ todo = [t \in Threads |-> {}]
  /\ wake = [t \in Threads |-> Nil]
  /\ budget = [stops |-> 0, signals |-> 0]

Goto(t, from, to) == loc[t] = from /\ loc' = [loc EXCEPT ![t] = to]

-----------------------------------------------------------------------------
(* run()                                                                   *)

Run(t) ==
  /\ loc[t] \in Outside /\ wake[t] = Nil /\ Home[t] # Nil
  /\ Enter(t, Home[t])
  /\ loc' = [loc EXCEPT ![t] = "start"]
  /\ UNCHANGED <<stop, ioVars, local, todo, wake, budget>>

LoadStop(t) ==
  /\ Goto(t, "start", "wait")
  /\ local' = [local EXCEPT ![t] = stop[index[t]]]
  /\ UNCHANGED <<schedulerVars, stop, ioVars, todo, wake, budget>>

\* What epoll_wait can deliver; the entry of events_ is the service itself.
Pending(s) ==
  {f \in Fds : Owner[f] = s /\ waiter[f] # Nil /\ ~fired[f] /\ ready[f]}
    \cup {x \in {s} : armed[s]}

\* epoll_wait returns entries, whose one-shot registrations it disables.
Wait(t) ==
  /\ Goto(t, "wait", "batch")
  /\ \E entries \in (SUBSET Pending(index[t])) \ {{}} :
       /\ Cardinality(entries) <= BufferSize
       /\ todo' = [todo EXCEPT ![t] = entries]
       /\ armed' = [s \in Schedulers |-> armed[s] /\ s \notin entries]
       /\ fired' = [f \in Fds |-> fired[f] \/ f \in entries]
  /\ UNCHANGED <<schedulerVars, stop, waiter, ready, local, wake, budget>>

\* epoll_wait returns nothing: run() returns if stop_ is set, or waits again.
WaitAgainOrReturn(t) ==
  \/ /\ ~stop[index[t]]
     /\ UNCHANGED <<schedulerVars, loc>>
  \/ /\ stop[index[t]]
     /\ loc' = [loc EXCEPT ![t] = "left"]
     /\ Leave(t)

\* The timeout is 1ms once `stop` is set, and infinite before.
Timeout(t) ==
  /\ loc[t] = "wait" /\ local[t] /\ Pending(index[t]) = {}
  /\ WaitAgainOrReturn(t)
  /\ UNCHANGED <<stop, ioVars, local, todo, wake, budget>>

Signal(t) ==
  /\ loc[t] = "wait" /\ budget.signals < MaxSignals
  /\ WaitAgainOrReturn(t)
  /\ budget' = [budget EXCEPT !.signals = @ + 1]
  /\ UNCHANGED <<stop, ioVars, local, todo, wake>>

\* Faulty variants: no EPOLL_CTL_DEL, and one that leaves a disabled entry.
HandleEventNoDelete(t) == \E f \in todo[t] \cap Fds :
  /\ loc[t] \in {"batch", "interrupted"}
  /\ Complete(t, waiter[f])
  /\ ready' = [ready EXCEPT ![f] = FALSE]
  /\ todo' = [todo EXCEPT ![t] = @ \ {f}]
  /\ UNCHANGED <<stop, armed, waiter, fired, loc, local, wake, budget>>

HandleEventStaysDisabled(t) == \E f \in todo[t] \cap Fds :
  /\ loc[t] \in {"batch", "interrupted"}
  /\ Complete(t, waiter[f])
  /\ waiter' = [waiter EXCEPT ![f] = Nil]
  /\ ready' = [ready EXCEPT ![f] = FALSE]
  /\ todo' = [todo EXCEPT ![t] = @ \ {f}]
  /\ UNCHANGED <<stop, armed, fired, loc, local, wake, budget>>

\* event::resume: EPOLL_CTL_DEL, then the coroutine, which does its I/O.
HandleEvent(t) == \E f \in todo[t] \cap Fds :
  /\ loc[t] \in {"batch", "interrupted"}
  /\ Complete(t, waiter[f])
  /\ waiter' = [waiter EXCEPT ![f] = Nil]
  /\ fired' = [fired EXCEPT ![f] = FALSE]
  /\ ready' = [ready EXCEPT ![f] = FALSE]
  /\ todo' = [todo EXCEPT ![t] = @ \ {f}]
  /\ UNCHANGED <<stop, armed, loc, local, wake, budget>>

\* Faulty variant: `stop` is not reloaded.
HandleInterruptOnly(t) ==
  /\ Goto(t, "batch", "interrupted")
  /\ pc[t] = "idle" /\ index[t] \in todo[t]
  /\ todo' = [todo EXCEPT ![t] = @ \ {index[t]}]
  /\ UNCHANGED <<schedulerVars, stop, ioVars, local, wake, budget>>

HandleInterrupt(t) ==
  /\ Goto(t, "batch", "interrupted")
  /\ pc[t] = "idle" /\ index[t] \in todo[t]
  /\ todo' = [todo EXCEPT ![t] = @ \ {index[t]}]
  /\ local' = [local EXCEPT ![t] = stop[index[t]]]
  /\ UNCHANGED <<schedulerVars, stop, ioVars, wake, budget>>

EndOfBatch(t) ==
  /\ pc[t] = "idle" /\ todo[t] = {}
  /\ Goto(t, "batch", "wait") \/ Goto(t, "interrupted", "process")
  /\ UNCHANGED <<schedulerVars, stop, ioVars, local, todo, wake, budget>>

\* process(): acquire() and the resume loop.
Process(t) ==
  /\ loc[t] = "process" /\ wake[t] = Nil
  /\ \/ Acquire(t) /\ UNCHANGED loc
     \/ (ReverseOne(t) \/ Reversed(t) \/ Resume(t)) /\ UNCHANGED loc
     \/ Return(t) /\ loc' = [loc EXCEPT ![t] = "wait"]
     \/ /\ pc[t] = "idle" /\ head[index[t]] = Nil
        /\ loc' = [loc EXCEPT ![t] = "wait"]
        /\ UNCHANGED schedulerVars
  /\ UNCHANGED <<stop, ioVars, local, todo, wake, budget>>

\* event::resume() returns to the loop over the entries.
EventReturns(t) ==
  /\ loc[t] \in {"batch", "interrupted"} /\ wake[t] = Nil
  /\ Return(t)
  /\ UNCHANGED serviceVars

-----------------------------------------------------------------------------
(* What coroutines do, inside run() or outside.                            *)

LaunchTask(t, c) ==
  /\ loc[t] \in Outside /\ wake[t] = Nil
  /\ Launch(t, c)
  /\ UNCHANGED serviceVars

Coroutine(t) ==
  /\ wake[t] = Nil
  /\ Await(t) \/ Finish(t) \/ PostLoad(t) \/ PostRetry(t)
  /\ UNCHANGED serviceVars

\* co_await event{...}.  If f is registered already, EPOLL_CTL_ADD fails, and
\* the coroutine goes on with an error: a stuttering step.
AwaitEvent(t, f) ==
  /\ wake[t] = Nil /\ waiter[f] = Nil
  /\ Suspend(t, Owner[f])
  /\ waiter' = [waiter EXCEPT ![f] = cur[t]]
  /\ UNCHANGED <<stop, armed, fired, ready, loopVars, wake, budget>>

\* Faulty variant: no interrupt follows the push.
PostSilently(t) ==
  /\ PostPublish(t)
  /\ UNCHANGED serviceVars

Post(t) ==
  /\ PostPublish(t)
  /\ wake' = [wake EXCEPT ![t] = target[cur[t]]]
  /\ UNCHANGED <<stop, ioVars, loopVars, budget>>

Stop(t, s, b) ==
  /\ wake[t] = Nil /\ budget.stops < MaxStops
  /\ pc[t] = "exec" \/ (pc[t] = "idle" /\ loc[t] \in Outside)
  /\ stop' = [stop EXCEPT ![s] = b]
  /\ wake' = [wake EXCEPT ![t] = s]
  /\ budget' = [budget EXCEPT !.stops = @ + 1]
  /\ UNCHANGED <<schedulerVars, ioVars, loopVars>>

Interrupt(t) ==
  /\ wake[t] # Nil
  /\ armed' = [armed EXCEPT ![wake[t]] = TRUE]
  /\ wake' = [wake EXCEPT ![t] = Nil]
  /\ UNCHANGED <<schedulerVars, stop, waiter, fired, ready, loopVars, budget>>

\* The peer makes the awaited I/O possible: it sends, or takes what was sent.
PeerActs(f) ==
  /\ ~ready[f]
  /\ ready' = [ready EXCEPT ![f] = TRUE]
  /\ UNCHANGED <<schedulerVars, stop, armed, waiter, fired, loopVars, wake, budget>>

-----------------------------------------------------------------------------
RunLoop(t) ==
  \/ LoadStop(t) \/ Wait(t) \/ Timeout(t) \/ HandleEvent(t) \/ HandleInterrupt(t)
  \/ EndOfBatch(t) \/ EventReturns(t) \/ Process(t)

ServiceNext ==
  \/ \E t \in Threads :
       \/ Run(t) \/ RunLoop(t) \/ Signal(t)
       \/ \E c \in Coros : LaunchTask(t, c)
       \/ \E f \in Fds : AwaitEvent(t, f)
       \/ Coroutine(t) \/ Post(t) \/ Interrupt(t)
       \/ \E s \in Schedulers, b \in StopArgs : Stop(t, s, b)
  \/ \E f \in Fds : PeerActs(f)

(* A thread that can take a step of the code takes it, epoll_wait returns  *)
(* when something is pending or its timeout is over; run() is entered at   *)
(* least once.  Nobody has to launch, to stop, to send or to signal.       *)
ServiceFairness == \A t \in Threads :
  /\ WF_allVars(RunLoop(t) \/ Coroutine(t) \/ Post(t) \/ Interrupt(t))
  /\ WF_allVars(loc[t] = "out" /\ cur[t] = Nil /\ Run(t))

ServiceSpec == ServiceInit /\ [][ServiceNext]_allVars
FairServiceSpec == ServiceSpec /\ ServiceFairness

-----------------------------------------------------------------------------
(* Properties                                                              *)

(* The pointers the kernel keeps and hands out: a registration leads to a  *)
(* coroutine that is still suspended in that event, every suspended one    *)
(* has exactly one, and a delivered entry is in one batch only; so run()   *)
(* dereferences live events and resumes each once.                         *)
EventsWaiting ==
  /\ \A f \in Fds : waiter[f] # Nil => at[waiter[f]] = "waiting" /\ target[waiter[f]] = Owner[f]
  /\ \A c \in Coros : at[c] = "waiting" =>
       \E f \in Fds : waiter[f] = c /\ \A g \in Fds \ {f} : waiter[g] # c
  /\ \A f \in Fds : fired[f] <=> \E t \in Threads : f \in todo[t]
  /\ \A t, u \in Threads : t # u => todo[t] \cap todo[u] \cap Fds = {}
  /\ \A f \in Fds : fired[f] => waiter[f] # Nil

Returned == \E t \in Threads : loc[t] = "left"

(* A posted coroutine is resumed, unless run() returns first: no interrupt *)
(* is lost between the push, the one-shot re-arming and epoll_wait.        *)
PostedResumes == \A c \in Coros : at[c] = "queued" ~> at[c] # "queued" \/ Returned

(* A coroutine in co_await event is resumed once its I/O is possible,      *)
(* unless run() returns first.                                             *)
EventDelivered == \A f \in Fds : (waiter[f] # Nil /\ ready[f]) ~> waiter[f] = Nil \/ Returned

(* Once stop() has been called, run() returns, unless stop(false) revokes  *)
(* the call; of several workers it is one, for the interrupt wakes one.    *)
StopReturns == \A s \in Schedulers :
  stop[s] ~> (\E t \in Threads : Home[t] = s /\ loc[t] = "left") \/ ~stop[s]

=============================================================================
